-------------------------- MODULE BlockArrayProofs --------------------------
(***************************************************************************)
(* No loop of memory_manager.c leaves the array, and when a call returns   *)
(* the array is what MemoryBlocks says, for every pool and all sizes.  For *)
(* the first what is in the entries does not matter, only where the loops  *)
(* begin and end.                                                          *)
(***************************************************************************)
EXTENDS BlockArray, MemoryBlocksProofs, FiniteSetTheorems

(* Where the loop's variable may be.  A shift to the right begins with an    *)
(* entry behind the block that has just been added, one to the left goes     *)
(* from the right neighbour of a block that stays to the last entry.         *)
ShiftsRight == index \in 0 .. memoryBlocksSize - 2 /\ j < memoryBlocksSize
HasBlock    == index \in 0 .. memoryBlocksSize - 1
ShiftsLeft  == index \in Nat /\ index < j /\ j < memoryBlocksSize

LoopFits ==
  \/ pc = "idle"
  \/ pc = "shift right" /\ ShiftsRight
  \/ pc \in {"join left", "join right"} /\ HasBlock
  \/ pc \in {"shift left", "shift left and end"} /\ ShiftsLeft

Numbers ==
  /\ room \in Nat /\ memoryBlocksSize \in Nat /\ memoryBlocksSize > 0
  /\ index \in Int /\ j \in Nat

BoundsInv == Numbers /\ LoopFits /\ InBounds

LEMMA BoundsInit == Init => BoundsInv
BY DEF Init, BoundsInv, Numbers, LoopFits, InBounds

-----------------------------------------------------------------------------
(* A call asks for one entry more than are in use, whatever room there was,  *)
(* and has used the entries up to its block.                                 *)
LEMMA mem_alloc_InBounds ==
  ASSUME BoundsInv, NEW k \in 0 .. memoryBlocksSize - 1, NEW n, mem_alloc(k, n)
  PROVE  BoundsInv'
<1>1. Numbers /\ InBounds /\ k \in 0 .. memoryBlocksSize - 1
  BY DEF BoundsInv
<1>2. index' = k /\ touched' = 0 .. k
  BY DEF mem_alloc, Begin
<1>3. CASE UNCHANGED <<room, memoryBlocksSize, j>> /\ pc' = "idle"
  <2>1. UNCHANGED <<room, memoryBlocksSize, j>>
    BY <1>3
  <2>2. Numbers' /\ InBounds'
    BY ONLY <1>1, <1>2, <2>1 DEF Numbers, InBounds
  <2> QED  BY ONLY <1>3, <2>2 DEF BoundsInv, LoopFits
<1>4. CASE /\ room' = memoryBlocksSize + 1 /\ memoryBlocksSize' = memoryBlocksSize + 1
           /\ j' = memoryBlocksSize' - 1 /\ pc' = "shift right"
  <2>1. /\ room' = memoryBlocksSize + 1 /\ memoryBlocksSize' = memoryBlocksSize + 1
        /\ j' = memoryBlocksSize' - 1
    BY <1>4
  <2>2. Numbers' /\ InBounds' /\ ShiftsRight'
    BY ONLY <1>1, <1>2, <2>1 DEF Numbers, InBounds, ShiftsRight
  <2> QED  BY ONLY <1>4, <2>2 DEF BoundsInv, LoopFits
<1> QED  BY <1>3, <1>4 DEF mem_alloc, increaseMemoryBlockArraySize

LEMMA shift_right_InBounds ==
  ASSUME BoundsInv, shift_right
  PROVE  BoundsInv'
<1>1. UNCHANGED <<room, memoryBlocksSize, index>>
  BY DEF shift_right
<1>2. Numbers /\ InBounds /\ ShiftsRight
  BY DEF BoundsInv, LoopFits, shift_right
<1>3. CASE j > LastShifted /\ j' = j - 1 /\ touched' = {j - 1, j} /\ pc' = "shift right"
  <2>1. j > LastShifted /\ j' = j - 1 /\ touched' = {j - 1, j}
    BY <1>3
  <2>2. Numbers' /\ InBounds' /\ ShiftsRight'
    BY ONLY <1>1, <1>2, <2>1 DEF Numbers, InBounds, ShiftsRight, LastShifted
  <2> QED  BY ONLY <1>3, <2>2 DEF BoundsInv, LoopFits
<1>4. CASE pc' = "idle" /\ touched' = {index, index + 1} /\ UNCHANGED j
  <2>1. touched' = {index, index + 1} /\ UNCHANGED j
    BY <1>4
  <2>2. Numbers' /\ InBounds'
    BY ONLY <1>1, <1>2, <2>1 DEF Numbers, InBounds, ShiftsRight
  <2> QED  BY ONLY <1>4, <2>2 DEF BoundsInv, LoopFits
<1> QED  BY <1>3, <1>4 DEF shift_right

LEMMA mem_free_InBounds ==
  ASSUME BoundsInv, NEW k \in 0 .. memoryBlocksSize - 1, mem_free(k)
  PROVE  BoundsInv'
<1>1. Numbers /\ InBounds /\ k \in 0 .. memoryBlocksSize - 1
  BY DEF BoundsInv
<1>2. index' = k /\ touched' = 0 .. k /\ UNCHANGED <<room, memoryBlocksSize, j>>
  BY DEF mem_free, Begin
<1>3. Numbers' /\ InBounds' /\ HasBlock'
  BY ONLY <1>1, <1>2 DEF Numbers, InBounds, HasBlock
<1>4. pc' = "join left"
  BY DEF mem_free
<1> QED  BY ONLY <1>3, <1>4 DEF BoundsInv, LoopFits

LEMMA join_left_InBounds ==
  ASSUME BoundsInv, join_left
  PROVE  BoundsInv'
<1>1. /\ touched' = {index} \cup ({index - 1} \cap Nat)
      /\ UNCHANGED <<room, memoryBlocksSize>>
  BY DEF join_left
<1>2. Numbers /\ InBounds /\ HasBlock
  BY DEF BoundsInv, LoopFits, join_left
<1>3. CASE index > 0 /\ j' = index /\ index' = index - 1 /\ pc' = "shift left"
  <2>1. index > 0 /\ j' = index /\ index' = index - 1
    BY <1>3
  <2>2. Numbers' /\ InBounds' /\ ShiftsLeft'
    BY ONLY <1>1, <1>2, <2>1 DEF Numbers, InBounds, HasBlock, ShiftsLeft
  <2> QED  BY ONLY <1>3, <2>2 DEF BoundsInv, LoopFits
<1>4. CASE pc' = "join right" /\ UNCHANGED <<j, index>>
  <2>1. UNCHANGED <<j, index>>
    BY <1>4
  <2>2. Numbers' /\ InBounds' /\ HasBlock'
    BY ONLY <1>1, <1>2, <2>1 DEF Numbers, InBounds, HasBlock
  <2> QED  BY ONLY <1>4, <2>2 DEF BoundsInv, LoopFits
<1> QED  BY <1>3, <1>4 DEF join_left

LEMMA join_right_InBounds ==
  ASSUME BoundsInv, join_right
  PROVE  BoundsInv'
<1>1. /\ touched' = {index} \cup (IF HasRight(index) THEN {index + 1} ELSE {})
      /\ UNCHANGED <<room, memoryBlocksSize, index>>
  BY DEF join_right
<1>2. Numbers /\ InBounds /\ HasBlock
  BY DEF BoundsInv, LoopFits, join_right
<1>3. CASE HasRight(index) /\ j' = index + 1 /\ pc' = "shift left and end"
  <2>1. HasRight(index) /\ j' = index + 1
    BY <1>3
  <2>2. Numbers' /\ InBounds' /\ ShiftsLeft'
    BY ONLY <1>1, <1>2, <2>1 DEF Numbers, InBounds, HasBlock, HasRight, ShiftsLeft
  <2> QED  BY ONLY <1>3, <2>2 DEF BoundsInv, LoopFits
<1>4. CASE pc' = "idle" /\ UNCHANGED j
  <2>1. UNCHANGED j
    BY <1>4
  <2>2. Numbers' /\ InBounds'
    BY ONLY <1>1, <1>2, <2>1 DEF Numbers, InBounds, HasBlock, HasRight
  <2> QED  BY ONLY <1>4, <2>2 DEF BoundsInv, LoopFits
<1> QED  BY <1>3, <1>4 DEF join_right

(* The block the loop was started for is left of it, and so still in the     *)
(* array when the last entry has been dropped.                               *)
LEMMA shift_left_InBounds ==
  ASSUME BoundsInv, shift_left
  PROVE  BoundsInv'
<1>1. UNCHANGED <<room, index>>
  BY DEF shift_left
<1>2. Numbers /\ InBounds /\ ShiftsLeft /\ pc \in {"shift left", "shift left and end"}
  BY DEF BoundsInv, LoopFits, shift_left
<1>3. CASE /\ LeftToShift /\ j' = j + 1 /\ touched' = {j, j + 1}
           /\ UNCHANGED <<memoryBlocksSize, pc>>
  <2>1. LeftToShift /\ j' = j + 1 /\ touched' = {j, j + 1} /\ UNCHANGED memoryBlocksSize
    BY <1>3
  <2>2. Numbers /\ InBounds /\ ShiftsLeft
    BY <1>2
  <2>3. Numbers' /\ InBounds' /\ ShiftsLeft'
    BY ONLY <1>1, <2>1, <2>2 DEF Numbers, InBounds, ShiftsLeft, LeftToShift
  <2> QED  BY ONLY <1>2, <1>3, <2>3 DEF BoundsInv, LoopFits
<1>4. CASE /\ memoryBlocksSize' = memoryBlocksSize - 1 /\ touched' = {} /\ UNCHANGED j
           /\ pc' = IF pc = "shift left" THEN "join right" ELSE "idle"
  <2>1. memoryBlocksSize' = memoryBlocksSize - 1 /\ touched' = {} /\ UNCHANGED j
    BY <1>4
  <2>2. Numbers /\ InBounds /\ ShiftsLeft
    BY <1>2
  <2>3. Numbers' /\ InBounds' /\ HasBlock'
    BY ONLY <1>1, <2>1, <2>2 DEF Numbers, InBounds, ShiftsLeft, HasBlock
  <2>4. pc' \in {"join right", "idle"}
    BY <1>4
  <2> QED  BY ONLY <2>3, <2>4 DEF BoundsInv, LoopFits
<1> QED  BY <1>3, <1>4 DEF shift_left

LEMMA mem_resize_InBounds ==
  ASSUME BoundsInv, NEW k \in 0 .. memoryBlocksSize - 1, NEW n, mem_resize(k, n)
  PROVE  BoundsInv'
<1>1. Numbers /\ InBounds /\ k \in 0 .. memoryBlocksSize - 1
  BY DEF BoundsInv
<1>2. /\ HasRight(k) /\ j' = k + 1 /\ index' = k
      /\ touched' = 0 .. memoryBlocksSize - 1
      /\ UNCHANGED <<room, memoryBlocksSize>>
  BY DEF mem_resize
<1>3. Numbers' /\ InBounds' /\ ShiftsLeft'
  BY ONLY <1>1, <1>2 DEF Numbers, InBounds, ShiftsLeft, HasRight
<1>4. pc' \in {"shift left and end", "idle"}
  BY DEF mem_resize
<1> QED  BY ONLY <1>3, <1>4 DEF BoundsInv, LoopFits

LEMMA BoundsKept == BoundsInv /\ [Next]_vars => BoundsInv'
<1> SUFFICES ASSUME BoundsInv, [Next]_vars PROVE BoundsInv'
  OBVIOUS
<1>1. CASE UNCHANGED vars
  BY <1>1 DEF vars, BoundsInv, Numbers, LoopFits, InBounds,
     ShiftsRight, HasBlock, ShiftsLeft
<1>2. ASSUME NEW k \in 0 .. memoryBlocksSize - 1, mem_free(k) PROVE BoundsInv'
  BY <1>2, mem_free_InBounds
<1>3. ASSUME NEW k \in 0 .. memoryBlocksSize - 1, NEW n \in Sizes,
             mem_alloc(k, n) \/ mem_resize(k, n)
      PROVE  BoundsInv'
  BY <1>3, mem_alloc_InBounds, mem_resize_InBounds
<1>4. CASE shift_right \/ join_left \/ join_right \/ shift_left
  BY <1>4, shift_right_InBounds, join_left_InBounds, join_right_InBounds, shift_left_InBounds
<1> QED  BY <1>1, <1>2, <1>3, <1>4 DEF Next

(* After any sequence of calls, whichever of them realloc refused, no loop   *)
(* of mem_alloc, mem_free or mem_resize reads or writes an entry outside the *)
(* memory realloc last gave the array.                                       *)
THEOREM LoopsStayInArray == Spec => []InBounds
<1>1. BoundsInv => InBounds
  BY DEF BoundsInv
<1> QED  BY <1>1, BoundsInit, BoundsKept, PTL DEF Spec

-----------------------------------------------------------------------------
(* The sequence bs is what is in the entries in use. *)
Represents(bs) ==
  /\ bs \in Seq(BlockType) /\ Len(bs) = memoryBlocksSize
  /\ \A i \in 1 .. memoryBlocksSize : bs[i] = entries[i-1]

(* It is what will be in them once a shift to the left is over: the entries *)
(* from j on still have to move down by one.                                *)
LeftBehind(bs) ==
  /\ bs \in Seq(BlockType) /\ Len(bs) = memoryBlocksSize - 1
  /\ \A i \in 1 .. memoryBlocksSize - 1 : bs[i] = IF i <= j THEN entries[i-1] ELSE entries[i]

(* And during a shift to the right: those right of j have moved up already,  *)
(* and the block is still to be split.                                      *)
MakesRoom ==
  /\ index + 1 <= j /\ Len(goal) = memoryBlocksSize
  /\ \A k \in 0 .. memoryBlocksSize - 1 :
       /\ k < index \/ j < k => entries[k] = goal[k+1]
       /\ index < k /\ k < j => entries[k] = goal[k+2]
  /\ goal[index+1] = Block(entries[index].startAdress, size, TRUE)
  /\ goal[index+2] = Block(entries[index].startAdress + size, entries[index].size - size, FALSE)

Joined(bs, i) == JoinRight(JoinLeft(bs, i), IF FreeBefore(bs, i) THEN i - 1 ELSE i)

(* What is still to be done at each label leads to the goal. *)
JoinsBoth  == \E bs : Represents(bs) /\ goal = Joined(bs, index + 1)
JoinsRight == \E bs : Represents(bs) /\ goal = JoinRight(bs, index + 1)
ClosesGap  == \E bs : LeftBehind(bs) /\ goal = JoinRight(bs, index + 1)

LeadsToGoal ==
  \/ pc = "idle" /\ Represents(goal)
  \/ pc = "shift right" /\ MakesRoom
  \/ pc = "join left" /\ JoinsBoth
  \/ pc = "join right" /\ JoinsRight
  \/ pc = "shift left" /\ ClosesGap
  \/ pc = "shift left and end" /\ LeftBehind(goal)

Memory ==
  /\ entries \in [Positions -> BlockType \cup {NULL}]
  /\ WellFormed(goal, PoolSize) /\ memoryBlocksSize <= PoolSize

ArrayInv == BoundsInv /\ Memory /\ LeadsToGoal

-----------------------------------------------------------------------------
(* A pool has no more blocks than bytes, as none is empty. *)
LEMMA BlocksFewerThanBytes ==
  ASSUME NEW total \in Nat \ {0}, NEW bs, WellFormed(bs, total)
  PROVE  Len(bs) \in 1 .. total
<1>1. /\ bs \in Seq(BlockType) /\ Len(bs) \in Nat /\ Len(bs) > 0 /\ DOMAIN bs = 1 .. Len(bs)
  BY EmptySeq, LenProperties DEF WellFormed, Layout, Tiles
<1>2. CASE Len(bs) = 1
  BY <1>2
<1>3. CASE Len(bs) # 1
  <2>1. \A i \in 1 .. Len(bs) : bs[i].startAdress \in Nat /\ bs[i].size \in Nat /\ bs[i].size > 0
    BY <1>1, <1>3, BlocksTyped DEF WellFormed, Layout, NoEmptyBlock
  <2>2. \A i, k \in 1 .. Len(bs) : i < k => bs[i].startAdress + bs[i].size <= bs[k].startAdress
    BY <1>1 DEF WellFormed, Layout, Ordered
  <2>3. bs[Len(bs)].startAdress + bs[Len(bs)].size = total
    BY DEF WellFormed, Layout, Tiles
  <2>4. \A i \in 1 .. Len(bs) : bs[i].startAdress \in 0 .. total - 1
    <3> TAKE i \in 1 .. Len(bs)
    <3> DEFINE n == Len(bs)
    <3>0. n \in Nat /\ n > 0 /\ i \in 1 .. n
      BY <1>1
    <3>1. n \in 1 .. n /\ i \in 1 .. n /\ (i < n \/ i = n)
      <4> HIDE DEF n
      <4> QED  BY ONLY <3>0
    <3>2. i < n => bs[i].startAdress + bs[i].size <= bs[n].startAdress
      BY <2>2, <3>1
    <3>3. bs[n].startAdress + bs[n].size = total /\ bs[n].startAdress \in Nat /\ bs[n].size \in Nat
      BY <2>1, <2>3, <3>1
    <3>4. bs[i].startAdress \in Nat /\ bs[i].size \in Nat /\ bs[i].size > 0
      BY <2>1
    <3> HIDE DEF n
    <3> QED  BY ONLY <3>1, <3>2, <3>3, <3>4, SMTT(20)
  <2>5. \A i, k \in 1 .. Len(bs) : i # k => bs[i].startAdress # bs[k].startAdress
    <3>1. \A i, k \in 1 .. Len(bs) : i < k => bs[i].startAdress # bs[k].startAdress
      <4> TAKE i, k \in 1 .. Len(bs)
      <4>1. bs[i].startAdress \in Nat /\ bs[i].size \in Nat /\ bs[i].size > 0
        BY <2>1
      <4>2. i < k => bs[i].startAdress + bs[i].size <= bs[k].startAdress
        BY <2>2
      <4> QED  BY ONLY <4>1, <4>2
    <3>2. \A i, k \in 1 .. Len(bs) : i < k \/ k < i \/ i = k
      BY <1>1
    <3> QED  BY ONLY <3>1, <3>2
  <2> DEFINE f == [i \in 1 .. Len(bs) |-> bs[i].startAdress]
  <2>6. f \in Injection(1 .. Len(bs), 0 .. total - 1)
    BY <2>4, <2>5 DEF Injection, IsInjective
  <2> HIDE DEF f
  <2>7. /\ IsFiniteSet(0 .. total - 1) /\ Cardinality(0 .. total - 1) = total
        /\ Cardinality(1 .. Len(bs)) = Len(bs)
    <3>1. \A n \in Nat : n > 0 => Cardinality(1 .. n) = n
      BY FS_Interval
    <3>2. total - 1 \in Int /\ ~(0 > total - 1) /\ (total - 1) - 0 + 1 = total
      OBVIOUS
    <3>3. IsFiniteSet(0 .. total - 1) /\ Cardinality(0 .. total - 1) = (total - 1) - 0 + 1
      BY <3>2, FS_Interval
    <3> QED  BY <1>1, <3>1, <3>2, <3>3
  <2>8. Cardinality(1 .. Len(bs)) <= Cardinality(0 .. total - 1)
    BY <2>6, <2>7, FS_Injection
  <2> QED  BY <1>1, <2>7, <2>8
<1> QED  BY <1>2, <1>3

LEMMA BlocksRepresent ==
  ASSUME memoryBlocksSize \in Nat, NEW bs, Represents(bs)
  PROVE  Blocks = bs
<1> DEFINE n == memoryBlocksSize
           all == [i \in 1 .. n |-> entries[i-1]]
<1>1. bs \in Seq(BlockType) /\ Len(bs) = n /\ \A i \in 1 .. n : bs[i] = entries[i-1]
  BY DEF Represents
<1>2. \A i \in 1 .. n : entries[i-1] \in BlockType
  BY <1>1, ElementOfSeq
<1>3. all \in Seq(BlockType) /\ Len(all) = n
  BY <1>2
<1>4. SubSeq(all, 1, n) = all
  BY <1>3
<1>5. all = bs
  BY <1>1, <1>3, SeqEqual
<1> QED  BY <1>4, <1>5 DEF Blocks


LEMMA EntryOf ==
  ASSUME memoryBlocksSize \in Nat, NEW bs, Represents(bs), NEW k \in 0 .. memoryBlocksSize - 1
  PROVE  /\ k + 1 \in 1 .. memoryBlocksSize /\ k + 1 \in DOMAIN bs /\ entries[k] = bs[k+1]
         /\ entries[k] \in BlockType
         /\ entries[k].startAdress \in Nat /\ entries[k].size \in Nat
         /\ entries[k].isUsed \in BOOLEAN
<1>1. /\ bs \in Seq(BlockType) /\ Len(bs) = memoryBlocksSize
      /\ \A i \in 1 .. memoryBlocksSize : bs[i] = entries[i-1]
  BY DEF Represents
<1>2. k + 1 \in 1 .. memoryBlocksSize /\ (k + 1) - 1 = k
  OBVIOUS
<1>3. k + 1 \in DOMAIN bs
  BY <1>1, <1>2, LenProperties
<1>4. bs[k+1] = entries[k]
  BY <1>1, <1>2
<1>5. bs[k+1] \in BlockType
  BY <1>1, <1>2, ElementOfSeq
<1> QED  BY <1>2, <1>3, <1>4, <1>5 DEF BlockType

(* A position of the code and the memory a step writes to. *)
LEMMA Written ==
  ASSUME PoolSize \in Nat, memoryBlocksSize \in Nat, Memory,
         NEW k \in 0 .. memoryBlocksSize - 1, NEW e \in BlockType \cup {NULL},
         entries' = [entries EXCEPT ![k] = e]
  PROVE  /\ entries' \in [Positions -> BlockType \cup {NULL}]
         /\ entries'[k] = e
         /\ \A q \in 0 .. memoryBlocksSize - 1 : q # k => entries'[q] = entries[q]
<1>1. k \in Positions /\ \A q \in 0 .. memoryBlocksSize - 1 : q \in Positions
  BY DEF Positions, Memory
<1> QED  BY <1>1 DEF Memory

(* Both sequences of blocks have the same entries but for one. *)
LEMMA OneReplaced ==
  ASSUME memoryBlocksSize \in Nat, UNCHANGED memoryBlocksSize, NEW bs, Represents(bs),
         NEW k \in 0 .. memoryBlocksSize - 1, NEW e \in BlockType,
         entries'[k] = e,
         \A q \in 0 .. memoryBlocksSize - 1 : q # k => entries'[q] = entries[q]
  PROVE  Represents([bs EXCEPT ![k+1] = e])'
<1> DEFINE n == memoryBlocksSize
           new == [bs EXCEPT ![k+1] = e]
<1>1. bs \in Seq(BlockType) /\ Len(bs) = n /\ \A i \in 1 .. n : bs[i] = entries[i-1]
  BY DEF Represents
<1>2. k + 1 \in DOMAIN bs
  BY EntryOf
<1>3. /\ new \in Seq(BlockType) /\ Len(new) = Len(bs)
      /\ \A i \in 1 .. Len(bs) : new[i] = IF i = k + 1 THEN e ELSE bs[i]
  BY <1>1, <1>2, Replaced
<1> HIDE DEF new
<1>4. \A i \in 1 .. n : new[i] = entries'[i-1]
  <2> TAKE i \in 1 .. n
  <2>1. i - 1 \in 0 .. n - 1 /\ (i = k + 1 <=> i - 1 = k)
    OBVIOUS
  <2> QED  BY <1>1, <1>3, <2>1
<1>5. new \in Seq(BlockType) /\ Len(new) = memoryBlocksSize'
  BY <1>1, <1>3
<1>6. Represents(new)'
  BY <1>4, <1>5 DEF Represents
<1> QED  BY <1>6 DEF new

-----------------------------------------------------------------------------
LEMMA mem_free_Leads ==
  ASSUME ArrayInv, NEW k \in 0 .. memoryBlocksSize - 1, mem_free(k)
  PROVE  Memory' /\ LeadsToGoal'
<1>1. /\ memoryBlocksSize \in Nat /\ PoolSize \in Nat /\ Memory
      /\ UNCHANGED memoryBlocksSize
  BY ArrayAssumption DEF ArrayInv, BoundsInv, Numbers, mem_free
<1> PICK bs : bs = goal
  OBVIOUS
<1>2. Represents(bs) /\ WellFormed(bs, PoolSize)
  BY <1>1 DEF ArrayInv, LeadsToGoal, mem_free, Memory
<1>3. Blocks = bs
  BY <1>1, <1>2, BlocksRepresent
<1> PICK e : e = Block(entries[k].startAdress, entries[k].size, FALSE)
  OBVIOUS
<1>4. /\ entries' = [entries EXCEPT ![k] = e]
      /\ index' = k /\ goal' = Release(bs, k + 1) /\ pc' = "join left"
  BY <1>3 DEF mem_free, Set, Begin
<1>5. /\ k + 1 \in 1 .. memoryBlocksSize /\ k + 1 \in DOMAIN bs /\ entries[k] = bs[k+1]
      /\ entries[k].startAdress \in Nat /\ entries[k].size \in Nat
  BY <1>1, <1>2, EntryOf
<1>6. e \in BlockType
  BY <1>5, BlockFields
<1>7. /\ entries' \in [Positions -> BlockType \cup {NULL}] /\ entries'[k] = e
      /\ \A q \in 0 .. memoryBlocksSize - 1 : q # k => entries'[q] = entries[q]
  BY <1>1, <1>4, <1>6, Written
<1>8. WellFormed(goal', PoolSize)
  BY <1>1, <1>2, <1>4, <1>5, ReleaseWellFormed
<1>9. Memory'
  BY <1>1, <1>7, <1>8 DEF Memory
<1> DEFINE clear == [bs EXCEPT ![k+1] = e]
<1>10. clear = Unmark(bs, k + 1)
  BY <1>5 DEF Unmark
<1>11. Represents(clear)'
  BY <1>1, <1>2, <1>6, <1>7, OneReplaced
<1>12. FreeBefore(clear, k + 1) <=> FreeBefore(bs, k + 1)
  <2>1. k + 1 > 1 => (k + 1) - 1 \in 1 .. memoryBlocksSize /\ (k + 1) - 1 # k + 1
    <3>1. memoryBlocksSize \in Nat /\ k \in 0 .. memoryBlocksSize - 1
      BY <1>1
    <3> QED  BY ONLY <3>1
  <2>2. bs \in Seq(BlockType) /\ Len(bs) = memoryBlocksSize
    BY <1>2 DEF Represents
  <2>3. \A i \in 1 .. memoryBlocksSize : i # k + 1 => clear[i] = bs[i]
    BY <1>5, <1>6, <2>2, Replaced
  <2> HIDE DEF clear
  <2> QED  BY <2>1, <2>3 DEF FreeBefore
<1> HIDE DEF clear
<1>13. goal' = Joined(clear, k + 1)
  BY <1>4, <1>10, <1>12 DEF Joined, Release
<1>14. JoinsBoth'
  BY <1>4, <1>11, <1>13 DEF JoinsBoth
<1> QED  BY ONLY <1>4, <1>9, <1>14 DEF LeadsToGoal

(* A block has been widened over its right neighbour, whose entry the shift  *)
(* has still to close.                                                       *)
LEMMA WidenedLeavesGap ==
  ASSUME PoolSize \in Nat, memoryBlocksSize \in Nat, Memory, UNCHANGED memoryBlocksSize,
         NEW bs, Represents(bs), NEW k \in 0 .. memoryBlocksSize - 1,
         HasRight(k), Widen(k), j' = k + 1
  PROVE  /\ entries' \in [Positions -> BlockType \cup {NULL}]
         /\ LeftBehind(Absorb(bs, k + 1))'
<1> DEFINE n == memoryBlocksSize
<1>1. /\ bs \in Seq(BlockType) /\ Len(bs) = n
      /\ \A i \in 1 .. n : bs[i] = entries[i-1]
  BY DEF Represents
<1>2. n \in Nat /\ k \in 0 .. n - 1 /\ k < n - 1
  BY DEF HasRight
<1>3. k + 1 \in 0 .. n - 1 /\ k + 1 \in 1 .. n /\ k + 2 \in 1 .. n /\ k + 1 < n
      /\ (k + 1) + 1 = k + 2 /\ n - 1 \in Nat
  <2> HIDE DEF n
  <2> QED  BY ONLY <1>2
<1>4. /\ k + 1 \in DOMAIN bs /\ entries[k] = bs[k+1]
      /\ entries[k].startAdress \in Nat /\ entries[k].size \in Nat /\ entries[k].isUsed \in BOOLEAN
  BY EntryOf
<1>5. entries[k+1] = bs[(k+1)+1] /\ entries[k+1].size \in Nat
  BY <1>3, EntryOf
<1> PICK e : e = Block(entries[k].startAdress, entries[k].size + entries[k+1].size,
                       entries[k].isUsed)
  OBVIOUS
<1>6. e \in BlockType
  <2>1. entries[k].size + entries[k+1].size \in Nat
    BY <1>4, <1>5
  <2> QED  BY <1>4, <2>1, BlockFields
<1>7. /\ entries' \in [Positions -> BlockType \cup {NULL}] /\ entries'[k] = e
      /\ \A q \in 0 .. n - 1 : q # k => entries'[q] = entries[q]
  BY <1>6, Written DEF Widen, Set
<1> PICK new : new = Absorb(bs, k + 1)
  OBVIOUS
<1>8. /\ new \in Seq(BlockType) /\ Len(new) = n - 1
      /\ \A q \in 1 .. n - 1 :
           new[q] = IF q < k + 1 THEN bs[q] ELSE IF q = k + 1 THEN e ELSE bs[q+1]
  <2> PICK i : i = k + 1
    OBVIOUS
  <2>1. bs \in Seq(BlockType) /\ i \in DOMAIN bs /\ i < Len(bs) /\ new = Absorb(bs, i)
    BY <1>1, <1>3, <1>4
  <2>2. /\ new \in Seq(BlockType) /\ Len(new) = Len(bs) - 1
        /\ \A q \in 1 .. Len(bs) - 1 :
              new[q] = IF q < i THEN bs[q]
                       ELSE IF q = i
                       THEN Block(bs[i].startAdress, bs[i].size + bs[i+1].size, bs[i].isUsed)
                       ELSE bs[q+1]
    BY ONLY <2>1, AbsorbJoins
  <2>3. e = Block(bs[i].startAdress, bs[i].size + bs[i+1].size, bs[i].isUsed)
    BY <1>4, <1>5
  <2> QED  BY <1>1, <2>2, <2>3
<1>9. \A q \in 1 .. n - 1 : new[q] = IF q <= k + 1 THEN entries'[q-1] ELSE entries'[q]
  <2> TAKE q \in 1 .. n - 1
  <2>0. n \in Nat /\ k \in 0 .. n - 1 /\ q \in 1 .. n - 1
    BY <1>2
  <2> HIDE DEF n
  <2>1. /\ q \in 1 .. n /\ q + 1 \in 1 .. n /\ q \in 0 .. n - 1 /\ q - 1 \in 0 .. n - 1
        /\ (q + 1) - 1 = q /\ (q < k + 1 => q - 1 # k) /\ (k + 1 < q => q # k)
        /\ (k + 1) - 1 = k
        /\ (q < k + 1 \/ q = k + 1 \/ k + 1 < q)
        /\ (q <= k + 1 <=> ~(k + 1 < q)) /\ (q = k + 1 => ~(q < k + 1) /\ ~(k + 1 < q))
        /\ (k + 1 < q => ~(q < k + 1) /\ q # k + 1)
    BY ONLY <2>0
  <2>2. q < k + 1 => new[q] = bs[q] /\ bs[q] = entries[q-1] /\ entries'[q-1] = entries[q-1]
    BY <1>1, <1>7, <1>8, <2>1
  <2>3. q = k + 1 => new[q] = e /\ entries'[q-1] = e
    BY <1>7, <1>8, <2>1
  <2>4. k + 1 < q => new[q] = bs[q+1] /\ bs[q+1] = entries[q] /\ entries'[q] = entries[q]
    BY <1>1, <1>7, <1>8, <2>1
  <2> QED  BY <2>1, <2>2, <2>3, <2>4
<1>10. LeftBehind(new)'
  BY <1>8, <1>9 DEF LeftBehind
<1> QED  BY <1>7, <1>10

LEMMA join_left_Leads ==
  ASSUME ArrayInv, join_left
  PROVE  Memory' /\ LeadsToGoal'
<1> PICK x : x = index
  OBVIOUS
<1>1. /\ memoryBlocksSize \in Nat /\ PoolSize \in Nat /\ Memory /\ pc = "join left"
      /\ x \in 0 .. memoryBlocksSize - 1 /\ UNCHANGED <<memoryBlocksSize, goal>>
  BY ArrayAssumption DEF ArrayInv, BoundsInv, Numbers, LoopFits, HasBlock, join_left
<1> PICK bs : Represents(bs) /\ goal = Joined(bs, x + 1)
  BY <1>1 DEF ArrayInv, LeadsToGoal, JoinsBoth
<1>2. x > 0 => x - 1 \in 0 .. memoryBlocksSize - 1 /\ (x - 1) + 1 = x /\ HasRight(x - 1)
               /\ (x + 1) - 1 = x /\ x + 1 > 1
  <2>1. memoryBlocksSize \in Nat /\ x \in 0 .. memoryBlocksSize - 1
    BY <1>1
  <2> QED  BY ONLY <2>1 DEF HasRight
<1>3. x > 0 => entries[x-1] = bs[x]
  <2> SUFFICES ASSUME x > 0 PROVE entries[x-1] = bs[x]
    OBVIOUS
  <2> QED  BY <1>1, <1>2, EntryOf
<1>4. FreeBefore(bs, x + 1) <=> x > 0 /\ ~entries[x-1].isUsed
  <2>1. x + 1 > 1 <=> x > 0
    <3>1. x \in 0 .. memoryBlocksSize - 1
      BY <1>1
    <3> QED  BY ONLY <3>1
  <2> QED  BY <1>2, <1>3, <2>1 DEF FreeBefore
<1>5. WellFormed(goal', PoolSize) /\ (memoryBlocksSize <= PoolSize)'
  BY <1>1 DEF Memory
<1>6. CASE x > 0 /\ ~entries[x-1].isUsed
  <2> PICK y : y = x - 1
    OBVIOUS
  <2>1. /\ Widen(y) /\ j' = y + 1 /\ index' = y /\ pc' = "shift left"
        /\ y \in 0 .. memoryBlocksSize - 1 /\ HasRight(y) /\ y + 1 = x
    BY <1>2, <1>6 DEF join_left
  <2>2. entries' \in [Positions -> BlockType \cup {NULL}] /\ LeftBehind(Absorb(bs, y + 1))'
    BY <1>1, <2>1, WidenedLeavesGap
  <2>3. goal' = JoinRight(Absorb(bs, y + 1), y + 1)
    BY <1>1, <1>2, <1>4, <1>6, <2>1 DEF Joined, JoinLeft
  <2>4. ClosesGap'
    BY <2>1, <2>2, <2>3 DEF ClosesGap
  <2>5. Memory'
    BY <1>5, <2>2 DEF Memory
  <2> QED  BY ONLY <2>1, <2>4, <2>5 DEF LeadsToGoal
<1>7. CASE ~(x > 0 /\ ~entries[x-1].isUsed)
  <2>1. pc' = "join right" /\ UNCHANGED <<entries, index>>
    BY <1>7 DEF join_left
  <2>2. goal' = JoinRight(bs, x + 1)
    BY <1>1, <1>4, <1>7 DEF Joined, JoinLeft
  <2>3. Represents(bs)'
    BY <1>1, <2>1 DEF Represents
  <2>4. JoinsRight'
    BY <2>1, <2>2, <2>3 DEF JoinsRight
  <2>5. Memory'
    BY <1>1, <1>5, <2>1 DEF Memory
  <2> QED  BY ONLY <2>1, <2>4, <2>5 DEF LeadsToGoal
<1> QED  BY <1>6, <1>7

LEMMA join_right_Leads ==
  ASSUME ArrayInv, join_right
  PROVE  Memory' /\ LeadsToGoal'
<1> PICK x : x = index
  OBVIOUS
<1>1. /\ memoryBlocksSize \in Nat /\ PoolSize \in Nat /\ Memory /\ pc = "join right"
      /\ x \in 0 .. memoryBlocksSize - 1 /\ UNCHANGED <<memoryBlocksSize, goal, index>>
  BY ArrayAssumption DEF ArrayInv, BoundsInv, Numbers, LoopFits, HasBlock, join_right
<1> PICK bs : Represents(bs) /\ goal = JoinRight(bs, x + 1)
  BY <1>1 DEF ArrayInv, LeadsToGoal, JoinsRight
<1>2. Len(bs) = memoryBlocksSize
  BY DEF Represents
<1>3. HasRight(x) => /\ x + 1 \in 0 .. memoryBlocksSize - 1 /\ x + 1 < memoryBlocksSize
  <2>1. memoryBlocksSize \in Nat /\ x \in 0 .. memoryBlocksSize - 1
    BY <1>1
  <2> QED  BY ONLY <2>1 DEF HasRight
<1>4. HasRight(x) => entries[x+1] = bs[(x+1)+1]
  <2> SUFFICES ASSUME HasRight(x) PROVE entries[x+1] = bs[(x+1)+1]
    OBVIOUS
  <2> QED  BY <1>1, <1>3, EntryOf
<1>5. FreeAfter(bs, x + 1) <=> HasRight(x) /\ ~entries[x+1].isUsed
  <2>1. x + 1 < memoryBlocksSize <=> HasRight(x)
    <3>1. memoryBlocksSize \in Nat /\ x \in 0 .. memoryBlocksSize - 1
      BY <1>1
    <3> QED  BY ONLY <3>1 DEF HasRight
  <2> QED  BY <1>2, <1>4, <2>1 DEF FreeAfter
<1>6. WellFormed(goal', PoolSize) /\ (memoryBlocksSize <= PoolSize)'
  BY <1>1 DEF Memory
<1>7. CASE HasRight(x) /\ ~entries[x+1].isUsed
  <2>1. Widen(x) /\ j' = x + 1 /\ pc' = "shift left and end"
    BY <1>7 DEF join_right
  <2>2. entries' \in [Positions -> BlockType \cup {NULL}] /\ LeftBehind(Absorb(bs, x + 1))'
    BY <1>1, <1>7, <2>1, WidenedLeavesGap
  <2>3. goal' = Absorb(bs, x + 1)
    BY <1>1, <1>5, <1>7 DEF JoinRight
  <2>4. LeftBehind(goal)'
    BY <2>2, <2>3 DEF LeftBehind
  <2>5. Memory'
    BY <1>6, <2>2 DEF Memory
  <2> QED  BY ONLY <2>1, <2>4, <2>5 DEF LeadsToGoal
<1>8. CASE ~(HasRight(x) /\ ~entries[x+1].isUsed)
  <2>1. pc' = "idle" /\ UNCHANGED entries
    BY <1>8 DEF join_right
  <2>2. goal' = bs
    BY <1>1, <1>5, <1>8 DEF JoinRight
  <2>3. Represents(goal)'
    BY <1>1, <2>1, <2>2 DEF Represents
  <2>4. Memory'
    BY <1>1, <1>6, <2>1 DEF Memory
  <2> QED  BY ONLY <2>1, <2>3, <2>4 DEF LeadsToGoal
<1> QED  BY <1>7, <1>8

(* The loop moves the gap one to the right, and drops it when it is last. *)
LEMMA GapMoves ==
  ASSUME ArrayInv, shift_left, NEW bs, LeftBehind(bs)
  PROVE  /\ Memory'
         /\ LeftToShift => LeftBehind(bs)'
         /\ ~LeftToShift => Represents(bs)'
<1> PICK x : x = j
  OBVIOUS
<1> PICK n : n = memoryBlocksSize
  OBVIOUS
<1>1. /\ n \in Nat /\ x \in 0 .. n - 1 /\ n <= PoolSize /\ PoolSize \in Nat
  <2>1. memoryBlocksSize \in Nat /\ j \in Nat /\ index \in Nat /\ index < j
        /\ j < memoryBlocksSize /\ memoryBlocksSize <= PoolSize /\ PoolSize \in Nat
    BY ArrayAssumption DEF ArrayInv, BoundsInv, Numbers, LoopFits, ShiftsLeft, Memory, shift_left
  <2> QED  BY ONLY <2>1, x = j, n = memoryBlocksSize
<1>2. Memory /\ UNCHANGED goal
  BY DEF ArrayInv, shift_left
<1>3. /\ bs \in Seq(BlockType) /\ Len(bs) = n - 1
      /\ \A i \in 1 .. n - 1 : bs[i] = IF i <= x THEN entries[i-1] ELSE entries[i]
  BY DEF LeftBehind
<1>4. CASE LeftToShift
  <2>1. /\ x < n - 1 /\ entries' = [entries EXCEPT ![x] = entries[x+1]] /\ j' = x + 1
        /\ memoryBlocksSize' = n
    BY <1>4 DEF shift_left, LeftToShift
  <2>2. x + 1 \in Positions
    BY <1>1, <2>1 DEF Positions
  <2>3. entries[x+1] \in BlockType \cup {NULL}
    BY <1>2, <2>2 DEF Memory
  <2> PICK e : e = entries[x+1]
    OBVIOUS
  <2>4. /\ entries' \in [Positions -> BlockType \cup {NULL}] /\ entries'[x] = e
        /\ \A q \in 0 .. n - 1 : q # x => entries'[q] = entries[q]
    BY <1>1, <1>2, <2>1, <2>3, Written
  <2>5. Memory'
    BY <1>1, <1>2, <2>1, <2>4 DEF Memory
  <2>6. \A i \in 1 .. n - 1 : bs[i] = IF i <= x + 1 THEN entries'[i-1] ELSE entries'[i]
    <3> TAKE i \in 1 .. n - 1
    <3>1. n \in Nat /\ x \in 0 .. n - 1 /\ i \in 1 .. n - 1
      BY <1>1
    <3>2. /\ i \in 0 .. n - 1 /\ i - 1 \in 0 .. n - 1
          /\ (i <= x => i - 1 # x) /\ (x + 1 < i => i # x)
          /\ (x + 1) - 1 = x
      BY ONLY <3>1
    <3>3. (i <= x \/ i = x + 1 \/ x + 1 < i) /\ (i <= x => i <= x + 1)
          /\ (x + 1 < i => ~(i <= x + 1) /\ ~(i <= x)) /\ (i = x + 1 => i <= x + 1 /\ ~(i <= x))
      BY ONLY <3>1
    <3>4. i <= x => bs[i] = entries[i-1] /\ entries'[i-1] = entries[i-1]
      BY <1>3, <2>4, <3>2
    <3>5. i = x + 1 => bs[i] = e /\ entries'[i-1] = e
      BY <1>3, <2>4, <3>2, <3>3
    <3>6. x + 1 < i => bs[i] = entries[i] /\ entries'[i] = entries[i]
      BY <1>3, <2>4, <3>2, <3>3
    <3> QED  BY <3>3, <3>4, <3>5, <3>6
  <2>7. LeftBehind(bs)'
    BY <1>3, <2>1, <2>6 DEF LeftBehind
  <2> QED  BY <1>4, <2>5, <2>7
<1>5. CASE ~LeftToShift
  <2>1. ~(x < n - 1) /\ memoryBlocksSize' = n - 1 /\ UNCHANGED entries
    BY <1>5 DEF shift_left, LeftToShift
  <2>2. \A i \in 1 .. n - 1 : bs[i] = entries[i-1]
    <3> TAKE i \in 1 .. n - 1
    <3>1. n \in Nat /\ x \in 0 .. n - 1 /\ i \in 1 .. n - 1 /\ ~(x < n - 1)
      BY <1>1, <2>1
    <3>2. i <= x
      BY ONLY <3>1
    <3> QED  BY <1>3, <3>2
  <2>3. Represents(bs)'
    BY <1>3, <2>1, <2>2 DEF Represents
  <2>4. n - 1 <= PoolSize
    BY ONLY <1>1
  <2>5. Memory'
    BY <1>1, <1>2, <2>1, <2>4 DEF Memory
  <2> QED  BY <1>5, <2>3, <2>5
<1> QED  BY <1>4, <1>5

LEMMA shift_left_Leads ==
  ASSUME ArrayInv, shift_left
  PROVE  Memory' /\ LeadsToGoal'
<1>1. UNCHANGED <<goal, index>> /\ pc \in {"shift left", "shift left and end"}
  BY DEF shift_left
<1>2. CASE pc = "shift left"
  <2> PICK bs : LeftBehind(bs) /\ goal = JoinRight(bs, index + 1)
    BY <1>2 DEF ArrayInv, LeadsToGoal, ClosesGap
  <2>1. Memory' /\ (LeftToShift => LeftBehind(bs)') /\ (~LeftToShift => Represents(bs)')
    BY GapMoves
  <2>2. goal' = JoinRight(bs, index' + 1)
    BY <1>1
  <2>3. CASE LeftToShift
    <3>1. pc' = "shift left"
      BY <1>2, <2>3 DEF shift_left
    <3>2. ClosesGap'
      BY <2>1, <2>2, <2>3 DEF ClosesGap
    <3> QED  BY ONLY <2>1, <3>1, <3>2 DEF LeadsToGoal
  <2>4. CASE ~LeftToShift
    <3>1. pc' = "join right"
      BY <1>2, <2>4 DEF shift_left
    <3>2. JoinsRight'
      BY <2>1, <2>2, <2>4 DEF JoinsRight
    <3> QED  BY ONLY <2>1, <3>1, <3>2 DEF LeadsToGoal
  <2> QED  BY <2>3, <2>4
<1>3. CASE pc = "shift left and end"
  <2> PICK bs : bs = goal
    OBVIOUS
  <2>1. LeftBehind(bs)
    BY <1>3 DEF ArrayInv, LeadsToGoal
  <2>2. Memory' /\ (LeftToShift => LeftBehind(bs)') /\ (~LeftToShift => Represents(bs)')
    BY <2>1, GapMoves
  <2>3. goal' = bs
    BY <1>1
  <2>4. CASE LeftToShift
    <3>1. pc' = "shift left and end"
      BY <1>3, <2>4 DEF shift_left
    <3>2. LeftBehind(goal)'
      BY <2>2, <2>3, <2>4 DEF LeftBehind
    <3> QED  BY ONLY <2>2, <3>1, <3>2 DEF LeadsToGoal
  <2>5. CASE ~LeftToShift
    <3>1. pc' = "idle"
      BY <1>3, <2>5 DEF shift_left
    <3>2. Represents(goal)'
      BY <2>2, <2>3, <2>5 DEF Represents
    <3> QED  BY ONLY <2>2, <3>1, <3>2 DEF LeadsToGoal
  <2> QED  BY <2>4, <2>5
<1> QED  BY <1>1, <1>2, <1>3

LEMMA mem_resize_Leads ==
  ASSUME ArrayInv, NEW k \in 0 .. memoryBlocksSize - 1, NEW n \in Sizes, mem_resize(k, n)
  PROVE  Memory' /\ LeadsToGoal'
<1> PICK len : len = memoryBlocksSize
  OBVIOUS
<1>1. /\ len \in Nat /\ len <= PoolSize /\ PoolSize \in Nat /\ Memory /\ pc = "idle"
      /\ n \in Nat /\ UNCHANGED memoryBlocksSize
      /\ k \in 0 .. len - 1
  BY ArrayAssumption DEF ArrayInv, BoundsInv, Numbers, Memory, mem_resize
<1> PICK bs : bs = goal
  OBVIOUS
<1>2. Represents(bs) /\ WellFormed(bs, PoolSize)
  BY <1>1 DEF ArrayInv, LeadsToGoal, Memory
<1>3. Blocks = bs
  BY <1>1, <1>2, BlocksRepresent
<1>4. k < len - 1 /\ k + 1 \in 0 .. len - 1
  <2>1. k < len - 1
    BY DEF mem_resize, HasRight
  <2> QED  BY ONLY <1>1, <2>1
<1>5. /\ k + 1 \in DOMAIN bs /\ entries[k] = bs[k+1] /\ entries[k].startAdress \in Nat
      /\ entries[k].size \in Nat /\ entries[k].isUsed \in BOOLEAN
  BY <1>1, <1>2, EntryOf
<1>6. entries[k+1] = bs[(k+1)+1] /\ entries[k+1].size \in Nat
  BY <1>1, <1>2, <1>4, EntryOf
<1> PICK rest : rest = Rest(k, n)
  OBVIOUS
<1> PICK a : a = Block(entries[k].startAdress, n, entries[k].isUsed)
  OBVIOUS
<1> PICK c : c = Block(entries[k].startAdress + n, rest, FALSE)
  OBVIOUS
<1>7. /\ entries[k].size < n /\ ~entries[k+1].isUsed /\ entries[k+1].size + entries[k].size >= n
      /\ entries' = [entries EXCEPT ![k] = a, ![k+1] = c]
      /\ j' = k + 1 /\ index' = k /\ goal' = GrowRight(bs, k + 1, n)
      /\ pc' = IF rest = 0 THEN "shift left and end" ELSE "idle"
  BY <1>3 DEF mem_resize
<1>8. rest \in Nat /\ rest = bs[(k+1)+1].size + bs[k+1].size - n
  <2> PICK here, right : here = entries[k].size /\ right = entries[k+1].size
    OBVIOUS
  <2>1. /\ here \in Nat /\ right \in Nat /\ n \in Nat /\ right + here >= n
        /\ rest = right + here - n
    BY <1>1, <1>5, <1>6, <1>7 DEF Rest
  <2>2. rest \in Nat
    BY ONLY <2>1
  <2> QED  BY <1>5, <1>6, <2>1, <2>2
<1>9. a \in BlockType /\ c \in BlockType
  <2>1. entries[k].startAdress + n \in Nat
    BY <1>1, <1>5
  <2> QED  BY <1>1, <1>5, <1>8, <2>1, BlockFields
<1>10. /\ entries' \in [Positions -> BlockType \cup {NULL}]
       /\ entries'[k] = a /\ entries'[k+1] = c
       /\ \A q \in 0 .. len - 1 : q # k /\ q # k + 1 => entries'[q] = entries[q]
  <2>1. k \in Positions /\ k + 1 \in Positions /\ k # k + 1
        /\ \A q \in 0 .. len - 1 : q \in Positions
    BY <1>1 DEF Positions
  <2> QED  BY <1>1, <1>7, <1>9, <2>1 DEF Memory
<1>11. Len(bs) = len /\ \A q \in 1 .. len : bs[q] = entries[q-1]
  BY <1>2 DEF Represents
<1>12. /\ bs \in Seq(BlockType) /\ CanGrowRight(bs, k + 1, n) /\ bs[k+1].size < n
  <2>1. k + 1 < Len(bs)
    BY ONLY <1>1, <1>4, <1>11
  <2>2. n <= bs[(k+1)+1].size + bs[k+1].size
    BY <1>1, <1>5, <1>6, <1>7
  <2> QED  BY <1>2, <1>5, <1>6, <1>7, <2>1, <2>2 DEF Represents, CanGrowRight, FreeAfter
<1> PICK new : new = GrowRight(bs, k + 1, n)
  OBVIOUS
<1>13. WellFormed(new, PoolSize)
  BY <1>1, <1>2, <1>5, <1>12, GrowRightWellFormed
<1>14. IsGrown(new, bs, k + 1, n)
  BY <1>1, <1>5, <1>12, GrowRightPositions
<1>15. Memory'
  BY <1>1, <1>7, <1>10, <1>13 DEF Memory
<1>16. CASE rest # 0
  <2>1. /\ new \in Seq(BlockType) /\ Len(new) = len
        /\ \A q \in 1 .. len :
             new[q] = IF q = (k + 1) + 1 THEN c ELSE IF q = k + 1 THEN a ELSE bs[q]
    BY <1>5, <1>8, <1>11, <1>14, <1>16 DEF IsGrown
  <2>2. \A q \in 1 .. len : new[q] = entries'[q-1]
    <3> TAKE q \in 1 .. len
    <3>1. len \in Nat /\ q \in 1 .. len /\ k \in 0 .. len - 1
      BY <1>1
    <3>2. /\ q - 1 \in 0 .. len - 1 /\ (q = (k + 1) + 1 <=> q - 1 = k + 1)
          /\ (q = k + 1 <=> q - 1 = k) /\ k # k + 1
      BY ONLY <3>1
    <3> QED  BY <1>10, <1>11, <2>1, <3>2
  <2>3. Represents(goal)'
    BY <1>1, <1>7, <2>1, <2>2 DEF Represents
  <2>4. pc' = "idle"
    BY <1>7, <1>16
  <2> QED  BY ONLY <1>15, <2>3, <2>4 DEF LeadsToGoal
<1>17. CASE rest = 0
  <2>1. /\ new \in Seq(BlockType) /\ Len(new) = len - 1
        /\ \A q \in 1 .. len - 1 :
             new[q] = IF q < k + 1 THEN bs[q] ELSE IF q = k + 1 THEN a ELSE bs[q+1]
    BY <1>5, <1>8, <1>11, <1>14, <1>17 DEF IsGrown
  <2>2. \A q \in 1 .. len - 1 : new[q] = IF q <= k + 1 THEN entries'[q-1] ELSE entries'[q]
    <3> TAKE q \in 1 .. len - 1
    <3>1. len \in Nat /\ q \in 1 .. len - 1 /\ k \in 0 .. len - 1
      BY <1>1
    <3>2. /\ q \in 1 .. len /\ q + 1 \in 1 .. len /\ q \in 0 .. len - 1 /\ q - 1 \in 0 .. len - 1
          /\ (q + 1) - 1 = q
      BY ONLY <3>1
    <3>3. /\ (q < k + 1 => q - 1 # k /\ q - 1 # k + 1 /\ q <= k + 1)
          /\ (q = k + 1 => q - 1 = k /\ q <= k + 1 /\ ~(q < k + 1))
          /\ (k + 1 < q => q # k /\ q # k + 1 /\ ~(q < k + 1) /\ ~(q <= k + 1))
          /\ (q < k + 1 \/ q = k + 1 \/ k + 1 < q)
      BY ONLY <3>1
    <3>4. q < k + 1 => new[q] = bs[q] /\ bs[q] = entries[q-1] /\ entries'[q-1] = entries[q-1]
      BY <1>10, <1>11, <2>1, <3>2, <3>3
    <3>5. q = k + 1 => new[q] = a /\ entries'[q-1] = a
      BY <1>10, <2>1, <3>3
    <3>6. k + 1 < q => new[q] = bs[q+1] /\ bs[q+1] = entries[q] /\ entries'[q] = entries[q]
      BY <1>10, <1>11, <2>1, <3>2, <3>3
    <3> QED  BY <3>3, <3>4, <3>5, <3>6
  <2>3. LeftBehind(goal)'
    BY <1>1, <1>7, <2>1, <2>2 DEF LeftBehind
  <2>4. pc' = "shift left and end"
    BY <1>7, <1>17
  <2> QED  BY ONLY <1>15, <2>3, <2>4 DEF LeadsToGoal
<1> QED  BY <1>8, <1>16, <1>17

-----------------------------------------------------------------------------
(* The block found is split by moving the entries right of it, for which the *)
(* array has got one entry more.                                             *)
LEMMA SplitMakesRoom ==
  ASSUME ArrayInv, Represents(goal), NEW k \in 0 .. memoryBlocksSize - 1, NEW n \in Sizes,
         n < entries[k].size, increaseMemoryBlockArraySize(1),
         j' = memoryBlocksSize' - 1, index' = k, size' = n,
         goal' = Carve(goal, k + 1, n), WellFormed(goal', PoolSize)
  PROVE  Memory' /\ MakesRoom'
<1> PICK len : len = memoryBlocksSize
  OBVIOUS
<1> PICK bs : bs = goal
  OBVIOUS
<1> PICK cut : cut = goal'
  OBVIOUS
<1>1. /\ len \in Nat /\ len <= PoolSize /\ PoolSize \in Nat \ {0} /\ Memory /\ n \in Nat
      /\ k \in 0 .. len - 1 /\ room \in Nat /\ len <= room
  BY ArrayAssumption DEF ArrayInv, BoundsInv, Numbers, Memory, InBounds
<1>2. /\ bs \in Seq(BlockType) /\ Len(bs) = len /\ \A q \in 1 .. len : bs[q] = entries[q-1]
  BY DEF Represents
<1>3. k + 1 \in DOMAIN bs /\ entries[k] = bs[k+1]
  BY <1>1, EntryOf
<1>4. IsSplit(cut, bs, k + 1, n)
  BY <1>1, <1>2, <1>3, CarvePositions
<1>5. /\ cut \in Seq(BlockType) /\ Len(cut) = len + 1
      /\ \A q \in 1 .. len + 1 :
           cut[q] = IF q < k + 1 THEN bs[q]
                    ELSE IF q = k + 1 THEN Block(bs[k+1].startAdress, n, TRUE)
                    ELSE IF q = (k + 1) + 1
                    THEN Block(bs[k+1].startAdress + n, bs[k+1].size - n, FALSE)
                    ELSE bs[q-1]
  BY <1>2, <1>4 DEF IsSplit
<1>6. /\ memoryBlocksSize' = len + 1 /\ room' = len + 1 /\ j' = (len + 1) - 1
      /\ entries' = [q \in Positions |-> IF q < room /\ q < room' THEN entries[q] ELSE NULL]
  BY DEF increaseMemoryBlockArraySize
<1>7. \A q \in 0 .. len - 1 : entries'[q] = entries[q]
  <2> TAKE q \in 0 .. len - 1
  <2>1. q \in Positions /\ q < room /\ q < len + 1
    BY <1>1 DEF Positions
  <2> QED  BY <1>6, <2>1
<1>8. Memory'
  <2>1. entries' \in [Positions -> BlockType \cup {NULL}]
    BY <1>1, <1>6 DEF Memory
  <2>2. Len(cut) \in 1 .. PoolSize
    BY <1>1, BlocksFewerThanBytes
  <2>3. len + 1 <= PoolSize
    BY <1>1, <1>5, <2>2
  <2> QED  BY <1>6, <2>1, <2>3 DEF Memory
<1>9. ASSUME NEW q \in 0 .. len, q < k \/ len < q
      PROVE  entries'[q] = cut[q+1]
  <2>1. len \in Nat /\ k \in 0 .. len - 1 /\ q \in 0 .. len /\ (q < k \/ len < q)
    BY <1>1, <1>9
  <2>2. /\ q + 1 \in 1 .. len /\ q + 1 \in 1 .. len + 1 /\ q + 1 < k + 1 /\ (q + 1) - 1 = q
        /\ q \in 0 .. len - 1
    BY ONLY <2>1
  <2> QED  BY <1>2, <1>5, <1>7, <2>2
<1>10. ASSUME NEW q \in 0 .. len, k < q, q < len
       PROVE  entries'[q] = cut[q+2]
  <2>1. len \in Nat /\ k \in 0 .. len - 1 /\ q \in 0 .. len /\ k < q /\ q < len
    BY <1>1, <1>10
  <2>2. /\ q + 2 \in 1 .. len + 1 /\ ~(q + 2 < k + 1) /\ q + 2 # k + 1 /\ q + 2 # (k + 1) + 1
        /\ (q + 2) - 1 = q + 1 /\ q + 1 \in 1 .. len /\ (q + 1) - 1 = q /\ q \in 0 .. len - 1
    BY ONLY <2>1
  <2> QED  BY <1>2, <1>5, <1>7, <2>2
<1>11. /\ cut[k+1] = Block(entries'[k].startAdress, n, TRUE)
       /\ cut[k+2] = Block(entries'[k].startAdress + n, entries'[k].size - n, FALSE)
  <2>1. len \in Nat /\ k \in 0 .. len - 1
    BY <1>1
  <2>2. /\ k + 1 \in 1 .. len + 1 /\ k + 2 \in 1 .. len + 1 /\ ~(k + 1 < k + 1)
        /\ ~(k + 2 < k + 1) /\ k + 2 # k + 1 /\ k + 2 = (k + 1) + 1
    BY ONLY <2>1
  <2>3. entries'[k] = bs[k+1]
    BY <1>1, <1>3, <1>7
  <2> QED  BY <1>5, <2>2, <2>3
<1>12. k + 1 <= (len + 1) - 1 /\ (len + 1) - 1 = len
  BY ONLY <1>1
<1>13. \A q \in 0 .. (len + 1) - 1 :
          /\ q < k \/ (len + 1) - 1 < q => entries'[q] = cut[q+1]
          /\ k < q /\ q < (len + 1) - 1 => entries'[q] = cut[q+2]
  BY <1>9, <1>10, <1>12
<1>14. MakesRoom'
  BY <1>5, <1>6, <1>11, <1>12, <1>13, ZenonT(40) DEF MakesRoom
<1> QED  BY <1>8, <1>14

LEMMA mem_alloc_Leads ==
  ASSUME ArrayInv, NEW k \in 0 .. memoryBlocksSize - 1, NEW n \in Sizes, mem_alloc(k, n)
  PROVE  Memory' /\ LeadsToGoal'
<1>1. /\ memoryBlocksSize \in Nat /\ PoolSize \in Nat \ {0} /\ Memory /\ pc = "idle"
      /\ n \in Nat \ {0} /\ n \in Nat /\ PoolSize \in Nat
  BY ArrayAssumption DEF ArrayInv, BoundsInv, Numbers, mem_alloc
<1> PICK bs : bs = goal
  OBVIOUS
<1>2. Represents(bs) /\ WellFormed(bs, PoolSize)
  BY <1>1 DEF ArrayInv, LeadsToGoal, Memory
<1>3. Blocks = bs
  BY <1>1, <1>2, BlocksRepresent
<1>4. /\ k + 1 \in DOMAIN bs /\ entries[k] = bs[k+1]
      /\ entries[k].startAdress \in Nat /\ entries[k].size \in Nat
  BY <1>1, <1>2, EntryOf
<1>5. k + 1 \in FirstFit(bs, n) /\ n <= entries[k].size
  BY <1>3, <1>4 DEF mem_alloc, FirstFit, Fits
<1> PICK cut : cut = Carve(bs, k + 1, n)
  OBVIOUS
<1>6. WellFormed(cut, PoolSize)
  BY <1>1, <1>2, <1>5, CarveWellFormed
<1>7. CASE /\ entries[k].size = n /\ Set(k, entries[k].startAdress, n, TRUE)
           /\ goal' = cut /\ UNCHANGED <<memoryBlocksSize, pc>>
  <2> PICK e : e = Block(entries[k].startAdress, n, TRUE)
    OBVIOUS
  <2>1. e \in BlockType
    BY <1>1, <1>4, BlockFields
  <2>2. entries' = [entries EXCEPT ![k] = e]
    BY <1>7 DEF Set
  <2>3. /\ entries' \in [Positions -> BlockType \cup {NULL}] /\ entries'[k] = e
        /\ \A q \in 0 .. memoryBlocksSize - 1 : q # k => entries'[q] = entries[q]
    BY <1>1, <2>1, <2>2, Written
  <2>4. Represents([bs EXCEPT ![k+1] = e])'
    BY <1>1, <1>2, <1>7, <2>1, <2>3, OneReplaced
  <2>5. cut = [bs EXCEPT ![k+1] = e]
    BY <1>4, <1>7 DEF Carve
  <2>6. Represents(goal)'
    BY <1>7, <2>4, <2>5 DEF Represents
  <2>7. Memory'
    BY <1>1, <1>6, <1>7, <2>3 DEF Memory
  <2>8. pc' = "idle"
    BY <1>1, <1>7
  <2> QED  BY ONLY <2>6, <2>7, <2>8 DEF LeadsToGoal
<1>8. CASE /\ entries[k].size # n /\ increaseMemoryBlockArraySize(1)
           /\ j' = memoryBlocksSize' - 1 /\ pc' = "shift right"
           /\ index' = k /\ size' = n /\ goal' = cut
  <2>1. n < entries[k].size
    <3>1. entries[k].size # n
      BY <1>8
    <3> PICK here : here = entries[k].size
      OBVIOUS
    <3>2. here \in Nat /\ n \in Nat /\ n <= here /\ here # n
      BY <1>1, <1>4, <1>5, <3>1
    <3>3. n < here
      BY ONLY <3>2
    <3> QED  BY <3>3
  <2>2. Represents(goal) /\ goal' = Carve(goal, k + 1, n) /\ WellFormed(goal', PoolSize)
    BY <1>2, <1>6, <1>8
  <2>3. Memory' /\ MakesRoom'
    BY <1>8, <2>1, <2>2, SplitMakesRoom
  <2> QED  BY ONLY <1>8, <2>3 DEF LeadsToGoal
<1>9. CASE goal' = bs /\ UNCHANGED <<entries, memoryBlocksSize, pc>>
  <2>1. Represents(goal)'
    BY <1>2, <1>9 DEF Represents
  <2>2. Memory'
    BY <1>1, <1>2, <1>9 DEF Memory
  <2>3. pc' = "idle"
    BY <1>1, <1>9
  <2> QED  BY ONLY <2>1, <2>2, <2>3 DEF LeadsToGoal
<1> QED  BY <1>3, <1>7, <1>8, <1>9 DEF mem_alloc, Begin

LEMMA shift_right_Leads ==
  ASSUME ArrayInv, shift_right
  PROVE  Memory' /\ LeadsToGoal'
<1> PICK x, k, n, sz, cut : /\ x = j /\ k = index /\ n = memoryBlocksSize /\ sz = size
                            /\ cut = goal
  OBVIOUS
<1>1. /\ n \in Nat /\ k \in 0 .. n - 2 /\ x < n /\ x \in Nat /\ n <= PoolSize
      /\ PoolSize \in Nat /\ Memory /\ pc = "shift right"
  BY ArrayAssumption DEF ArrayInv, BoundsInv, Numbers, LoopFits, ShiftsRight, Memory, shift_right
<1>2. UNCHANGED <<memoryBlocksSize, index, size, goal>>
  BY DEF shift_right
<1>3. /\ k + 1 <= x /\ Len(cut) = n
      /\ \A q \in 0 .. n - 1 :
           /\ q < k \/ x < q => entries[q] = cut[q+1]
           /\ k < q /\ q < x => entries[q] = cut[q+2]
      /\ cut[k+1] = Block(entries[k].startAdress, sz, TRUE)
      /\ cut[k+2] = Block(entries[k].startAdress + sz, entries[k].size - sz, FALSE)
  BY <1>1 DEF ArrayInv, LeadsToGoal, MakesRoom
<1>4. \A q \in 0 .. n - 1 : q \in Positions
  <2>1. n \in Nat /\ n <= PoolSize /\ PoolSize \in Nat
    BY <1>1
  <2> QED  BY ONLY <2>1 DEF Positions
<1>5. cut \in Seq(BlockType)
  BY <1>1 DEF Memory, WellFormed, Layout
<1>6. /\ x \in 0 .. n - 1 /\ k \in 0 .. n - 1 /\ k + 1 \in 0 .. n - 1 /\ k # k + 1
      /\ k + 1 \in 1 .. n /\ k + 2 \in 1 .. n /\ k # x
  <2>1. n \in Nat /\ k \in 0 .. n - 2 /\ x < n /\ x \in Nat /\ k + 1 <= x
    BY <1>1, <1>3
  <2> QED  BY ONLY <2>1
<1>7. CASE j > LastShifted
  <2>0. ~(j <= LastShifted) /\ x > k + 1
    <3>1. x \in Nat /\ k \in 0 .. n - 1 /\ j = x /\ index = k /\ j > LastShifted
      BY <1>1, <1>6, <1>7
    <3> QED  BY ONLY <3>1 DEF LastShifted
  <2>1. /\ x > k + 1 /\ entries' = [entries EXCEPT ![x] = entries[x-1]] /\ j' = x - 1
        /\ pc' = "shift right"
    BY <1>1, <2>0 DEF shift_right
  <2>2. x - 1 \in 0 .. n - 1 /\ k < x - 1 /\ x - 1 < x /\ (x - 1) + 2 = x + 1 /\ k + 1 <= x - 1
    <3>1. n \in Nat /\ k \in 0 .. n - 2 /\ x < n /\ x \in Nat /\ x > k + 1
      BY <1>1, <2>1
    <3> QED  BY ONLY <3>1
  <2> PICK e : e = entries[x-1]
    OBVIOUS
  <2>3. e \in BlockType \cup {NULL}
    BY <1>1, <1>4, <2>2 DEF Memory
  <2>4. /\ entries' \in [Positions -> BlockType \cup {NULL}] /\ entries'[x] = e
        /\ \A q \in 0 .. n - 1 : q # x => entries'[q] = entries[q]
    BY <1>1, <1>4, <1>6, <2>1, <2>3 DEF Memory
  <2>5. e = cut[x+1]
    BY <1>3, <2>2
  <2>6. ASSUME NEW q \in 0 .. n - 1
        PROVE  /\ q < k \/ x - 1 < q => entries'[q] = cut[q+1]
               /\ k < q /\ q < x - 1 => entries'[q] = cut[q+2]
    <3>1. n \in Nat /\ k \in 0 .. n - 1 /\ x \in 0 .. n - 1 /\ q \in 0 .. n - 1 /\ x > k + 1
      BY <1>1, <1>6, <2>1
    <3>2. /\ q < k => q # x
          /\ x - 1 < q => q = x \/ x < q
          /\ x < q => q # x
          /\ q < x - 1 => q < x /\ q # x
      BY ONLY <3>1
    <3>3. q < k => entries'[q] = cut[q+1]
      BY <1>3, <2>4, <3>2
    <3>4. x - 1 < q => entries'[q] = cut[q+1]
      BY <1>3, <2>4, <2>5, <3>2
    <3>5. k < q /\ q < x - 1 => entries'[q] = cut[q+2]
      BY <1>3, <2>4, <3>2
    <3> QED  BY <3>3, <3>4, <3>5
  <2>7. entries'[k] = entries[k]
    BY <1>6, <2>4
  <2>8. MakesRoom'
    BY <1>2, <1>3, <2>1, <2>2, <2>6, <2>7 DEF MakesRoom
  <2>9. Memory'
    BY <1>1, <1>2, <2>4 DEF Memory
  <2> QED  BY ONLY <2>1, <2>8, <2>9 DEF LeadsToGoal
<1>8. CASE ~(j > LastShifted)
  <2> PICK a, b : /\ a = Block(entries[k].startAdress, sz, TRUE)
                  /\ b = Block(entries[k].startAdress + sz, entries[k].size - sz, FALSE)
    OBVIOUS
  <2>1. /\ ~(x > k + 1) /\ entries' = [entries EXCEPT ![k] = a, ![k+1] = b]
        /\ pc' = "idle"
    BY <1>1, <1>8 DEF shift_right, LastShifted
  <2>2. x = k + 1
    <3>1. x \in Nat /\ k \in 0 .. n - 1 /\ k + 1 <= x /\ ~(x > k + 1)
      BY <1>1, <1>3, <1>6, <2>1
    <3> QED  BY ONLY <3>1
  <2>3. a = cut[k+1] /\ b = cut[k+2] /\ a \in BlockType /\ b \in BlockType
    BY <1>3, <1>5, <1>6, ElementOfSeq
  <2>4. /\ entries' \in [Positions -> BlockType \cup {NULL}]
        /\ entries'[k] = a /\ entries'[k+1] = b
        /\ \A q \in 0 .. n - 1 : q # k /\ q # k + 1 => entries'[q] = entries[q]
    BY <1>1, <1>4, <1>6, <2>1, <2>3 DEF Memory
  <2>5. \A i \in 1 .. n : cut[i] = entries'[i-1]
    <3> TAKE i \in 1 .. n
    <3>1. n \in Nat /\ k \in 0 .. n - 1 /\ i \in 1 .. n
      BY <1>1, <1>6
    <3> PICK q : q = i - 1
      OBVIOUS
    <3>2. /\ q \in 0 .. n - 1 /\ i = q + 1
          /\ (q < k \/ q = k \/ q = k + 1 \/ k + 1 < q)
          /\ (q < k => q # k /\ q # k + 1) /\ (k + 1 < q => q # k /\ q # k + 1)
          /\ (q = k + 1 => i = k + 2)
      BY ONLY <3>1, q = i - 1
    <3>3. q < k \/ k + 1 < q => entries'[q] = cut[i]
      BY <1>3, <2>2, <2>4, <3>2
    <3>4. q = k \/ q = k + 1 => entries'[q] = cut[i]
      BY <2>3, <2>4, <3>2
    <3> QED  BY <3>2, <3>3, <3>4
  <2>6. Represents(goal)'
    BY <1>2, <1>3, <1>5, <2>5 DEF Represents
  <2>7. Memory'
    BY <1>1, <1>2, <2>4 DEF Memory
  <2> QED  BY ONLY <2>1, <2>6, <2>7 DEF LeadsToGoal
<1> QED  BY <1>7, <1>8

-----------------------------------------------------------------------------
LEMMA ArrayInit == Init => ArrayInv
<1> SUFFICES ASSUME Init PROVE ArrayInv
  OBVIOUS
<1> PICK b : b = Block(0, PoolSize, FALSE)
  OBVIOUS
<1>1. PoolSize \in Nat /\ PoolSize > 0
  BY ArrayAssumption
<1>2. b \in BlockType
  BY <1>1, BlockFields
<1>3. /\ entries = [k \in Positions |-> IF k = 0 THEN b ELSE NULL]
      /\ memoryBlocksSize = 1 /\ goal = <<b>> /\ pc = "idle"
  BY DEF Init
<1>4. <<b>> \in Seq(BlockType) /\ Len(<<b>>) = 1 /\ <<b>>[1] = b
  BY ONLY <1>2
<1>5. WellFormed(goal, PoolSize)
  BY <1>1, <1>3, FreshPool
<1>6. Memory
  <2>1. entries \in [Positions -> BlockType \cup {NULL}]
    BY <1>2, <1>3
  <2>2. memoryBlocksSize <= PoolSize
    <3>1. memoryBlocksSize = 1 /\ PoolSize \in Nat /\ PoolSize > 0
      BY <1>1, <1>3
    <3> QED  BY ONLY <3>1
  <2> QED  BY <1>5, <2>1, <2>2 DEF Memory
<1>7. Represents(goal)
  <2>1. 0 \in Positions
    <3> QED  BY ONLY <1>1 DEF Positions
  <2>2. entries[0] = b
    BY <1>3, <2>1
  <2>3. \A i \in 1 .. 1 : i = 1 /\ i - 1 = 0
    OBVIOUS
  <2>4. \A i \in 1 .. 1 : <<b>>[i] = entries[i-1]
    BY <1>4, <2>2, <2>3
  <2> QED  BY <1>3, <1>4, <2>4 DEF Represents
<1> QED  BY <1>3, <1>6, <1>7, BoundsInit DEF ArrayInv, LeadsToGoal

LEMMA ArrayKept == ArrayInv /\ [Next]_vars => ArrayInv'
<1> SUFFICES ASSUME ArrayInv, [Next]_vars PROVE ArrayInv'
  OBVIOUS
<1>1. BoundsInv'
  BY BoundsKept DEF ArrayInv
<1>2. Memory' /\ LeadsToGoal'
  <2>1. CASE UNCHANGED vars
    BY <2>1 DEF vars, ArrayInv, Memory, LeadsToGoal, Represents, LeftBehind, MakesRoom,
       JoinsBoth, JoinsRight, ClosesGap
  <2>2. ASSUME NEW k \in 0 .. memoryBlocksSize - 1, mem_free(k)
        PROVE  Memory' /\ LeadsToGoal'
    BY <2>2, mem_free_Leads
  <2>3. ASSUME NEW k \in 0 .. memoryBlocksSize - 1, NEW n \in Sizes,
               mem_alloc(k, n) \/ mem_resize(k, n)
        PROVE  Memory' /\ LeadsToGoal'
    BY <2>3, mem_alloc_Leads, mem_resize_Leads
  <2>4. CASE shift_right \/ join_left \/ join_right \/ shift_left
    BY <2>4, shift_right_Leads, join_left_Leads, join_right_Leads, shift_left_Leads
  <2> QED  BY <2>1, <2>2, <2>3, <2>4 DEF Next
<1> QED  BY <1>1, <1>2 DEF ArrayInv

LEMMA ArrayInvariant == Spec => []ArrayInv
BY ArrayInit, ArrayKept, PTL DEF Spec

(* Whenever no call runs, the entries in use are exactly what the call that  *)
(* returned last was to leave: the loops of mem_alloc, mem_free and          *)
(* mem_resize, entry by entry, do what Carve, Release and GrowRight say.     *)
THEOREM LoopsDoTheirWork == Spec => []LoopsReachGoal
<1>1. ArrayInv => LoopsReachGoal
  <2> SUFFICES ASSUME ArrayInv, pc = "idle" PROVE Blocks = goal
    BY DEF LoopsReachGoal
  <2>1. Represents(goal) /\ memoryBlocksSize \in Nat
    BY DEF ArrayInv, LeadsToGoal, BoundsInv, Numbers
  <2> QED  BY <2>1, BlocksRepresent
<1> QED  BY <1>1, ArrayInvariant, PTL

(* Every variable keeps its type: positions stay whole numbers though the    *)
(* loops count down, and no entry becomes anything but a block.              *)
THEOREM TypeCorrect == Spec => []TypeOK
<1>1. Init => size \in Nat
  BY DEF Init
<1>2. size \in Nat /\ [Next]_vars => (size \in Nat)'
  <2> SUFFICES ASSUME size \in Nat, [Next]_vars PROVE size' \in Nat
    OBVIOUS
  <2>1. CASE UNCHANGED vars
    BY <2>1 DEF vars
  <2>2. ASSUME NEW k \in 0 .. memoryBlocksSize - 1, mem_free(k) PROVE size' \in Nat
    BY <2>2 DEF mem_free, Begin
  <2>3. ASSUME NEW k \in 0 .. memoryBlocksSize - 1, NEW n \in Sizes,
               mem_alloc(k, n) \/ mem_resize(k, n)
        PROVE  size' \in Nat
    <3>1. n \in Nat
      BY ArrayAssumption
    <3>2. size' = n
      BY <2>3 DEF mem_alloc, mem_resize, Begin
    <3> QED  BY <3>1, <3>2
  <2>4. CASE shift_right \/ join_left \/ join_right \/ shift_left
    BY <2>4 DEF shift_right, join_left, join_right, shift_left
  <2> QED  BY <2>1, <2>2, <2>3, <2>4 DEF Next
<1>3. ArrayInv /\ size \in Nat => TypeOK
  <2> SUFFICES ASSUME ArrayInv, size \in Nat PROVE TypeOK
    OBVIOUS
  <2>1. Memory /\ Numbers /\ LoopFits /\ InBounds
    BY DEF ArrayInv, BoundsInv
  <2>2. /\ entries \in [Positions -> BlockType \cup {NULL}] /\ goal \in Seq(BlockType)
        /\ room \in Nat /\ memoryBlocksSize \in Nat /\ index \in Int /\ j \in Nat
    BY <2>1 DEF Memory, Numbers, WellFormed, Layout
  <2>3. pc \in {"idle", "shift right", "join left", "shift left", "join right",
                "shift left and end"}
    BY ONLY <2>1 DEF LoopFits
  <2>4. touched \subseteq Int
    BY ONLY <2>1 DEF InBounds, Numbers
  <2> QED  BY <2>2, <2>3, <2>4 DEF TypeOK
<1> QED  BY <1>1, <1>2, <1>3, ArrayInvariant, PTL DEF Spec

=============================================================================

------------------------- MODULE MemoryManagerProofs -------------------------
(***************************************************************************)
(* The invariants of MemoryManager, for pools and requests of every size,  *)
(* and that it implements PoolAllocator.                                   *)
(***************************************************************************)
EXTENDS MemoryManager, MemoryBlocksProofs

(* Either there is no array (no pool, or mem_init died before it had one), *)
(* or it is well formed.                                                   *)
ArraySound ==
  \/ memoryBlocks = <<>> /\ (memPoolStart = NULL \/ crashed)
  \/ memPoolStart # NULL /\ WellFormed(memoryBlocks, memPoolSize)

IInv == TypeOK /\ ArraySound /\ LockMatchesPool

-----------------------------------------------------------------------------
LEMMA OutcomeFields ==
  ASSUME NEW bs, NEW p, NEW heap
  PROVE  /\ Outcome(bs, p, heap).blocks = bs
         /\ Outcome(bs, p, heap).ptr = p
         /\ Outcome(bs, p, heap).heap = heap
BY DEF Outcome

(* Whatever mem_alloc does, it does to a well-formed array. *)
LEMMA AllocOutcomesSound ==
  ASSUME NEW total \in Nat, NEW bs, WellFormed(bs, total), TypeOK,
         NEW size \in Nat, NEW out \in AllocOutcomes(bs, size)
  PROVE  /\ WellFormed(out.blocks, total)
         /\ out.ptr \in Nat \cup {NULL}
         /\ out.heap \in Answers
<1>1. \/ out = Outcome(bs, memPoolStart, "granted")
      \/ out = Outcome(bs, NULL, "granted")
      \/ out = Outcome(bs, NULL, "refused")
      \/ /\ size # 0
         /\ \E i \in FirstFit(bs, size) :
               out = Outcome(Carve(bs, i, size), bs[i].startAdress, "granted")
  BY Zenon DEF AllocOutcomes
<1>2. CASE out = Outcome(bs, memPoolStart, "granted")
  <2>1. out.blocks = bs /\ out.ptr = memPoolStart /\ out.heap = "granted"
    BY <1>2, OutcomeFields
  <2> QED  BY <2>1 DEF TypeOK, Answers
<1>3. CASE out = Outcome(bs, NULL, "granted")
  <2>1. out.blocks = bs /\ out.ptr = NULL /\ out.heap = "granted"
    BY <1>3, OutcomeFields
  <2> QED  BY <2>1 DEF Answers
<1>4. CASE out = Outcome(bs, NULL, "refused")
  <2>1. out.blocks = bs /\ out.ptr = NULL /\ out.heap = "refused"
    BY <1>4, OutcomeFields
  <2> QED  BY <2>1 DEF Answers
<1>5. ASSUME size # 0, NEW i \in FirstFit(bs, size),
             out = Outcome(Carve(bs, i, size), bs[i].startAdress, "granted")
      PROVE  /\ WellFormed(out.blocks, total)
             /\ out.ptr \in Nat \cup {NULL}
             /\ out.heap \in Answers
  <2>1. /\ out.blocks = Carve(bs, i, size) /\ out.ptr = bs[i].startAdress
        /\ out.heap = "granted"
    BY <1>5, OutcomeFields
  <2>2. WellFormed(Carve(bs, i, size), total)
    <3>1. total \in Nat /\ WellFormed(bs, total) /\ size \in Nat \ {0} /\ i \in FirstFit(bs, size)
      BY <1>5
    <3> QED  BY ONLY <3>1, CarveWellFormed
  <2>3. i \in DOMAIN bs /\ bs \in Seq(BlockType)
    BY DEF FirstFit, WellFormed, Layout
  <2>4. bs[i].startAdress \in Nat
    BY <2>3, BlocksTyped
  <2> QED  BY <2>1, <2>2, <2>4 DEF Answers
<1> QED  BY <1>1, <1>2, <1>3, <1>4, <1>5

(* Without blocks it changes nothing. *)
LEMMA AllocOutcomesEmpty ==
  ASSUME TypeOK, NEW size \in Nat, NEW out \in AllocOutcomes(<<>>, size)
  PROVE  /\ out.blocks = <<>>
         /\ out.ptr \in Nat \cup {NULL}
         /\ out.heap \in Answers
<1>1. FirstFit(<<>>, size) = {}
  BY DEF FirstFit
<1>2. out = Outcome(<<>>, memPoolStart, "granted") \/ out = Outcome(<<>>, NULL, "granted")
  BY <1>1, Zenon DEF AllocOutcomes
<1>3. CASE out = Outcome(<<>>, memPoolStart, "granted")
  <2>1. out.blocks = <<>> /\ out.ptr = memPoolStart /\ out.heap = "granted"
    BY <1>3, OutcomeFields
  <2> QED  BY <2>1 DEF TypeOK, Answers
<1>4. CASE out = Outcome(<<>>, NULL, "granted")
  <2>1. out.blocks = <<>> /\ out.ptr = NULL /\ out.heap = "granted"
    BY <1>4, OutcomeFields
  <2> QED  BY <2>1 DEF Answers
<1> QED  BY <1>2, <1>3, <1>4

LEMMA CallTyped ==
  ASSUME NEW op \in Ops, NEW p \in Nat \cup {NULL}, NEW size \in Nat,
         NEW ret \in Nat \cup {NULL}, NEW moved \in Nat, NEW heap \in Answers,
         Did(op, p, size, ret, moved, heap)
  PROVE  call' \in CallType
BY DEF Did, CallType

(* What ArraySound asks of a next state, from its parts. *)
LEMMA KeepsPool ==
  ASSUME IInv, UNCHANGED <<memPoolStart, memPoolSize, lock>>,
         call' \in CallType, crashed' \in BOOLEAN,
         \/ memoryBlocks = <<>> /\ memoryBlocks' = <<>>
         \/ memPoolStart # NULL /\ WellFormed(memoryBlocks', memPoolSize),
         crashed => crashed'
  PROVE  IInv'
<1>1. memoryBlocks' \in Seq(BlockType)
  BY EmptySeq DEF WellFormed, Layout
<1>2. TypeOK'
  BY <1>1 DEF IInv, TypeOK
<1>3. ArraySound'
  BY DEF IInv, ArraySound
<1>4. LockMatchesPool'
  BY DEF IInv, LockMatchesPool
<1> QED  BY <1>2, <1>3, <1>4 DEF IInv

-----------------------------------------------------------------------------
(* One lemma for each call. *)

LEMMA InitSound == Init => IInv
<1> SUFFICES ASSUME Init PROVE IInv
  OBVIOUS
<1>1. TypeOK
  BY EmptySeq DEF Init, TypeOK, LockStates, CallType, Ops, Answers
<1>2. ArraySound /\ LockMatchesPool
  BY DEF Init, ArraySound, LockMatchesPool
<1> QED  BY <1>1, <1>2 DEF IInv

LEMMA mem_init_Sound ==
  ASSUME IInv, ~crashed, NEW size \in PoolSizes, mem_init(size)
  PROVE  IInv'
<1>1. size \in Nat
  BY ArgumentAssumption
<1>2. call' \in CallType
  BY <1>1, CallTyped DEF mem_init, Ops, Answers
<1>3. lock' \in LockStates /\ memPoolStart' \in {0, NULL} /\ crashed' \in BOOLEAN
  BY DEF mem_init, IInv, TypeOK, LockStates
<1>4. memPoolSize' = size
  BY DEF mem_init
<1>5. CASE /\ memPoolStart' = 0 /\ crashed' = FALSE /\ lock' = "initialised"
           /\ memoryBlocks' = <<Block(0, size, FALSE)>>
  <2>1. WellFormed(memoryBlocks', size)
    BY <1>1, <1>5, FreshPool
  <2>2. memoryBlocks' \in Seq(BlockType)
    BY <2>1 DEF WellFormed, Layout
  <2>3. 0 # NULL
    BY NullAssumption
  <2>4. TypeOK'
    BY <1>1, <1>2, <1>3, <1>4, <2>2 DEF TypeOK
  <2>5. ArraySound' /\ LockMatchesPool'
    BY <1>4, <1>5, <2>1, <2>3 DEF ArraySound, LockMatchesPool
  <2> QED  BY <2>4, <2>5 DEF IInv
<1>6. CASE memPoolStart' = NULL /\ memoryBlocks' = <<>> /\ lock' # "initialised"
  <2>1. TypeOK'
    BY <1>1, <1>2, <1>3, <1>4, <1>6, EmptySeq DEF TypeOK
  <2>2. ArraySound' /\ LockMatchesPool'
    BY <1>6 DEF ArraySound, LockMatchesPool
  <2> QED  BY <2>1, <2>2 DEF IInv
<1>7. CASE crashed' = TRUE /\ memoryBlocks' = <<>>
  <2>1. TypeOK'
    BY <1>1, <1>2, <1>3, <1>4, <1>7, EmptySeq DEF TypeOK
  <2>2. ArraySound' /\ LockMatchesPool'
    BY <1>7 DEF ArraySound, LockMatchesPool
  <2> QED  BY <2>1, <2>2 DEF IInv
<1>8. \/ /\ memPoolStart' = 0 /\ crashed' = FALSE /\ lock' = "initialised"
         /\ memoryBlocks' = <<Block(0, size, FALSE)>>
      \/ /\ memPoolStart' = NULL /\ memoryBlocks' = <<>> /\ crashed' = FALSE
         /\ lock' = IF memPoolStart = NULL THEN lock ELSE "destroyed"
      \/ crashed' = TRUE /\ memoryBlocks' = <<>>
  BY DEF mem_init
<1>9. (IF memPoolStart = NULL THEN lock ELSE "destroyed") # "initialised"
  BY DEF IInv, LockMatchesPool
<1> QED  BY <1>5, <1>6, <1>7, <1>8, <1>9

LEMMA mem_deinit_Sound ==
  ASSUME IInv, mem_deinit
  PROVE  IInv'
<1>1. call' \in CallType
  BY CallTyped DEF mem_deinit, Ops, Answers
<1>2. CASE memPoolStart = NULL
  <2>1. UNCHANGED <<memPoolStart, memPoolSize, memoryBlocks, lock, crashed>>
    BY <1>2 DEF mem_deinit
  <2>2. memoryBlocks = <<>>
    BY <1>2 DEF IInv, ArraySound
  <2> QED  BY <1>1, <2>1, <2>2, KeepsPool DEF IInv, TypeOK
<1>3. CASE memPoolStart # NULL
  <2>1. /\ memPoolStart' = NULL /\ memPoolSize' = 0 /\ memoryBlocks' = <<>>
        /\ lock' = "destroyed" /\ crashed' = crashed
    BY <1>3 DEF mem_deinit
  <2>2. TypeOK'
    BY <1>1, <2>1, EmptySeq DEF IInv, TypeOK, LockStates
  <2>3. ArraySound' /\ LockMatchesPool'
    BY <2>1 DEF ArraySound, LockMatchesPool
  <2> QED  BY <2>2, <2>3 DEF IInv
<1> QED  BY <1>2, <1>3

LEMMA mem_alloc_Sound ==
  ASSUME IInv, NEW size \in Sizes, mem_alloc(size)
  PROVE  IInv'
<1>1. size \in Nat /\ TypeOK /\ memPoolSize \in Nat
  BY ArgumentAssumption DEF IInv, TypeOK
<1>2. PICK out \in AllocOutcomes(memoryBlocks, size) :
           memoryBlocks' = out.blocks /\ Did("mem_alloc", NULL, size, out.ptr, 0, out.heap)
  BY DEF mem_alloc
<1>3. UNCHANGED <<memPoolStart, memPoolSize, lock, crashed>>
  BY DEF mem_alloc
<1>4. /\ out.ptr \in Nat \cup {NULL} /\ out.heap \in Answers
      /\ \/ memoryBlocks = <<>> /\ out.blocks = <<>>
         \/ memPoolStart # NULL /\ WellFormed(out.blocks, memPoolSize)
  <2>1. CASE memoryBlocks = <<>>
    BY <1>1, <2>1, AllocOutcomesEmpty
  <2>2. CASE memPoolStart # NULL /\ WellFormed(memoryBlocks, memPoolSize)
    BY <1>1, <2>2, AllocOutcomesSound
  <2> QED  BY <2>1, <2>2 DEF IInv, ArraySound
<1>5. call' \in CallType
  BY <1>1, <1>2, <1>4, CallTyped DEF Ops
<1> QED  BY <1>2, <1>3, <1>4, <1>5, KeepsPool DEF IInv, TypeOK

(* mem_free of an empty array. *)
LEMMA AfterFreeEmpty ==
  ASSUME NEW p
  PROVE  AfterFree(<<>>, p) = <<>>
<1>1. FirstAt(<<>>, p) = {}
  BY DEF FirstAt
<1> QED  BY <1>1 DEF AfterFree

LEMMA mem_free_Sound ==
  ASSUME IInv, NEW p \in Addrs \cup {NULL}, mem_free(p)
  PROVE  IInv'
<1>1. p \in Nat \cup {NULL} /\ memPoolSize \in Nat
  BY ArgumentAssumption DEF IInv, TypeOK
<1>2. /\ memoryBlocks' = AfterFree(memoryBlocks, p)
      /\ UNCHANGED <<memPoolStart, memPoolSize, lock, crashed>>
  BY DEF mem_free
<1>3. call' \in CallType
  BY <1>1, CallTyped DEF mem_free, Ops, Answers
<1>4. \/ memoryBlocks = <<>> /\ memoryBlocks' = <<>>
      \/ memPoolStart # NULL /\ WellFormed(memoryBlocks', memPoolSize)
  BY <1>1, <1>2, AfterFreeEmpty, AfterFreeWellFormed DEF IInv, ArraySound
<1> QED  BY <1>2, <1>3, <1>4, KeepsPool DEF IInv, TypeOK

LEMMA mem_resize_Sound ==
  ASSUME IInv, ~crashed, NEW p \in Addrs \cup {NULL}, NEW size \in Sizes, mem_resize(p, size)
  PROVE  IInv'
<1>1. p \in Nat \cup {NULL} /\ size \in Nat /\ memPoolSize \in Nat /\ TypeOK
  BY ArgumentAssumption DEF IInv, TypeOK
<1>2. UNCHANGED <<memPoolStart, memPoolSize, lock>>
  BY DEF mem_resize
<1>3. \/ memoryBlocks = <<>>
      \/ memPoolStart # NULL /\ WellFormed(memoryBlocks, memPoolSize)
  BY DEF IInv, ArraySound
<1>4. CASE ResizeUnknown(p, size)
  <2>1. call' \in CallType
    BY <1>1, <1>4, CallTyped DEF ResizeUnknown, Ops, Answers
  <2>2. UNCHANGED <<memoryBlocks, crashed>>
    BY <1>4 DEF ResizeUnknown
  <2> QED  BY <1>1, <1>2, <1>3, <2>1, <2>2, KeepsPool DEF TypeOK
<1>5. ASSUME NEW i \in LastAt(memoryBlocks, p),
             \/ ResizeSame(i, p, size) \/ ResizeInPlace(i, p, size)
             \/ ResizeByFreeing(i, p, size) \/ ResizeElsewhere(i, p, size)
      PROVE  IInv'
  <2>1. i \in DOMAIN memoryBlocks /\ memoryBlocks[i].startAdress = p
    BY DEF LastAt
  <2>2. memoryBlocks \in Seq(BlockType)
    BY <1>1 DEF TypeOK
  <2>3. memoryBlocks[i].size \in Nat /\ p \in Nat
    BY <2>1, <2>2, BlocksTyped
  <2>4. memPoolStart # NULL /\ WellFormed(memoryBlocks, memPoolSize)
    <3>1. memoryBlocks # <<>>
      BY <2>1
    <3> QED  BY <1>3, <3>1
  <2>5. CASE ResizeSame(i, p, size)
    <3>1. call' \in CallType
      BY <1>1, <2>5, CallTyped DEF ResizeSame, Ops, Answers
    <3>2. UNCHANGED <<memoryBlocks, crashed>>
      BY <2>5 DEF ResizeSame
    <3> QED  BY <1>1, <1>2, <2>4, <3>1, <3>2, KeepsPool DEF TypeOK
  <2>6. CASE ResizeInPlace(i, p, size)
    <3>1. call' \in CallType
      BY <1>1, <2>6, CallTyped DEF ResizeInPlace, Ops, Answers
    <3>2. WellFormed(memoryBlocks', memPoolSize)
      BY <1>1, <2>1, <2>4, <2>6, GrowRightWellFormed DEF ResizeInPlace, Grows
    <3>3. UNCHANGED crashed
      BY <2>6 DEF ResizeInPlace
    <3> QED  BY <1>1, <1>2, <2>4, <3>1, <3>2, <3>3, KeepsPool DEF TypeOK
  <2>7. CASE ResizeByFreeing(i, p, size)
    <3> DEFINE moved(out) == IF out.ptr \in {p, NULL} THEN 0
                             ELSE IF Shrinks(i, size) THEN size ELSE memoryBlocks[i].size
    <3>1. PICK out \in AllocOutcomes(AfterFree(memoryBlocks, p), size) :
             /\ memoryBlocks' = out.blocks
             /\ crashed' = (out.ptr = NULL)
             /\ Did("mem_resize", p, size, out.ptr, moved(out), out.heap)
      BY <2>7, Zenon DEF ResizeByFreeing
    <3>2. WellFormed(AfterFree(memoryBlocks, p), memPoolSize)
      BY <1>1, <2>4, AfterFreeWellFormed
    <3>3. WellFormed(out.blocks, memPoolSize) /\ out.ptr \in Nat \cup {NULL} /\ out.heap \in Answers
      BY <1>1, <3>2, AllocOutcomesSound
    <3>4. moved(out) \in Nat
      BY <1>1, <2>3
    <3> HIDE DEF moved
    <3>5. call' \in CallType
      BY <1>1, <3>1, <3>3, <3>4, CallTyped DEF Ops
    <3>6. crashed' \in BOOLEAN
      BY <3>1
    <3> QED  BY <1>2, <2>4, <3>1, <3>3, <3>5, <3>6, KeepsPool
  <2>8. CASE ResizeElsewhere(i, p, size)
    <3> DEFINE moved(out) == IF out.ptr = NULL THEN 0 ELSE memoryBlocks[i].size
    <3>1. PICK out \in AllocOutcomes(memoryBlocks, size) :
             /\ memoryBlocks' = IF out.ptr = NULL THEN out.blocks ELSE AfterFree(out.blocks, p)
             /\ Did("mem_resize", p, size, out.ptr, moved(out), out.heap)
      BY <2>8, Zenon DEF ResizeElsewhere
    <3>2. WellFormed(out.blocks, memPoolSize) /\ out.ptr \in Nat \cup {NULL} /\ out.heap \in Answers
      BY <1>1, <2>4, AllocOutcomesSound
    <3>3. WellFormed(memoryBlocks', memPoolSize)
      BY <1>1, <3>1, <3>2, AfterFreeWellFormed
    <3>4. moved(out) \in Nat
      BY <2>3
    <3> HIDE DEF moved
    <3>5. call' \in CallType
      BY <1>1, <3>1, <3>2, <3>4, CallTyped DEF Ops
    <3>6. UNCHANGED crashed
      BY <2>8 DEF ResizeElsewhere
    <3> QED  BY <1>1, <1>2, <2>4, <3>3, <3>5, <3>6, KeepsPool DEF TypeOK
  <2> QED  BY <1>5, <2>5, <2>6, <2>7, <2>8
<1> QED  BY <1>4, <1>5 DEF mem_resize

-----------------------------------------------------------------------------
(* Every reachable array is well formed: no sequence of calls, whatever     *)
(* their arguments and whatever the heap refuses, leaves the invariant.     *)
THEOREM AlwaysSound == Spec => []IInv
<1>1. Init => IInv
  BY InitSound
<1>2. IInv /\ [Next]_vars => IInv'
  <2> SUFFICES ASSUME IInv, [Next]_vars PROVE IInv'
    OBVIOUS
  <2>1. CASE Next
    <3>1. ASSUME ~crashed, NEW size \in PoolSizes, mem_init(size) PROVE IInv'
      BY <3>1, mem_init_Sound
    <3>2. CASE mem_deinit
      BY <3>2, mem_deinit_Sound
    <3>3. ASSUME NEW size \in Sizes, mem_alloc(size) PROVE IInv'
      BY <3>3, mem_alloc_Sound
    <3>4. ASSUME NEW p \in Addrs \cup {NULL}, mem_free(p) PROVE IInv'
      BY <3>4, mem_free_Sound
    <3>5. ASSUME ~crashed, NEW p \in Addrs \cup {NULL}, NEW size \in Sizes, mem_resize(p, size)
          PROVE  IInv'
      BY <3>5, mem_resize_Sound
    <3> QED  BY <2>1, <3>1, <3>2, <3>3, <3>4, <3>5 DEF Next
  <2>2. CASE UNCHANGED vars
    BY <2>2 DEF vars, IInv, TypeOK, ArraySound, LockMatchesPool
  <2> QED  BY <2>1, <2>2
<1> QED  BY <1>1, <1>2, PTL DEF Spec

(* The variables keep their types. *)
THEOREM TypesHold == Spec => []TypeOK
<1>1. IInv => TypeOK
  BY DEF IInv
<1> QED  BY <1>1, AlwaysSound, PTL

(* No byte of the pool is ever lost or handed out twice. *)
THEOREM PoolStaysTiled == Spec => []PoolTiled
<1>1. IInv => PoolTiled
  BY NullAssumption DEF IInv, ArraySound, PoolTiled, WellFormed, Layout, Tiles
<1> QED  BY <1>1, AlwaysSound, PTL

(* The header's "never two free blocks next to eachother". *)
THEOREM FreeBlocksStayJoined == Spec => []NoAdjacentFree
<1>1. IInv => NoAdjacentFree
  BY DEF IInv, ArraySound, NoAdjacentFree, WellFormed, Coalesced
<1> QED  BY <1>1, AlwaysSound, PTL

(* mem_free and mem_resize always find the same block. *)
THEOREM SearchesStayInAgreement == Spec => []SearchesAgree
<1>1. IInv => SearchesAgree
  <2> SUFFICES ASSUME IInv, NEW i \in DOMAIN memoryBlocks
               PROVE  FirstAt(memoryBlocks, memoryBlocks[i].startAdress)
                        = LastAt(memoryBlocks, memoryBlocks[i].startAdress)
    BY DEF SearchesAgree
  <2>1. WellFormed(memoryBlocks, memPoolSize) /\ memPoolSize \in Nat
    BY DEF IInv, ArraySound, TypeOK
  <2>2. \A j \in DOMAIN memoryBlocks :
           memoryBlocks[j].startAdress = memoryBlocks[i].startAdress => j = i
    BY <2>1, OneBlockPerAddress
  <2>3. i \in Nat
    BY <2>1, LenProperties DEF WellFormed, Layout
  <2>4. FirstAt(memoryBlocks, memoryBlocks[i].startAdress) = {i}
    BY <2>2, <2>3 DEF FirstAt
  <2>5. LastAt(memoryBlocks, memoryBlocks[i].startAdress) = {i}
    BY <2>2, <2>3 DEF LastAt
  <2> QED  BY <2>4, <2>5
<1> QED  BY <1>1, AlwaysSound, PTL

(* The lock is there exactly while a pool is. *)
THEOREM LockFollowsPool == Spec => []LockMatchesPool
<1>1. IInv => LockMatchesPool
  BY DEF IInv
<1> QED  BY <1>1, AlwaysSound, PTL

-----------------------------------------------------------------------------
(* The refinement of PoolAllocator.  First its operators, on the blocks of   *)
(* the array that are handed out.                                            *)

LEMMA LiveInIs ==
  ASSUME NEW total \in Nat, NEW bs, WellFormed(bs, total)
  PROVE  /\ DOMAIN LiveIn(bs) = {b.startAdress : b \in HandedOut(bs)}
         /\ \A b \in HandedOut(bs) : LiveIn(bs)[b.startAdress] = b.size
         /\ LiveIn(bs) = [a \in DOMAIN LiveIn(bs) |-> LiveIn(bs)[a]]
<1> DEFINE size_of(a) == bs[CHOOSE i \in UsedIn(bs) : bs[i].startAdress = a].size
<1>1. LiveIn(bs) = [a \in {bs[i].startAdress : i \in UsedIn(bs)} |-> size_of(a)]
  BY DEF LiveIn
<1>2. ASSUME NEW i \in UsedIn(bs) PROVE size_of(bs[i].startAdress) = bs[i].size
  <2>1. i \in DOMAIN bs
    BY DEF UsedIn
  <2>2. PICK j \in UsedIn(bs) : /\ j = CHOOSE k \in UsedIn(bs) : bs[k].startAdress = bs[i].startAdress
                                /\ bs[j].startAdress = bs[i].startAdress
    OBVIOUS
  <2>3. j \in DOMAIN bs
    BY DEF UsedIn
  <2>4. j = i
    BY <2>1, <2>2, <2>3, OneBlockPerAddress
  <2> QED  BY <2>2, <2>4
<1> HIDE DEF size_of
<1>3. {bs[i].startAdress : i \in UsedIn(bs)} = {b.startAdress : b \in HandedOut(bs)}
  BY DEF UsedIn, HandedOut
<1>4. ASSUME NEW b \in HandedOut(bs) PROVE LiveIn(bs)[b.startAdress] = b.size
  <2>1. PICK i \in UsedIn(bs) : b = bs[i]
    BY DEF UsedIn, HandedOut
  <2> QED  BY <1>1, <1>2, <2>1
<1> QED  BY <1>1, <1>3, <1>4

(* It is determined by the blocks that are handed out. *)
LEMMA LiveDetermined ==
  ASSUME NEW total \in Nat, NEW bs, WellFormed(bs, total), NEW f,
         f = [a \in DOMAIN f |-> f[a]],
         DOMAIN f = {b.startAdress : b \in HandedOut(bs)},
         \A b \in HandedOut(bs) : f[b.startAdress] = b.size
  PROVE  LiveIn(bs) = f
<1>1. /\ DOMAIN LiveIn(bs) = DOMAIN f
      /\ LiveIn(bs) = [a \in DOMAIN f |-> LiveIn(bs)[a]]
      /\ \A b \in HandedOut(bs) : LiveIn(bs)[b.startAdress] = b.size
  BY LiveInIs
<1>2. ASSUME NEW a \in DOMAIN f PROVE LiveIn(bs)[a] = f[a]
  BY <1>1
<1> QED  BY <1>1, <1>2

NoneLive == [a \in {} |-> 0]

LEMMA NothingLive ==
  LiveIn(<<>>) = NoneLive /\ \A size \in Nat : LiveIn(<<Block(0, size, FALSE)>>) = NoneLive
<1>1. UsedIn(<<>>) = {}
  BY DEF UsedIn
<1>2. ASSUME NEW size \in Nat PROVE UsedIn(<<Block(0, size, FALSE)>>) = {}
  <2> DEFINE b == Block(0, size, FALSE)
  <2>1. b.isUsed = FALSE
    BY BlockFields
  <2> HIDE DEF b
  <2>2. DOMAIN <<b>> = {1} /\ <<b>>[1] = b
    OBVIOUS
  <2>3. UsedIn(<<b>>) = {}
    BY <2>1, <2>2 DEF UsedIn
  <2> QED  BY <2>3 DEF b
<1>3. ASSUME NEW bs, UsedIn(bs) = {} PROVE LiveIn(bs) = NoneLive
  BY <1>3 DEF LiveIn, NoneLive
<1> QED  BY <1>1, <1>2, <1>3

LEMMA IntervalsApart ==
  ASSUME NEW a \in Nat, NEW m \in Nat \ {0}, NEW b \in Nat, NEW l \in Nat \ {0}
  PROVE  Caller!Bytes(a, m) \cap Caller!Bytes(b, l) = {} <=> a + m <= b \/ b + l <= a
<1>1. CASE a <= b
  <2>1. b \in Caller!Bytes(a, m) \cap Caller!Bytes(b, l) \/ a + m <= b
    BY <1>1 DEF Caller!Bytes
  <2> QED  BY <1>1, <2>1 DEF Caller!Bytes
<1>2. CASE b < a
  <2>1. a \in Caller!Bytes(a, m) \cap Caller!Bytes(b, l) \/ b + l <= a
    BY <1>2 DEF Caller!Bytes
  <2> QED  BY <1>2, <2>1 DEF Caller!Bytes
<1> QED  BY <1>1, <1>2

(* A pool is open, and "bs" is laid out in it: the array, or what a call has *)
(* made of it half way.                                                      *)
LaidOut(bs) ==
  /\ memPoolStart = 0 /\ memPoolStart # NULL
  /\ memPoolSize \in Nat /\ memPoolSize # NULL
  /\ WellFormed(bs, memPoolSize)

LEMMA PlacesAreVacant ==
  ASSUME NEW bs, LaidOut(bs), NEW size \in Nat \ {0}
  PROVE  Caller!Places(LiveIn(bs), size) = {a \in Nat : Vacant(bs, memPoolSize, a, size)}
<1> DEFINE total == memPoolSize
           live == LiveIn(bs)
<1>1. /\ WellFormed(bs, total) /\ total \in Nat
      /\ (IF memPoolStart = NULL THEN NULL ELSE memPoolSize) = total /\ total # NULL
  BY DEF LaidOut
<1>2. /\ DOMAIN live = {b.startAdress : b \in HandedOut(bs)}
      /\ \A b \in HandedOut(bs) : live[b.startAdress] = b.size
  BY <1>1, LiveInIs
<1> HIDE DEF live
<1>3. Caller!Places(live, size) = {a \in 0 .. total : Caller!FitsAt(live, a, size)}
  BY <1>1 DEF Caller!Places
<1>4. ASSUME NEW a \in Nat, a + size <= total
      PROVE  Caller!FitsAt(live, a, size) <=> Vacant(bs, total, a, size)
  <2>1. ASSUME NEW b \in HandedOut(bs)
        PROVE  /\ b.startAdress \in Nat /\ b.size \in Nat \ {0}
               /\ Caller!Bytes(a, size) \cap Caller!Bytes(b.startAdress, live[b.startAdress]) = {}
                     <=> Apart(a, size, b)
    <3>1. PICK i \in DOMAIN bs : b = bs[i]
      BY DEF HandedOut
    <3> PICK n : n = Len(bs)
      OBVIOUS
    <3>2. /\ DOMAIN bs = 1 .. n /\ n \in Nat \ {0} /\ bs[1].startAdress = 0
          /\ bs[n].startAdress + bs[n].size = total
          /\ \A j \in 1 .. n : bs[j].startAdress \in Nat /\ bs[j].size \in Nat
                               /\ (bs[j].size > 0 \/ n = 1)
      <4>1. WellFormed(bs, total) /\ total \in Nat /\ n = Len(bs)
        BY <1>1
      <4> HIDE DEF total
      <4>2. InRow(bs, total, n)
        BY ONLY <4>1, InARow
      <4> QED  BY ONLY <4>2 DEF InRow
    <3>3. b.startAdress \in Nat /\ b.size \in Nat
      BY <3>1, <3>2
    <3>4. b.size > 0
      <4>1. CASE n = 1
        <5>1. i = 1 /\ 0 + bs[1].size = total
          BY <3>1, <3>2, <4>1
        <5> QED  BY <1>1, <1>4, <3>1, <3>3, <5>1
      <4> QED  BY <3>1, <3>2, <4>1
    <3>5. live[b.startAdress] = b.size
      BY <1>2
    <3> QED  BY <3>3, <3>4, <3>5, IntervalsApart DEF Apart
  <2>2. Caller!FitsAt(live, a, size) <=>
          \A b \in HandedOut(bs) :
             Caller!Bytes(a, size) \cap Caller!Bytes(b.startAdress, live[b.startAdress]) = {}
    BY <1>1, <1>2, <1>4 DEF Caller!FitsAt
  <2> QED  BY <1>4, <2>1, <2>2 DEF Vacant
<1>5. ASSUME NEW a \in Nat, ~(a + size <= total)
      PROVE  ~Caller!FitsAt(live, a, size) /\ ~Vacant(bs, total, a, size)
  BY <1>1, <1>5 DEF Caller!FitsAt, Vacant
<1>6. \A a \in Nat : Vacant(bs, total, a, size) => a \in 0 .. total
  BY <1>1 DEF Vacant
<1>7. 0 .. total \subseteq Nat
  BY <1>1
<1>8. \A a \in Nat : Caller!FitsAt(live, a, size) <=> Vacant(bs, total, a, size)
  BY <1>4, <1>5
<1>9. {a \in 0 .. total : Caller!FitsAt(live, a, size)} = {a \in Nat : Vacant(bs, total, a, size)}
  BY <1>6, <1>7, <1>8
<1> QED  BY <1>3, <1>9 DEF live

(* mem_alloc's search and the lowest place the caller may expect. *)
LEMMA FirstFitIsLowestPlace ==
  ASSUME NEW bs, LaidOut(bs), NEW size \in Nat \ {0}
  PROVE  /\ \A i \in FirstFit(bs, size) : bs[i].startAdress \in Caller!LowestPlace(LiveIn(bs), size)
         /\ FirstFit(bs, size) = {} <=> Caller!Places(LiveIn(bs), size) = {}
<1>1. Caller!Places(LiveIn(bs), size) = {a \in Nat : Vacant(bs, memPoolSize, a, size)}
  BY PlacesAreVacant
<1>2. memPoolSize \in Nat /\ WellFormed(bs, memPoolSize)
  BY DEF LaidOut
<1>3. /\ \A i \in FirstFit(bs, size) :
            /\ bs[i].startAdress \in Nat
            /\ Vacant(bs, memPoolSize, bs[i].startAdress, size)
            /\ \A a \in Nat : Vacant(bs, memPoolSize, a, size) => bs[i].startAdress <= a
      /\ FirstFit(bs, size) = {} => \A a \in Nat : ~Vacant(bs, memPoolSize, a, size)
  BY <1>2, FirstFitIsLowest
<1> QED  BY <1>1, <1>3 DEF Caller!LowestPlace

(* The updates of the array are updates of "live". *)
LEMMA LiveAfterFree ==
  ASSUME NEW bs, LaidOut(bs), NEW p
  PROVE  LiveIn(AfterFree(bs, p)) = Caller!Without(LiveIn(bs), p)
<1>1. memPoolSize \in Nat /\ WellFormed(bs, memPoolSize)
  BY DEF LaidOut
<1>2. WellFormed(AfterFree(bs, p), memPoolSize)
  BY <1>1, AfterFreeWellFormed
<1>3. HandedOut(AfterFree(bs, p)) = {b \in HandedOut(bs) : b.startAdress # p}
  BY <1>1, AfterFreeUsed
<1> PICK f : f = Caller!Without(LiveIn(bs), p)
  OBVIOUS
<1>4. /\ DOMAIN LiveIn(bs) = {b.startAdress : b \in HandedOut(bs)}
      /\ \A b \in HandedOut(bs) : LiveIn(bs)[b.startAdress] = b.size
  BY <1>1, LiveInIs
<1>5. /\ f = [a \in DOMAIN f |-> f[a]]
      /\ DOMAIN f = DOMAIN LiveIn(bs) \ {p}
      /\ \A a \in DOMAIN f : f[a] = LiveIn(bs)[a]
  BY DEF Caller!Without
<1>6. DOMAIN f = {b.startAdress : b \in HandedOut(AfterFree(bs, p))}
  BY <1>3, <1>4, <1>5
<1>7. \A b \in HandedOut(AfterFree(bs, p)) : f[b.startAdress] = b.size
  BY <1>3, <1>4, <1>5
<1> QED  BY <1>1, <1>2, <1>5, <1>6, <1>7, LiveDetermined

LEMMA LiveAfterCarve ==
  ASSUME NEW bs, LaidOut(bs), NEW size \in Nat \ {0}, NEW i \in FirstFit(bs, size)
  PROVE  LiveIn(Carve(bs, i, size)) = Caller!With(LiveIn(bs), bs[i].startAdress, size)
<1>1. memPoolSize \in Nat /\ WellFormed(bs, memPoolSize) /\ bs \in Seq(BlockType)
  BY DEF LaidOut, WellFormed, Layout
<1>2. WellFormed(Carve(bs, i, size), memPoolSize)
  BY <1>1, CarveWellFormed
<1> PICK p : p = bs[i].startAdress
  OBVIOUS
<1>3. HandedOut(Carve(bs, i, size)) = HandedOut(bs) \cup {Block(p, size, TRUE)}
  BY <1>1, CarveUsed
<1> PICK f : f = Caller!With(LiveIn(bs), p, size)
  OBVIOUS
<1>4. /\ DOMAIN LiveIn(bs) = {b.startAdress : b \in HandedOut(bs)}
      /\ \A b \in HandedOut(bs) : LiveIn(bs)[b.startAdress] = b.size
  BY <1>1, LiveInIs
<1>5. /\ f = [a \in DOMAIN f |-> f[a]]
      /\ DOMAIN f = DOMAIN LiveIn(bs) \cup {p}
      /\ f[p] = size
      /\ \A a \in DOMAIN LiveIn(bs) : a # p => f[a] = LiveIn(bs)[a]
  BY DEF Caller!With
<1>6. ASSUME NEW b \in HandedOut(bs) PROVE b.startAdress # p
  <2>1. PICK j \in DOMAIN bs : b = bs[j] /\ bs[j].isUsed
    BY DEF HandedOut
  <2>2. i \in DOMAIN bs /\ ~bs[i].isUsed
    BY DEF FirstFit, Fits
  <2> QED  BY <1>1, <2>1, <2>2, OneBlockPerAddress
<1>7. Block(p, size, TRUE).startAdress = p /\ Block(p, size, TRUE).size = size
  BY DEF Block
<1>8. DOMAIN f = {b.startAdress : b \in HandedOut(Carve(bs, i, size))}
  <2>1. DOMAIN f = {b.startAdress : b \in HandedOut(bs)} \cup {p}
    BY <1>4, <1>5
  <2> QED  BY <1>3, <1>7, <2>1
<1>9. ASSUME NEW b \in HandedOut(Carve(bs, i, size)) PROVE f[b.startAdress] = b.size
  <2>1. CASE b \in HandedOut(bs)
    <3>1. b.startAdress \in DOMAIN LiveIn(bs) /\ b.startAdress # p
      BY <1>4, <1>6, <2>1
    <3> QED  BY <1>4, <1>5, <2>1, <3>1
  <2>2. CASE b = Block(p, size, TRUE)
    BY <1>5, <1>7, <2>2
  <2> QED  BY <1>3, <2>1, <2>2
<1> QED  BY <1>1, <1>2, <1>5, <1>8, <1>9, LiveDetermined

LEMMA LiveAfterGrowRight ==
  ASSUME NEW bs, LaidOut(bs), NEW size \in Nat, NEW i \in DOMAIN bs,
         bs[i].isUsed, bs[i].size < size, CanGrowRight(bs, i, size)
  PROVE  LiveIn(GrowRight(bs, i, size)) = Caller!With(LiveIn(bs), bs[i].startAdress, size)
<1>1. memPoolSize \in Nat /\ WellFormed(bs, memPoolSize) /\ bs \in Seq(BlockType)
  BY DEF LaidOut, WellFormed, Layout
<1>2. WellFormed(GrowRight(bs, i, size), memPoolSize)
  BY <1>1, GrowRightWellFormed
<1> PICK p : p = bs[i].startAdress
  OBVIOUS
<1>3. HandedOut(GrowRight(bs, i, size)) = (HandedOut(bs) \ {bs[i]}) \cup {Block(p, size, TRUE)}
  BY <1>1, GrowRightUsed
<1> PICK f : f = Caller!With(LiveIn(bs), p, size)
  OBVIOUS
<1>4. /\ DOMAIN LiveIn(bs) = {b.startAdress : b \in HandedOut(bs)}
      /\ \A b \in HandedOut(bs) : LiveIn(bs)[b.startAdress] = b.size
  BY <1>1, LiveInIs
<1>5. /\ f = [a \in DOMAIN f |-> f[a]]
      /\ DOMAIN f = DOMAIN LiveIn(bs) \cup {p}
      /\ f[p] = size
      /\ \A a \in DOMAIN LiveIn(bs) : a # p => f[a] = LiveIn(bs)[a]
  BY DEF Caller!With
<1>6. bs[i] \in HandedOut(bs)
  BY HandedOutPositions
<1>7. ASSUME NEW b \in HandedOut(bs) \ {bs[i]} PROVE b.startAdress # p
  BY <1>1, <1>6, UsedBlocksApart
<1>8. Block(p, size, TRUE).startAdress = p /\ Block(p, size, TRUE).size = size
  BY DEF Block
<1>9. DOMAIN f = {b.startAdress : b \in HandedOut(GrowRight(bs, i, size))}
  <2>1. DOMAIN f = {b.startAdress : b \in HandedOut(bs) \ {bs[i]}} \cup {p}
    BY <1>4, <1>5, <1>6
  <2> QED  BY <1>3, <1>8, <2>1
<1>10. ASSUME NEW b \in HandedOut(GrowRight(bs, i, size)) PROVE f[b.startAdress] = b.size
  <2>1. CASE b \in HandedOut(bs) \ {bs[i]}
    <3>1. b.startAdress \in DOMAIN LiveIn(bs) /\ b.startAdress # p
      BY <1>4, <1>7, <2>1
    <3> QED  BY <1>4, <1>5, <2>1, <3>1
  <2>2. CASE b = Block(p, size, TRUE)
    BY <1>5, <1>8, <2>2
  <2> QED  BY <1>3, <2>1, <2>2
<1> QED  BY <1>1, <1>2, <1>5, <1>9, <1>10, LiveDetermined

LEMMA LaidOutAfterFree ==
  ASSUME NEW bs, LaidOut(bs), NEW p
  PROVE  LaidOut(AfterFree(bs, p))
BY AfterFreeWellFormed DEF LaidOut

LEMMA WithoutWith ==
  ASSUME NEW f, NEW a, NEW p, a # p, NEW size
  PROVE  Caller!Without(Caller!With(f, a, size), p) = Caller!With(Caller!Without(f, p), a, size)
<1>1. (DOMAIN f \cup {a}) \ {p} = (DOMAIN f \ {p}) \cup {a}
  OBVIOUS
<1> QED  BY <1>1 DEF Caller!With, Caller!Without

LEMMA WithoutNothing ==
  ASSUME NEW bs, LaidOut(bs), NEW p, p \notin DOMAIN LiveIn(bs)
  PROVE  Caller!Without(LiveIn(bs), p) = LiveIn(bs)
<1>1. LiveIn(bs) = [a \in DOMAIN LiveIn(bs) |-> LiveIn(bs)[a]]
  BY LiveInIs DEF LaidOut
<1>2. DOMAIN LiveIn(bs) \ {p} = DOMAIN LiveIn(bs)
  OBVIOUS
<1> QED  BY <1>1, <1>2 DEF Caller!Without

LEMMA LiveAt ==
  ASSUME NEW bs, LaidOut(bs), NEW i \in DOMAIN bs
  PROVE  /\ bs[i].startAdress \in DOMAIN LiveIn(bs) <=> bs[i].isUsed
         /\ bs[i].isUsed => LiveIn(bs)[bs[i].startAdress] = bs[i].size
         /\ bs[i].isUsed \in BOOLEAN
<1>1. WellFormed(bs, memPoolSize) /\ memPoolSize \in Nat /\ bs \in Seq(BlockType)
  BY DEF LaidOut, WellFormed, Layout
<1>2. /\ DOMAIN LiveIn(bs) = {b.startAdress : b \in HandedOut(bs)}
      /\ \A b \in HandedOut(bs) : LiveIn(bs)[b.startAdress] = b.size
  BY <1>1, LiveInIs
<1>3. bs[i].isUsed => bs[i] \in HandedOut(bs)
  BY HandedOutPositions
<1>4. ASSUME bs[i].startAdress \in DOMAIN LiveIn(bs) PROVE bs[i].isUsed
  <2>1. PICK j \in DOMAIN bs : bs[j].isUsed /\ bs[j].startAdress = bs[i].startAdress
    BY <1>2, <1>4 DEF HandedOut
  <2> QED  BY <1>1, <2>1, OneBlockPerAddress
<1>5. bs[i].isUsed \in BOOLEAN
  BY <1>1, BlocksTyped
<1> QED  BY <1>2, <1>3, <1>4, <1>5

(* What mem_alloc leaves behind, seen by the caller. *)
LEMMA AllocRefines ==
  ASSUME NEW bs, LaidOut(bs), NEW size \in Nat \ {0}, NEW out \in AllocOutcomes(bs, size)
  PROVE  \/ /\ out.ptr \in Caller!LowestPlace(LiveIn(bs), size) /\ out.heap = "granted"
            /\ LaidOut(out.blocks)
            /\ LiveIn(out.blocks) = Caller!With(LiveIn(bs), out.ptr, size)
            /\ out.ptr # NULL
            /\ \E i \in DOMAIN bs : bs[i].startAdress = out.ptr /\ Fits(bs, i, size)
         \/ /\ Caller!Places(LiveIn(bs), size) = {}
            /\ out.blocks = bs /\ out.ptr = NULL /\ out.heap = "granted"
         \/ /\ Caller!Places(LiveIn(bs), size) # {}
            /\ out.blocks = bs /\ out.ptr = NULL /\ out.heap = "refused"
<1>1. /\ \A i \in FirstFit(bs, size) : bs[i].startAdress \in Caller!LowestPlace(LiveIn(bs), size)
      /\ FirstFit(bs, size) = {} <=> Caller!Places(LiveIn(bs), size) = {}
  BY FirstFitIsLowestPlace
<1>2. size # 0
  OBVIOUS
<1>3. \/ FirstFit(bs, size) = {} /\ out = Outcome(bs, NULL, "granted")
      \/ FirstFit(bs, size) # {} /\ out = Outcome(bs, NULL, "refused")
      \/ \E i \in FirstFit(bs, size) :
            out = Outcome(Carve(bs, i, size), bs[i].startAdress, "granted")
  BY <1>2, Zenon DEF AllocOutcomes
<1>4. CASE FirstFit(bs, size) = {} /\ out = Outcome(bs, NULL, "granted")
  BY <1>1, <1>4, OutcomeFields
<1>5. CASE FirstFit(bs, size) # {} /\ out = Outcome(bs, NULL, "refused")
  BY <1>1, <1>5, OutcomeFields
<1>6. ASSUME NEW i \in FirstFit(bs, size),
             out = Outcome(Carve(bs, i, size), bs[i].startAdress, "granted")
      PROVE  /\ out.ptr \in Caller!LowestPlace(LiveIn(bs), size) /\ out.heap = "granted"
             /\ LaidOut(out.blocks)
             /\ LiveIn(out.blocks) = Caller!With(LiveIn(bs), out.ptr, size)
             /\ out.ptr # NULL
             /\ \E j \in DOMAIN bs : bs[j].startAdress = out.ptr /\ Fits(bs, j, size)
  <2>1. /\ out.blocks = Carve(bs, i, size) /\ out.ptr = bs[i].startAdress /\ out.heap = "granted"
    BY <1>6, OutcomeFields
  <2>2. WellFormed(Carve(bs, i, size), memPoolSize)
    BY CarveWellFormed DEF LaidOut
  <2>3. LaidOut(out.blocks)
    BY <2>1, <2>2 DEF LaidOut
  <2>4. LiveIn(out.blocks) = Caller!With(LiveIn(bs), out.ptr, size)
    BY <2>1, LiveAfterCarve
  <2>5. i \in DOMAIN bs /\ Fits(bs, i, size)
    BY DEF FirstFit
  <2>6. bs[i].startAdress \in Nat
    BY <2>5, BlocksTyped DEF LaidOut, WellFormed, Layout
  <2>7. out.ptr # NULL
    BY <2>1, <2>6, NullAssumption
  <2> QED  BY <1>1, <2>1, <2>3, <2>4, <2>5, <2>7
<1> QED  BY <1>3, <1>4, <1>5, <1>6

(* The places there are when block i is given back. *)
LEMMA PlacesWithout ==
  ASSUME NEW bs, LaidOut(bs), NEW size \in Nat \ {0}, NEW i \in DOMAIN bs, bs[i].isUsed,
         NEW p, p = bs[i].startAdress
  PROVE  /\ \A a : a \in Caller!Places(Caller!Without(LiveIn(bs), p), size) <=>
               a \in Nat /\ a + size <= memPoolSize /\ ClearBut(bs, i, a, size)
         /\ Caller!FitsAt(Caller!Without(LiveIn(bs), p), p, size) <=>
               p + size <= memPoolSize /\ ClearBut(bs, i, p, size)
         /\ p \in Nat /\ bs[i].size \in Nat /\ bs[i].size <= memPoolSize
<1> DEFINE total == memPoolSize
           without == Caller!Without(LiveIn(bs), p)
<1>1. WellFormed(bs, total) /\ total \in Nat /\ bs \in Seq(BlockType)
  BY DEF LaidOut, WellFormed, Layout
<1>2. Caller!Places(without, size) = {a \in Nat : Vacant(AfterFree(bs, p), total, a, size)}
  <2>1. LaidOut(AfterFree(bs, p)) /\ LiveIn(AfterFree(bs, p)) = without
    BY LaidOutAfterFree, LiveAfterFree
  <2>2. Caller!Places(LiveIn(AfterFree(bs, p)), size) =
          {a \in Nat : Vacant(AfterFree(bs, p), memPoolSize, a, size)}
    BY <2>1, PlacesAreVacant
  <2> QED  BY <2>1, <2>2
<1>3. HandedOut(AfterFree(bs, p)) = {b \in HandedOut(bs) : b.startAdress # p}
  BY <1>1, AfterFreeUsed
<1>4. ASSUME NEW a \in Nat
      PROVE  Vacant(AfterFree(bs, p), total, a, size) <=> a + size <= total /\ ClearBut(bs, i, a, size)
  <2>1. ASSUME ClearBut(bs, i, a, size), NEW b \in HandedOut(AfterFree(bs, p))
        PROVE  Apart(a, size, b)
    <3>1. b.startAdress # p
      BY <1>3
    <3>2. PICK j \in DOMAIN bs : b = bs[j] /\ bs[j].isUsed
      BY <1>3 DEF HandedOut
    <3> QED  BY <2>1, <3>1, <3>2 DEF ClearBut
  <2>2. ASSUME \A b \in HandedOut(AfterFree(bs, p)) : Apart(a, size, b),
               NEW j \in DOMAIN bs, bs[j].isUsed, j # i
        PROVE  Apart(a, size, bs[j])
    <3>1. bs[j].startAdress # p
      BY <1>1, <2>2, OneBlockPerAddress
    <3> QED  BY <1>3, <2>2, <3>1, HandedOutPositions
  <2> QED  BY <2>1, <2>2 DEF Vacant, ClearBut
<1>5. bs[i].startAdress \in Nat /\ bs[i].size \in Nat /\ bs[i].startAdress + bs[i].size <= total
  BY <1>1, BlockInPool DEF WellFormed
<1>6. p \in 0 .. total /\ p \in Nat /\ bs[i].size <= total
  BY <1>1, <1>5
<1>7. Caller!FitsAt(without, p, size) <=> p \in Caller!Places(without, size)
  <2>1. (IF memPoolStart = NULL THEN NULL ELSE memPoolSize) = total /\ total # NULL
    BY DEF LaidOut
  <2> HIDE DEF without
  <2> QED  BY <1>6, <2>1 DEF Caller!Places
<1> HIDE DEF without
<1>8. \A a : a \in Caller!Places(without, size) <=>
               a \in Nat /\ a + size <= total /\ ClearBut(bs, i, a, size)
  BY <1>2, <1>4
<1> QED  BY <1>5, <1>6, <1>7, <1>8 DEF without

(* mem_resize of a live block. *)
LEMMA ResizeLiveRefines ==
  ASSUME LaidOut(memoryBlocks), ~crashed, crashed \in BOOLEAN,
         NEW p, NEW size \in Nat, NEW i \in LastAt(memoryBlocks, p), memoryBlocks[i].isUsed,
         \/ ResizeSame(i, p, size) \/ ResizeInPlace(i, p, size)
         \/ ResizeByFreeing(i, p, size) \/ ResizeElsewhere(i, p, size)
  PROVE  Caller!ResizeLive(p, size)
<1> DEFINE bs == memoryBlocks
           live == LiveIn(bs)
           without == Caller!Without(LiveIn(bs), p)
<1>1. /\ i \in DOMAIN bs /\ bs[i].startAdress = p /\ WellFormed(bs, memPoolSize)
      /\ memPoolSize \in Nat /\ memPoolStart # NULL /\ memPoolStart = 0 /\ memPoolSize # NULL
      /\ (IF memPoolStart = NULL THEN NULL ELSE memPoolSize) = memPoolSize
  BY DEF LastAt, LaidOut
<1>2. p \in Nat /\ bs[i].size \in Nat /\ live[p] = bs[i].size /\ p + bs[i].size <= memPoolSize
  <2>1. p + bs[i].size <= memPoolSize /\ p \in Nat /\ bs[i].size \in Nat
    BY <1>1, BlockInPool DEF WellFormed
  <2> QED  BY <1>1, <2>1, LiveAt
<1>3. p # NULL
  BY <1>2, NullAssumption
<1>4. size # 0 =>
        /\ \A a : a \in Caller!Places(without, size) <=>
               a \in Nat /\ a + size <= memPoolSize /\ ClearBut(bs, i, a, size)
        /\ Caller!FitsAt(without, p, size) <=>
               p + size <= memPoolSize /\ ClearBut(bs, i, p, size)
  <2> SUFFICES ASSUME size # 0
               PROVE  /\ \A a : a \in Caller!Places(without, size) <=>
                            a \in Nat /\ a + size <= memPoolSize /\ ClearBut(bs, i, a, size)
                      /\ Caller!FitsAt(without, p, size) <=>
                            p + size <= memPoolSize /\ ClearBut(bs, i, p, size)
    OBVIOUS
  <2>1. size \in Nat \ {0} /\ LaidOut(bs) /\ p = bs[i].startAdress /\ i \in DOMAIN bs /\ bs[i].isUsed
    BY <1>1
  <2> HIDE DEF bs
  <2> QED  BY ONLY <2>1, PlacesWithout
<1>5. LaidOut(AfterFree(bs, p)) /\ LiveIn(AfterFree(bs, p)) = without
  BY LaidOutAfterFree, LiveAfterFree
<1>6. \A a : a \in Caller!LowestPlace(without, size) => a \in Caller!Places(without, size)
  BY DEF Caller!LowestPlace
<1>7. CASE ResizeSame(i, p, size)
  <2>1. size = live[p] /\ UNCHANGED <<memoryBlocks, crashed>>
        /\ Did("mem_resize", p, size, p, 0, "granted")
    BY <1>2, <1>7 DEF ResizeSame
  <2> QED  BY <2>1 DEF Caller!ResizeLive, Caller!Did, Did
<1>8. CASE ResizeInPlace(i, p, size)
  <2>1. /\ bs[i].size < size /\ CanGrowRight(bs, i, size) /\ UNCHANGED crashed
        /\ memoryBlocks' = GrowRight(bs, i, size) /\ Did("mem_resize", p, size, p, 0, "granted")
    BY <1>8 DEF ResizeInPlace, Grows
  <2>2. LiveIn(memoryBlocks') = Caller!With(live, p, size)
    BY <1>1, <2>1, LiveAfterGrowRight
  <2>3. p + size <= memPoolSize /\ ClearBut(bs, i, p, size)
    BY <1>1, <2>1, RoomToTheRight
  <2>4. Caller!GrowsInPlace(p, size)
    BY <1>2, <1>4, <2>1, <2>3 DEF Caller!GrowsInPlace
  <2> QED  BY <2>1, <2>2, <2>4 DEF Caller!ResizeLive, Caller!Did, Did
<1>9. ASSUME size # bs[i].size, size # 0,
             bs[i].size < size => ~CanGrowRight(bs, i, size),
             Caller!Relocate(p, size)
      PROVE  Caller!ResizeLive(p, size)
  <2>1. ~Caller!GrowsInPlace(p, size)
    <3> SUFFICES ASSUME bs[i].size < size, p + size <= memPoolSize, ClearBut(bs, i, p, size)
                 PROVE  FALSE
      BY <1>2, <1>4, <1>9 DEF Caller!GrowsInPlace
    <3> QED  BY <1>1, <1>9, NoRoomToTheRight
  <2>2. size \notin {0, live[p]}
    BY <1>2, <1>9
  <2> QED  BY <1>9, <2>1, <2>2 DEF Caller!ResizeLive
<1>10. CASE ResizeByFreeing(i, p, size)
  <2> DEFINE moved(out) == IF out.ptr \in {p, NULL} THEN 0
                           ELSE IF Shrinks(i, size) THEN size ELSE memoryBlocks[i].size
  <2>1. \/ bs[i].size < size /\ ~CanGrowRight(bs, i, size) /\ size <= Available(bs, i)
        \/ size < bs[i].size
    BY <1>10 DEF ResizeByFreeing, Grows, Shrinks
  <2>2. PICK out \in AllocOutcomes(AfterFree(bs, p), size) :
           /\ memoryBlocks' = out.blocks /\ crashed' = (out.ptr = NULL)
           /\ Did("mem_resize", p, size, out.ptr, moved(out), out.heap)
    BY <1>10, Zenon DEF ResizeByFreeing
  <2>3. CASE size = 0
    <3>1. out = Outcome(AfterFree(bs, p), memPoolStart, "granted")
      BY <2>3, Zenon DEF AllocOutcomes
    <3>2. out.blocks = AfterFree(bs, p) /\ out.ptr = 0 /\ out.heap = "granted"
      BY <1>1, <3>1, OutcomeFields
    <3>3. Shrinks(i, size)
      BY <1>2, <2>1, <2>3 DEF Shrinks
    <3>4. moved(out) = 0 /\ out.ptr # NULL
      BY <1>1, <2>3, <3>2, <3>3
    <3>5. crashed' = FALSE /\ crashed = FALSE
      BY <2>2, <3>4
    <3>6. LiveIn(memoryBlocks') = without
      BY <1>5, <2>2, <3>2
    <3>7. Did("mem_resize", p, size, 0, 0, "granted")
      BY <2>2, <3>2, <3>4
    <3>8. Caller!Start = 0
      BY <1>1 DEF Caller!Start
    <3> QED  BY <2>3, <3>5, <3>6, <3>7, <3>8 DEF Caller!ResizeLive, Caller!Did, Did
  <2>4. CASE size # 0
    <3>1. size \in Nat \ {0}
      BY <2>4
    <3>2. Caller!Places(without, size) # {}
      <4>1. size <= Available(bs, i)
        <5>1. bs[i].size <= Available(bs, i) /\ Available(bs, i) \in Nat
          BY <1>1, AvailableCounts
        <5> QED  BY <1>2, <2>1, <5>1
      <4>2. PICK a \in Nat : a + size <= memPoolSize /\ ClearBut(bs, i, a, size)
        BY <1>1, <4>1, AvailableIsRoom
      <4> QED  BY <1>4, <2>4, <4>2
    <3>3. \/ /\ out.ptr \in Caller!LowestPlace(without, size) /\ out.heap = "granted"
             /\ LiveIn(out.blocks) = Caller!With(without, out.ptr, size)
             /\ out.ptr # NULL
          \/ /\ out.blocks = AfterFree(bs, p) /\ out.ptr = NULL /\ out.heap = "refused"
      BY <1>5, <3>1, <3>2, AllocRefines
    <3>4. CASE /\ out.ptr \in Caller!LowestPlace(without, size) /\ out.heap = "granted"
               /\ LiveIn(out.blocks) = Caller!With(without, out.ptr, size)
               /\ out.ptr # NULL
      <4>1. crashed' = FALSE /\ crashed = FALSE
        BY <2>2, <3>4
      <4>2. moved(out) = Caller!Carried(p, size, out.ptr)
        BY <1>2, <2>1, <3>4 DEF Caller!Carried, Shrinks
      <4> HIDE DEF moved
      <4>3. Caller!Relocate(p, size)
        BY <2>2, <3>4, <4>1, <4>2 DEF Caller!Relocate, Caller!Did, Did
      <4> QED  BY <1>2, <1>9, <2>1, <2>4, <4>3
    <3>5. CASE out.blocks = AfterFree(bs, p) /\ out.ptr = NULL /\ out.heap = "refused"
      <4>1. crashed' = TRUE /\ moved(out) = 0 /\ LiveIn(memoryBlocks') = without
        BY <1>5, <2>2, <3>5
      <4> HIDE DEF moved
      <4>2. Caller!Relocate(p, size)
        BY <2>2, <3>5, <4>1 DEF Caller!Relocate, Caller!Did, Did
      <4> QED  BY <1>2, <1>9, <2>1, <2>4, <4>2
    <3> QED  BY <3>3, <3>4, <3>5
  <2> QED  BY <2>3, <2>4
<1>11. CASE ResizeElsewhere(i, p, size)
  <2> DEFINE moved(out) == IF out.ptr = NULL THEN 0 ELSE memoryBlocks[i].size
  <2>1. bs[i].size < size /\ ~CanGrowRight(bs, i, size) /\ Available(bs, i) < size /\ UNCHANGED crashed
    BY <1>11 DEF ResizeElsewhere, Grows
  <2>2. PICK out \in AllocOutcomes(bs, size) :
           /\ memoryBlocks' = IF out.ptr = NULL THEN out.blocks ELSE AfterFree(out.blocks, p)
           /\ Did("mem_resize", p, size, out.ptr, moved(out), out.heap)
    BY <1>11, Zenon DEF ResizeElsewhere
  <2>3. size \in Nat \ {0}
    BY <1>2, <2>1
  <2>4. Caller!Places(without, size) = Caller!Places(live, size)
    <3>1. Caller!Places(live, size) = {a \in Nat : Vacant(bs, memPoolSize, a, size)}
      BY <2>3, PlacesAreVacant
    <3>2. ASSUME NEW a \in Nat, a + size <= memPoolSize, ClearBut(bs, i, a, size)
          PROVE  Vacant(bs, memPoolSize, a, size)
      <4>1. Apart(a, size, bs[i])
        BY <1>1, <2>1, <3>2, FreeingOpensNoPlace
      <4>2. \A j \in DOMAIN bs : bs[j].isUsed => Apart(a, size, bs[j])
        BY <3>2, <4>1 DEF ClearBut
      <4> QED  BY <3>2, <4>2 DEF Vacant, HandedOut
    <3>3. ASSUME NEW a \in Nat, Vacant(bs, memPoolSize, a, size)
          PROVE  a + size <= memPoolSize /\ ClearBut(bs, i, a, size)
      BY <3>3, HandedOutPositions DEF Vacant, ClearBut
    <3>4. \A a : a \in Caller!Places(without, size) <=>
               a \in Nat /\ a + size <= memPoolSize /\ ClearBut(bs, i, a, size)
      BY <1>4, <2>3
    <3>5. \A a : a \in Caller!Places(live, size) <=> a \in Nat /\ Vacant(bs, memPoolSize, a, size)
      BY <3>1
    <3> HIDE DEF bs, live, without
    <3> QED  BY <3>2, <3>3, <3>4, <3>5
  <2>5. Caller!LowestPlace(without, size) = Caller!LowestPlace(live, size)
    BY <2>4 DEF Caller!LowestPlace
  <2>6. CASE /\ out.ptr \in Caller!LowestPlace(live, size) /\ out.heap = "granted"
             /\ LaidOut(out.blocks)
             /\ LiveIn(out.blocks) = Caller!With(live, out.ptr, size)
             /\ out.ptr # NULL
             /\ \E j \in DOMAIN bs : bs[j].startAdress = out.ptr /\ Fits(bs, j, size)
    <3>1. out.ptr # p
      <4>1. PICK j \in DOMAIN bs : bs[j].startAdress = out.ptr /\ ~bs[j].isUsed
        BY <2>6 DEF Fits
      <4> QED  BY <1>1, <4>1, OneBlockPerAddress
    <3>2. LiveIn(memoryBlocks') = Caller!With(without, out.ptr, size)
      <4>1. LiveIn(AfterFree(out.blocks, p)) = Caller!Without(LiveIn(out.blocks), p)
        BY <2>6, LiveAfterFree
      <4>2. Caller!Without(Caller!With(live, out.ptr, size), p) = Caller!With(without, out.ptr, size)
        BY <3>1, WithoutWith
      <4> QED  BY <2>2, <2>6, <4>1, <4>2
    <3>3. moved(out) = Caller!Carried(p, size, out.ptr)
      BY <1>2, <2>1, <2>6, <3>1 DEF Caller!Carried
    <3> HIDE DEF moved
    <3>4. Caller!Relocate(p, size)
      BY <2>1, <2>2, <2>5, <2>6, <3>2, <3>3 DEF Caller!Relocate, Caller!Did, Did
    <3> QED  BY <1>2, <1>9, <2>1, <2>3, <3>4
  <2>7. CASE /\ Caller!Places(live, size) = {}
             /\ out.blocks = bs /\ out.ptr = NULL /\ out.heap = "granted"
    <3>1. memoryBlocks' = memoryBlocks /\ moved(out) = 0 /\ Caller!Places(without, size) = {}
      BY <2>2, <2>4, <2>7
    <3> HIDE DEF moved
    <3>2. Caller!Relocate(p, size)
      BY <2>1, <2>2, <2>7, <3>1 DEF Caller!Relocate, Caller!Did, Did
    <3> QED  BY <1>2, <1>9, <2>1, <2>3, <3>2
  <2>8. CASE out.blocks = bs /\ out.ptr = NULL /\ out.heap = "refused"
    <3>1. memoryBlocks' = memoryBlocks /\ moved(out) = 0
      BY <2>2, <2>8
    <3> HIDE DEF moved
    <3>2. Caller!Relocate(p, size)
      BY <2>1, <2>2, <2>8, <3>1 DEF Caller!Relocate, Caller!Did, Did
    <3> QED  BY <1>2, <1>9, <2>1, <2>3, <3>2
  <2>9. \/ /\ out.ptr \in Caller!LowestPlace(live, size) /\ out.heap = "granted"
           /\ LaidOut(out.blocks)
           /\ LiveIn(out.blocks) = Caller!With(live, out.ptr, size)
           /\ out.ptr # NULL
           /\ \E j \in DOMAIN bs : bs[j].startAdress = out.ptr /\ Fits(bs, j, size)
        \/ /\ Caller!Places(live, size) = {}
           /\ out.blocks = bs /\ out.ptr = NULL /\ out.heap = "granted"
        \/ out.blocks = bs /\ out.ptr = NULL /\ out.heap = "refused"
    BY <2>3, AllocRefines
  <2> QED  BY <2>6, <2>7, <2>8, <2>9
<1> QED  BY <1>7, <1>8, <1>10, <1>11

(* mem_resize of an address at which no block is handed out. *)
LEMMA ResizeStrayRefines ==
  ASSUME LaidOut(memoryBlocks), ~crashed, crashed \in BOOLEAN,
         NEW p, NEW size \in Nat, NEW i \in LastAt(memoryBlocks, p), ~memoryBlocks[i].isUsed,
         \/ ResizeSame(i, p, size) \/ ResizeInPlace(i, p, size)
         \/ ResizeByFreeing(i, p, size) \/ ResizeElsewhere(i, p, size)
  PROVE  Caller!ResizeStray(p, size)
<1> DEFINE bs == memoryBlocks
           live == LiveIn(bs)
<1>1. /\ i \in DOMAIN bs /\ bs[i].startAdress = p /\ WellFormed(bs, memPoolSize)
      /\ memPoolSize \in Nat /\ memPoolStart # NULL /\ memPoolStart = 0 /\ memPoolSize # NULL
      /\ (IF memPoolStart = NULL THEN NULL ELSE memPoolSize) = memPoolSize
  BY DEF LastAt, LaidOut
<1>2. p \in Nat /\ bs[i].size \in Nat /\ bs[i].size <= memPoolSize
  <2>1. p + bs[i].size <= memPoolSize /\ p \in Nat /\ bs[i].size \in Nat
    BY <1>1, BlockInPool DEF WellFormed
  <2> QED  BY <1>1, <2>1
<1>3. p # NULL /\ Caller!Start = 0
  BY <1>1, <1>2, NullAssumption DEF Caller!Start
<1>4. p \notin DOMAIN live
  BY <1>1, LiveAt
(* Its neighbours are in use. *)
<1>5. ~FreeBefore(bs, i) /\ ~FreeAfter(bs, i)
  <2>1. DOMAIN bs = 1 .. Len(bs) /\ Len(bs) \in Nat
    BY <1>1, LenProperties DEF WellFormed, Layout
  <2>2. ASSUME i > 1 PROVE bs[i-1].isUsed
    <3>1. i - 1 \in DOMAIN bs /\ i - 1 < Len(bs) /\ (i - 1) + 1 = i
      BY <1>1, <2>1, <2>2
    <3> QED  BY <1>1, <3>1 DEF WellFormed, Coalesced
  <2>3. ASSUME i < Len(bs) PROVE bs[i+1].isUsed
    BY <1>1, <2>3 DEF WellFormed, Coalesced
  <2> QED  BY <2>2, <2>3 DEF FreeBefore, FreeAfter
<1>6. Available(bs, i) = bs[i].size
  BY <1>2, <1>5 DEF Available
<1>7. CASE ResizeSame(i, p, size)
  <2>1. UNCHANGED <<memoryBlocks, crashed>> /\ Did("mem_resize", p, size, p, 0, "granted")
    BY <1>7 DEF ResizeSame
  <2> QED  BY <2>1 DEF Caller!ResizeStray, Caller!Did, Did
<1>8. ~ResizeInPlace(i, p, size)
  BY <1>5 DEF ResizeInPlace, CanGrowRight
(* What both ways of moving come to: mem_alloc was called on the array. *)
<1>9. ASSUME size # 0, NEW out, NEW moved \in 0 .. memPoolSize,
             out.ptr \in Caller!LowestPlace(live, size), out.heap = "granted",
             LiveIn(memoryBlocks') = Caller!With(live, out.ptr, size), UNCHANGED crashed,
             Did("mem_resize", p, size, out.ptr, moved, out.heap)
      PROVE  Caller!ResizeStray(p, size)
  <2>1. moved \in 0 .. (IF memPoolStart = NULL THEN NULL ELSE memPoolSize)
    BY <1>1
  <2>2. size > 0
    BY <1>9
  <2> HIDE DEF bs, live
  <2>3. \E a \in Caller!LowestPlace(live, size) :
           /\ LiveIn(memoryBlocks') = Caller!With(live, a, size)
           /\ \E m \in 0 .. (IF memPoolStart = NULL THEN NULL ELSE memPoolSize) :
                 Caller!Did("mem_resize", p, size, a, m, "granted")
    BY <1>9, <2>1 DEF Caller!Did, Did
  <2> QED  BY <1>9, <2>2, <2>3 DEF Caller!ResizeStray, live, bs
<1>10. CASE ResizeByFreeing(i, p, size)
  <2> DEFINE moved(out) == IF out.ptr \in {p, NULL} THEN 0
                           ELSE IF Shrinks(i, size) THEN size ELSE memoryBlocks[i].size
  <2>1. size < bs[i].size
    BY <1>2, <1>6, <1>10 DEF ResizeByFreeing, Grows, Shrinks
  <2>2. AfterFree(bs, p) = bs
    <3>1. FirstAt(bs, p) \subseteq {i}
      BY <1>1, OneBlockPerAddress DEF FirstAt
    <3> QED  BY <3>1 DEF AfterFree
  <2>3. PICK out \in AllocOutcomes(bs, size) :
           /\ memoryBlocks' = out.blocks /\ crashed' = (out.ptr = NULL)
           /\ Did("mem_resize", p, size, out.ptr, moved(out), out.heap)
    BY <1>10, <2>2, Zenon DEF ResizeByFreeing
  <2>4. CASE size = 0
    <3>1. out = Outcome(bs, memPoolStart, "granted")
      BY <2>4, Zenon DEF AllocOutcomes
    <3>2. out.blocks = bs /\ out.ptr = 0 /\ out.heap = "granted"
      BY <1>1, <3>1, OutcomeFields
    <3>3. moved(out) = 0 /\ out.ptr # NULL
      BY <1>1, <2>1, <2>4, <3>2 DEF Shrinks
    <3>4. crashed' = FALSE /\ crashed = FALSE /\ memoryBlocks' = memoryBlocks
      BY <2>3, <3>2, <3>3
    <3>5. Did("mem_resize", p, size, 0, 0, "granted")
      BY <2>3, <3>2, <3>3
    <3> QED  BY <1>3, <3>4, <3>5 DEF Caller!ResizeStray, Caller!Did, Did
  <2>5. CASE size # 0
    <3>1. size \in Nat \ {0}
      BY <2>5
    <3>2. Caller!Places(live, size) # {}
      <4>1. Fits(bs, i, size)
        BY <1>2, <2>1 DEF Fits
      <4>2. Vacant(bs, memPoolSize, p, size)
        BY <1>1, <4>1, FitIsVacant
      <4>3. Caller!Places(live, size) = {a \in Nat : Vacant(bs, memPoolSize, a, size)}
        BY <3>1, PlacesAreVacant
      <4> QED  BY <1>2, <4>2, <4>3
    <3>3. \/ /\ out.ptr \in Caller!LowestPlace(live, size) /\ out.heap = "granted"
             /\ LiveIn(out.blocks) = Caller!With(live, out.ptr, size)
             /\ out.ptr # NULL
          \/ /\ out.blocks = bs /\ out.ptr = NULL /\ out.heap = "refused"
      BY <3>1, <3>2, AllocRefines
    <3>4. CASE /\ out.ptr \in Caller!LowestPlace(live, size) /\ out.heap = "granted"
               /\ LiveIn(out.blocks) = Caller!With(live, out.ptr, size)
               /\ out.ptr # NULL
      <4>1. UNCHANGED crashed /\ LiveIn(memoryBlocks') = Caller!With(live, out.ptr, size)
        BY <2>3, <3>4
      <4>2. moved(out) \in 0 .. memPoolSize
        BY <1>1, <1>2, <2>1
      <4> HIDE DEF moved, bs, live
      <4> QED  BY <1>9, <2>3, <2>5, <3>4, <4>1, <4>2
    <3>5. CASE out.blocks = bs /\ out.ptr = NULL /\ out.heap = "refused"
      <4>1. crashed' = TRUE /\ moved(out) = 0 /\ memoryBlocks' = memoryBlocks
        BY <2>3, <3>5
      <4> HIDE DEF moved
      <4> QED  BY <2>3, <3>5, <4>1 DEF Caller!ResizeStray, Caller!Did, Did
    <3> QED  BY <3>3, <3>4, <3>5
  <2> QED  BY <2>4, <2>5
<1>11. CASE ResizeElsewhere(i, p, size)
  <2> DEFINE moved(out) == IF out.ptr = NULL THEN 0 ELSE memoryBlocks[i].size
  <2>1. bs[i].size < size /\ UNCHANGED crashed
    BY <1>11 DEF ResizeElsewhere, Grows
  <2>2. PICK out \in AllocOutcomes(bs, size) :
           /\ memoryBlocks' = IF out.ptr = NULL THEN out.blocks ELSE AfterFree(out.blocks, p)
           /\ Did("mem_resize", p, size, out.ptr, moved(out), out.heap)
    BY <1>11, Zenon DEF ResizeElsewhere
  <2>3. size \in Nat \ {0}
    BY <1>2, <2>1
  <2>4. CASE /\ out.ptr \in Caller!LowestPlace(live, size) /\ out.heap = "granted"
             /\ LaidOut(out.blocks)
             /\ LiveIn(out.blocks) = Caller!With(live, out.ptr, size)
             /\ out.ptr # NULL
             /\ \E j \in DOMAIN bs : bs[j].startAdress = out.ptr /\ Fits(bs, j, size)
    <3>1. out.ptr # p
      <4>1. PICK j \in DOMAIN bs : bs[j].startAdress = out.ptr /\ size <= bs[j].size
        BY <2>4 DEF Fits
      <4>2. j # i
        BY <1>2, <2>1, <4>1
      <4> QED  BY <1>1, <4>1, <4>2, OneBlockPerAddress
    <3>2. p \notin DOMAIN LiveIn(out.blocks)
      BY <1>4, <2>4, <3>1 DEF Caller!With
    <3>3. LiveIn(memoryBlocks') = Caller!With(live, out.ptr, size)
      <4>1. LiveIn(AfterFree(out.blocks, p)) = Caller!Without(LiveIn(out.blocks), p)
        BY <2>4, LiveAfterFree
      <4>2. Caller!Without(LiveIn(out.blocks), p) = LiveIn(out.blocks)
        BY <2>4, <3>2, WithoutNothing
      <4> QED  BY <2>2, <2>4, <4>1, <4>2
    <3>4. moved(out) \in 0 .. memPoolSize
      BY <1>1, <1>2
    <3> HIDE DEF moved, bs, live
    <3> QED  BY <1>9, <2>1, <2>2, <2>3, <2>4, <3>3, <3>4
  <2>5. CASE out.blocks = bs /\ out.ptr = NULL
    <3>1. memoryBlocks' = memoryBlocks /\ moved(out) = 0
      BY <2>2, <2>5
    <3> HIDE DEF moved
    <3>2. out.heap = "granted" \/ out.heap = "refused"
      BY <2>3, AllocRefines
    <3> QED  BY <2>1, <2>2, <2>5, <3>1, <3>2 DEF Caller!ResizeStray, Caller!Did, Did
  <2>6. \/ /\ out.ptr \in Caller!LowestPlace(live, size) /\ out.heap = "granted"
           /\ LaidOut(out.blocks)
           /\ LiveIn(out.blocks) = Caller!With(live, out.ptr, size)
           /\ out.ptr # NULL
           /\ \E j \in DOMAIN bs : bs[j].startAdress = out.ptr /\ Fits(bs, j, size)
        \/ out.blocks = bs /\ out.ptr = NULL
    BY <2>3, AllocRefines
  <2> QED  BY <2>4, <2>5, <2>6
<1> QED  BY <1>7, <1>8, <1>10, <1>11

-----------------------------------------------------------------------------
(* Each call maps to a call. *)

(* Without a pool there is no array, with one it is well formed. *)
LEMMA PoolOrNone ==
  ASSUME IInv, ~crashed
  PROVE  /\ \/ memPoolStart = NULL /\ memoryBlocks = <<>> /\ LiveIn(memoryBlocks) = NoneLive
            \/ LaidOut(memoryBlocks)
         /\ crashed \in BOOLEAN
<1>1. memPoolStart \in {0, NULL} /\ memPoolSize \in Nat /\ crashed \in BOOLEAN
  BY DEF IInv, TypeOK
<1>2. memPoolSize # NULL
  BY <1>1, NullAssumption
<1>3. WellFormed(memoryBlocks, memPoolSize) => memoryBlocks # <<>>
  BY DEF WellFormed, Layout, Tiles
<1> QED  BY <1>1, <1>2, <1>3, NothingLive DEF IInv, ArraySound, LaidOut

LEMMA mem_init_Refines ==
  ASSUME NEW size \in PoolSizes, mem_init(size)
  PROVE  Caller!Open(size)
<1>1. size \in Nat /\ 0 # NULL
  BY ArgumentAssumption, NullAssumption
<1>2. LiveIn(memoryBlocks') = NoneLive
  <2>1. memoryBlocks' = <<Block(0, size, FALSE)>> \/ memoryBlocks' = <<>>
    BY DEF mem_init
  <2>2. LiveIn(<<>>) = NoneLive /\ LiveIn(<<Block(0, size, FALSE)>>) = NoneLive
    BY <1>1, NothingLive
  <2> QED  BY <2>1, <2>2
<1>3. memPoolSize' = size
  BY DEF mem_init
<1>4. CASE memPoolStart' = 0 /\ crashed' = FALSE /\ Did("mem_init", NULL, size, NULL, 0, "granted")
  BY <1>1, <1>2, <1>3, <1>4 DEF Caller!Open, Caller!Did, Did, NoneLive
<1>5. CASE memPoolStart' = NULL /\ crashed' = FALSE /\ Did("mem_init", NULL, size, NULL, 0, "refused")
  BY <1>1, <1>2, <1>3, <1>5 DEF Caller!Open, Caller!Did, Did, NoneLive
<1>6. CASE memPoolStart' = 0 /\ crashed' = TRUE /\ Did("mem_init", NULL, size, NULL, 0, "refused")
  BY <1>1, <1>2, <1>3, <1>6 DEF Caller!Open, Caller!Did, Did, NoneLive
<1> QED  BY <1>4, <1>5, <1>6 DEF mem_init

LEMMA mem_deinit_Refines ==
  ASSUME IInv, ~crashed, mem_deinit
  PROVE  Caller!Close
<1>1. /\ memPoolStart' = NULL /\ memoryBlocks' = <<>> /\ UNCHANGED crashed
      /\ Did("mem_deinit", NULL, 0, NULL, 0, "granted")
  <2>1. memPoolStart = NULL => memoryBlocks = <<>>
    BY DEF IInv, ArraySound
  <2> QED  BY <2>1 DEF mem_deinit
<1>2. LiveIn(memoryBlocks') = NoneLive
  BY <1>1, NothingLive
<1> QED  BY <1>1, <1>2 DEF Caller!Close, Caller!Did, Did, NoneLive

LEMMA mem_alloc_Refines ==
  ASSUME IInv, ~crashed, NEW size \in Sizes, mem_alloc(size)
  PROVE  Caller!Alloc(size)
<1>1. size \in Nat
  BY ArgumentAssumption
<1>2. UNCHANGED <<memPoolStart, memPoolSize, crashed>>
  BY DEF mem_alloc
<1>3. PICK out \in AllocOutcomes(memoryBlocks, size) :
           memoryBlocks' = out.blocks /\ Did("mem_alloc", NULL, size, out.ptr, 0, out.heap)
  BY DEF mem_alloc
<1>4. CASE size = 0
  <2>1. out = Outcome(memoryBlocks, memPoolStart, "granted")
    BY <1>4, Zenon DEF AllocOutcomes
  <2>2. out.blocks = memoryBlocks /\ out.ptr = memPoolStart /\ out.heap = "granted"
    BY <2>1, OutcomeFields
  <2>3. memPoolStart = Caller!Start
    BY PoolOrNone DEF Caller!Start, LaidOut
  <2> QED  BY <1>2, <1>3, <1>4, <2>2, <2>3 DEF Caller!Alloc, Caller!Did, Did
<1>5. CASE size # 0 /\ memPoolStart = NULL /\ memoryBlocks = <<>>
  <2>1. FirstFit(<<>>, size) = {}
    BY DEF FirstFit
  <2>2. out = Outcome(memoryBlocks, NULL, "granted")
    BY <1>5, <2>1, Zenon DEF AllocOutcomes
  <2>3. out.blocks = memoryBlocks /\ out.ptr = NULL /\ out.heap = "granted"
    BY <2>2, OutcomeFields
  <2>4. Caller!Places(LiveIn(memoryBlocks), size) = {}
    BY <1>5 DEF Caller!Places
  <2>5. size > 0
    BY <1>1, <1>5
  <2> QED  BY <1>2, <1>3, <2>3, <2>4, <2>5 DEF Caller!Alloc, Caller!Did, Did
<1>6. CASE size # 0 /\ LaidOut(memoryBlocks)
  <2>1. size > 0 /\ size \in Nat \ {0}
    BY <1>1, <1>6
  <2>2. \/ /\ out.ptr \in Caller!LowestPlace(LiveIn(memoryBlocks), size) /\ out.heap = "granted"
           /\ LiveIn(out.blocks) = Caller!With(LiveIn(memoryBlocks), out.ptr, size)
        \/ /\ Caller!Places(LiveIn(memoryBlocks), size) = {}
           /\ out.blocks = memoryBlocks /\ out.ptr = NULL /\ out.heap = "granted"
        \/ /\ Caller!Places(LiveIn(memoryBlocks), size) # {}
           /\ out.blocks = memoryBlocks /\ out.ptr = NULL /\ out.heap = "refused"
    BY <1>6, <2>1, AllocRefines
  <2> QED  BY <1>2, <1>3, <2>1, <2>2 DEF Caller!Alloc, Caller!Did, Did
<1> QED  BY <1>4, <1>5, <1>6, PoolOrNone

LEMMA mem_free_Refines ==
  ASSUME IInv, ~crashed, NEW p, mem_free(p)
  PROVE  Caller!Free(p)
<1>1. /\ memoryBlocks' = AfterFree(memoryBlocks, p)
      /\ UNCHANGED <<memPoolStart, memPoolSize, crashed>>
      /\ Did("mem_free", p, 0, NULL, 0, "granted")
  BY DEF mem_free
<1>2. LiveIn(AfterFree(memoryBlocks, p)) = Caller!Without(LiveIn(memoryBlocks), p)
  <2>1. CASE memoryBlocks = <<>> /\ LiveIn(memoryBlocks) = NoneLive
    <3>1. Caller!Without(NoneLive, p) = NoneLive
      BY DEF Caller!Without, NoneLive
    <3> QED  BY <2>1, <3>1, AfterFreeEmpty
  <2>2. CASE LaidOut(memoryBlocks)
    BY <2>2, LiveAfterFree
  <2> QED  BY <2>1, <2>2, PoolOrNone
<1> QED  BY <1>1, <1>2 DEF Caller!Free, Caller!Did, Did

LEMMA mem_resize_Refines ==
  ASSUME IInv, ~crashed, NEW p, NEW size \in Sizes, mem_resize(p, size)
  PROVE  Caller!Resize(p, size)
<1>1. size \in Nat
  BY ArgumentAssumption
<1>2. UNCHANGED <<memPoolStart, memPoolSize>>
  BY DEF mem_resize
<1>3. CASE ResizeUnknown(p, size)
  <2>1. p \notin DOMAIN LiveIn(memoryBlocks)
    <3>1. CASE LiveIn(memoryBlocks) = NoneLive
      BY <3>1 DEF NoneLive
    <3>2. CASE LaidOut(memoryBlocks)
      <4> SUFFICES ASSUME p \in DOMAIN LiveIn(memoryBlocks) PROVE FALSE
        OBVIOUS
      <4>0. DOMAIN LiveIn(memoryBlocks) = {b.startAdress : b \in HandedOut(memoryBlocks)}
        BY <3>2, LiveInIs DEF LaidOut
      <4>1. PICK j \in DOMAIN memoryBlocks : memoryBlocks[j].startAdress = p
        BY <4>0 DEF HandedOut
      <4>2. \A k \in DOMAIN memoryBlocks : memoryBlocks[k].startAdress = p => k = j
        BY <3>2, <4>1, OneBlockPerAddress DEF LaidOut
      <4>3. j \in Nat
        BY <3>2, LenProperties DEF LaidOut, WellFormed, Layout
      <4>4. j \in LastAt(memoryBlocks, p)
        BY <4>1, <4>2, <4>3 DEF LastAt
      <4> QED  BY <1>3, <4>4 DEF ResizeUnknown
    <3> QED  BY <3>1, <3>2, PoolOrNone
  <2>2. UNCHANGED <<memoryBlocks, crashed>> /\ Did("mem_resize", p, size, NULL, 0, "granted")
    BY <1>3 DEF ResizeUnknown
  <2>3. Caller!ResizeStray(p, size)
    BY <2>2 DEF Caller!ResizeStray, Caller!Did, Did
  <2> QED  BY <1>2, <2>1, <2>3 DEF Caller!Resize
<1>4. ASSUME NEW i \in LastAt(memoryBlocks, p),
             \/ ResizeSame(i, p, size) \/ ResizeInPlace(i, p, size)
             \/ ResizeByFreeing(i, p, size) \/ ResizeElsewhere(i, p, size)
      PROVE  Caller!Resize(p, size)
  <2>1. i \in DOMAIN memoryBlocks /\ memoryBlocks[i].startAdress = p
    BY DEF LastAt
  <2>2. LaidOut(memoryBlocks)
    BY <2>1, PoolOrNone
  <2>3. p \in DOMAIN LiveIn(memoryBlocks) <=> memoryBlocks[i].isUsed
    BY <2>1, <2>2, LiveAt
  <2>4. CASE memoryBlocks[i].isUsed
    <3>1. Caller!ResizeLive(p, size)
      BY <1>1, <1>4, <2>2, <2>4, PoolOrNone, ResizeLiveRefines
    <3> QED  BY <1>2, <2>3, <2>4, <3>1 DEF Caller!Resize
  <2>5. CASE ~memoryBlocks[i].isUsed
    <3>1. Caller!ResizeStray(p, size)
      BY <1>1, <1>4, <2>2, <2>5, PoolOrNone, ResizeStrayRefines
    <3> QED  BY <1>2, <2>3, <2>5, <3>1 DEF Caller!Resize
  <2> QED  BY <2>4, <2>5
<1> QED  BY <1>3, <1>4 DEF mem_resize

(* Seen by a caller, the manager is a PoolAllocator: a request is served at  *)
(* the lowest address at which it fits between the live blocks, NULL means   *)
(* that it fits nowhere or the heap refused, and no other block is touched.  *)
THEOREM ManagerRefinesAllocator == Spec => ImplementsPoolAllocator
<1>1. Init => Caller!Init
  BY NothingLive DEF Init, Caller!Init, NoneLive
<1>2. IInv /\ [Next]_vars => [Caller!Next]_(Caller!vars)
  <2> SUFFICES ASSUME IInv, [Next]_vars PROVE [Caller!Next]_(Caller!vars)
    OBVIOUS
  <2>1. CASE UNCHANGED vars
    BY <2>1 DEF vars, Caller!vars
  <2>2. ASSUME ~crashed, NEW size \in PoolSizes, mem_init(size) PROVE Caller!Next
    BY <2>2, mem_init_Refines DEF Caller!Next
  <2>3. ASSUME ~crashed, mem_deinit PROVE Caller!Next
    BY <2>3, mem_deinit_Refines DEF Caller!Next
  <2>4. ASSUME ~crashed, NEW size \in Sizes, mem_alloc(size) PROVE Caller!Next
    BY <2>4, mem_alloc_Refines DEF Caller!Next
  <2>5. ASSUME ~crashed, NEW p \in Addrs \cup {NULL}, mem_free(p) PROVE Caller!Next
    BY <2>5, mem_free_Refines DEF Caller!Next
  <2>6. ASSUME ~crashed, NEW p \in Addrs \cup {NULL}, NEW size \in Sizes, mem_resize(p, size)
        PROVE  Caller!Next
    BY <2>6, mem_resize_Refines DEF Caller!Next
  <2> QED  BY <2>1, <2>2, <2>3, <2>4, <2>5, <2>6 DEF Next
<1> QED  BY <1>1, <1>2, AlwaysSound, PTL DEF Spec, Caller!Spec, ImplementsPoolAllocator
=============================================================================

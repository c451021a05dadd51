------------------------ MODULE FragmentationProofs ------------------------
(***************************************************************************)
(* What is proved of the barrier holds in the fragmentation test, and with *)
(* it the test's own claims, for any number of threads and cycles and any  *)
(* size of pool.                                                           *)
(***************************************************************************)
EXTENDS Fragmentation, BarrierProofs, MemoryBlocksProofs

(* Each step of the test is a step of the barrier or leaves it alone. *)
LEMMA TestStepIsBarrierStep == [TestNext]_<<vars, test>> => [Next]_vars
<1> SUFFICES ASSUME [TestNext]_<<vars, test>> PROVE [Next]_vars
  OBVIOUS
<1>1. CASE start
  BY <1>1 DEF start, Next
<1>2. CASE finish
  BY <1>2 DEF finish, Next
<1>3. ASSUME NEW t \in party, Going(t) PROVE [Next]_vars
  BY <1>3 DEF Going, allocate, free, wait, inside, Next, Waiting
<1>4. ASSUME NEW t \in party, wake_spuriously(t) PROVE [Next]_vars
  BY <1>4 DEF Next
<1>5. CASE UNCHANGED <<vars, test>>
  BY <1>5
<1> QED
  BY <1>1, <1>2, <1>3, <1>4, <1>5 DEF TestNext

THEOREM TestFollowsBarrier == TestSpec => Spec
<1>1. TestInit => Init
  BY DEF TestInit
<1> QED
  BY <1>1, TestStepIsBarrierStep, PTL DEF TestSpec, Spec

(* In the test, too, nobody is through a barrier before all have come to it, *)
(* unless a thread is woken unasked: odd threads stay in their phases.       *)
THEOREM TestRoundsDoNotMix == TestSpec => []RoundsDoNotMix
  BY TestFollowsBarrier, RoundsStayApart, PTL

-----------------------------------------------------------------------------
(* The inductive invariant. *)

(* Who has a block, and the unit the test cuts the pool into. *)
Holders == {t \in party : block[t] # NULL}
Unit == memory_size \div (num_threads * 3)

PoolLaidOut ==
  IF party = {} THEN memoryBlocks = <<>> ELSE WellFormed(memoryBlocks, memory_size)

PoolSized == party # {} => memory_size # 0

(* Every block that is handed out is the one some thread has. *)
Owned == \A b \in HandedOut(memoryBlocks) : \E t \in party : block[t] = b.startAdress

(* What the place in its loop says of a thread. *)
Stages ==
  \A t \in Threads :
    /\ at[t] \in {"allocate", "second wait", "return"} => block[t] = NULL
    /\ ~Even(t) /\ at[t] = "first wait" => block[t] = NULL
    /\ IF at[t] = "return" THEN cycle[t] = Cycles ELSE cycle[t] < Cycles
    /\ pc[t] # "outside" => at[t] \in {AfterFirstWait(t), Top(t), "return"}

(* A thread has called my_barrier_wait once in its cycle, or not yet. *)
Waits(t) ==
  IF at[t] \in {"free", "second wait"} \/ (~Even(t) /\ at[t] = "allocate") THEN 1 ELSE 0

KeepsPace == \A t \in party : entered[t] = 2 * cycle[t] + Waits(t)

(* A pool that fills up from the left: blocks in use, each at most "most"    *)
(* bytes, no more of them than threads "holding" one, and then the free one. *)
Fills(bs, most, holding) ==
  /\ \A i \in DOMAIN bs : i < Len(bs) => bs[i].isUsed
  /\ \A i \in DOMAIN bs : bs[i].startAdress <= most * (i - 1)
  /\ \A i \in DOMAIN bs : bs[i].isUsed => bs[i].size <= most
  /\ Len(bs) <= IF bs[Len(bs)].isUsed THEN holding ELSE holding + 1

(* The pool does so while the even threads allocate. *)
FillsInEvenRounds ==
  \A t \in party : Even(Passed(t)) => Fills(memoryBlocks, Unit * 3, Cardinality(Holders))

TestInv ==
  /\ IInv /\ TestTypeOK /\ PoolLaidOut /\ PoolSized /\ Owned /\ Stages
  /\ ~surprised => KeepsPace /\ FillsInEvenRounds

-----------------------------------------------------------------------------
(* The pool. *)

(* Nobody has a block: the pool is one free block. *)
LEMMA WholePool ==
  ASSUME NEW total \in Nat, NEW bs, WellFormed(bs, total), HandedOut(bs) = {}
  PROVE  bs = <<Block(0, total, FALSE)>>
<1> PICK n : n = Len(bs)
  OBVIOUS
<1>1. bs \in Seq(BlockType) /\ n \in Nat /\ DOMAIN bs = 1 .. n /\ bs # <<>>
  BY LenProperties DEF WellFormed, Layout, Tiles
<1>2. n # 0
  BY <1>1, EmptySeq
<1>3. \A i \in 1 .. n : ~bs[i].isUsed
  BY <1>1, HandedOutPositions
<1>4. n = 1
  <2> SUFFICES ASSUME n > 1 PROVE FALSE
    BY <1>1, <1>2
  <2>1. 1 \in 1 .. n /\ 1 + 1 \in 1 .. n /\ 1 < Len(bs)
    BY <1>1
  <2>2. bs[1].isUsed \/ bs[1+1].isUsed
    BY <1>1, <2>1 DEF WellFormed, Coalesced
  <2> QED  BY <1>3, <2>1, <2>2
<1>5. bs[1].startAdress = 0 /\ bs[1].startAdress + bs[1].size = total
  BY <1>4 DEF WellFormed, Layout, Tiles
<1>6. bs[1] \in BlockType
  BY <1>1, <1>4, ElementOfSeq
<1>7. bs[1] = Block(0, total, FALSE)
  <2>1. bs[1].size \in Nat /\ bs[1].isUsed = FALSE
    BY <1>3, <1>4, <1>6 DEF BlockType
  <2>2. bs[1].size = total
    BY <1>5, <2>1
  <2> QED  BY <1>5, <1>6, <2>1, <2>2 DEF BlockType, Block
<1> PICK b : b = Block(0, total, FALSE)
  OBVIOUS
<1>8. b \in BlockType /\ bs[1] = b
  BY <1>6, <1>7
<1>9. <<b>> \in Seq(BlockType) /\ Len(<<b>>) = 1 /\ <<b>>[1] = b
  BY ONLY <1>8
<1>10. \A i \in 1 .. Len(bs) : bs[i] = <<b>>[i]
  <2>1. Len(bs) = 1
    BY <1>4
  <2> QED  BY ONLY <1>8, <1>9, <2>1
<1>11. bs = <<b>>
  BY ONLY n = Len(bs), <1>1, <1>4, <1>9, <1>10, SeqEqual
<1> QED  BY <1>11

LEMMA FillsFresh ==
  ASSUME NEW size \in Nat, NEW most \in Nat, NEW holding \in Nat
  PROVE  Fills(<<Block(0, size, FALSE)>>, most, holding)
<1> DEFINE b == Block(0, size, FALSE)
<1>1. b.startAdress = 0 /\ b.isUsed = FALSE
  BY BlockFields
<1> HIDE DEF b
<1>2. DOMAIN <<b>> = {1} /\ Len(<<b>>) = 1 /\ <<b>>[1] = b
  OBVIOUS
<1>3. Fills(<<b>>, most, holding)
  BY <1>1, <1>2 DEF Fills
<1> QED  BY <1>3 DEF b

LEMMA FillsWithMoreHolders ==
  ASSUME NEW bs \in Seq(BlockType), NEW most, NEW holding \in Nat, Fills(bs, most, holding)
  PROVE  Fills(bs, most, holding + 1)
<1>1. Len(bs) \in Nat
  BY LenProperties
<1> QED  BY <1>1 DEF Fills

LEMMA MultiplesInOrder ==
  ASSUME NEW k \in Nat, NEW i \in Nat, NEW n \in Nat, i <= n
  PROVE  k * i <= k * n /\ k * (i + 1) = k * i + k /\ k * i \in Nat
OBVIOUS

(* While a thread is without a block, there is room for its block. *)
LEMMA RoomForOneMore ==
  ASSUME NEW total \in Nat, NEW bs, WellFormed(bs, total),
         NEW most \in Nat, NEW holding \in Nat, Fills(bs, most, holding),
         most * (holding + 1) <= total, NEW size \in Nat \ {0}, size <= most
  PROVE  /\ FirstFit(bs, size) = {Len(bs)}
         /\ ~bs[Len(bs)].isUsed /\ size <= bs[Len(bs)].size
<1> PICK n : n = Len(bs)
  OBVIOUS
<1>1. /\ n \in Nat \ {0} /\ DOMAIN bs = 1 .. n
      /\ \A j \in 1 .. n : /\ bs[j].startAdress \in Nat /\ bs[j].size \in Nat
                           /\ bs[j].isUsed \in BOOLEAN
      /\ bs[n].startAdress + bs[n].size = total
  <2>1. InRow(bs, total, n)
    BY InARow
  <2> QED  BY <2>1 DEF InRow
<1>2. n - 1 \in Nat /\ bs[n].startAdress <= most * (n - 1) /\ bs[n].startAdress \in Nat
      /\ bs[n].size \in Nat
  BY <1>1 DEF Fills
<1> PICK before : before = most * (n - 1)
  OBVIOUS
<1> PICK held : held = most * holding
  OBVIOUS
<1>3. /\ before \in Nat /\ held \in Nat /\ held + most <= total
      /\ n - 1 <= holding => before <= held
      /\ n <= holding => before + most <= held
  <2>1. before \in Nat /\ held \in Nat
    BY ONLY before = most * (n - 1), held = most * holding, <1>2, most \in Nat, holding \in Nat,
            MultiplesInOrder
  <2>2. most * (holding + 1) = held + most
    BY ONLY held = most * holding, most \in Nat, holding \in Nat, MultiplesInOrder
  <2>3. n - 1 <= holding => before <= held
    BY ONLY before = most * (n - 1), held = most * holding, <1>2, most \in Nat, holding \in Nat,
            MultiplesInOrder
  <2>4. n <= holding => most * n <= held
    BY ONLY held = most * holding, <1>1, most \in Nat, holding \in Nat, MultiplesInOrder
  <2>5. most * n = before + most
    <3>1. n = (n - 1) + 1
      BY <1>1
    <3> QED  BY ONLY before = most * (n - 1), <1>2, <3>1, most \in Nat, MultiplesInOrder
  <2> QED  BY <2>1, <2>2, <2>3, <2>4, <2>5
<1>4. ~bs[n].isUsed /\ most <= bs[n].size
  <2>1. bs[n].isUsed => n <= holding /\ bs[n].size <= most
    BY <1>1 DEF Fills
  <2>2. ~bs[n].isUsed => n - 1 <= holding
    BY <1>1 DEF Fills
  <2>3. bs[n].startAdress <= before
    BY <1>2
  <2>4. most > 0 /\ most \in Nat /\ total \in Nat
    OBVIOUS
  <2> QED  BY ONLY <1>1, <1>2, <1>3, <2>1, <2>2, <2>3, <2>4
<1>5. Fits(bs, n, size)
  BY <1>2, <1>4 DEF Fits
<1>6. \A j \in 1 .. n : Fits(bs, j, size) => j = n
  <2> SUFFICES ASSUME NEW j \in 1 .. n, Fits(bs, j, size), j # n PROVE FALSE
    OBVIOUS
  <2>1. j < Len(bs)
    BY <1>1
  <2> QED  BY <1>1, <2>1 DEF Fills, Fits
<1>7. n \in 1 .. n /\ n <= n
  BY <1>1
<1>8. FirstFit(bs, size) = {n}
  BY <1>1, <1>5, <1>6, <1>7 DEF FirstFit
<1> QED  BY <1>5, <1>8 DEF Fits

LEMMA FillsAfterCarve ==
  ASSUME NEW total \in Nat, NEW bs, WellFormed(bs, total),
         NEW most \in Nat, NEW holding \in Nat, Fills(bs, most, holding),
         NEW size \in Nat \ {0}, size <= most,
         ~bs[Len(bs)].isUsed, size <= bs[Len(bs)].size
  PROVE  Fills(Carve(bs, Len(bs), size), most, holding + 1)
<1> PICK n : n = Len(bs)
  OBVIOUS
<1>1. /\ n \in Nat \ {0} /\ DOMAIN bs = 1 .. n
      /\ \A j \in 1 .. n : /\ bs[j].startAdress \in Nat /\ bs[j].size \in Nat
                           /\ bs[j].isUsed \in BOOLEAN
  <2>1. InRow(bs, total, n)
    BY InARow
  <2> QED  BY <2>1 DEF InRow
<1>2. bs \in Seq(BlockType) /\ n \in DOMAIN bs /\ n \in 1 .. n
  BY <1>1 DEF WellFormed, Layout
<1>3. ~bs[n].isUsed /\ size <= bs[n].size
  OBVIOUS
<1>4. /\ \A j \in 1 .. n : j < n => bs[j].isUsed
      /\ \A j \in 1 .. n : bs[j].startAdress <= most * (j - 1)
      /\ \A j \in 1 .. n : bs[j].isUsed => bs[j].size <= most
      /\ n <= holding + 1
  BY <1>1, <1>3 DEF Fills
<1> PICK cut : cut = Carve(bs, n, size)
  OBVIOUS
<1> PICK used : used = Block(bs[n].startAdress, size, TRUE)
  OBVIOUS
<1>5. /\ used \in BlockType /\ used.startAdress = bs[n].startAdress
      /\ used.size = size /\ used.isUsed = TRUE
  <2>1. bs[n].startAdress \in Nat /\ size \in Nat
    BY <1>1, <1>2
  <2> QED  BY ONLY used = Block(bs[n].startAdress, size, TRUE), <2>1, BlockFields, ZenonT(40)
<1>6. CASE bs[n].size = size
  <2>1. cut = [bs EXCEPT ![n] = used]
    BY <1>6 DEF Carve
  <2>2. /\ Len(cut) = n /\ DOMAIN cut = 1 .. n
        /\ \A j \in 1 .. n : cut[j] = IF j = n THEN used ELSE bs[j]
    BY ONLY <1>2, <1>5, <2>1, n = Len(bs), Replaced
  <2>3. Fills(cut, most, holding + 1)
    <3>1. \A i \in DOMAIN cut : i < Len(cut) => cut[i].isUsed
      BY <1>4, <2>2
    <3>2. \A i \in DOMAIN cut : cut[i].startAdress <= most * (i - 1)
      BY <1>4, <1>5, <2>2
    <3>3. \A i \in DOMAIN cut : cut[i].isUsed => cut[i].size <= most
      BY <1>4, <1>5, <2>2
    <3>4. Len(cut) <= holding + 1 /\ cut[Len(cut)].isUsed
      BY <1>2, <1>4, <1>5, <2>2
    <3> QED  BY <3>1, <3>2, <3>3, <3>4 DEF Fills
  <2> QED  BY <2>3
<1>7. CASE bs[n].size # size
  <2>1. size < bs[n].size /\ bs[n].startAdress \in Nat /\ bs[n].size \in Nat
    BY <1>1, <1>2, <1>3, <1>7
  <2> PICK rest : rest = Block(bs[n].startAdress + size, bs[n].size - size, FALSE)
    OBVIOUS
  <2>2. rest.startAdress = bs[n].startAdress + size /\ rest.isUsed = FALSE
    BY DEF Block
  <2>5. /\ Len(cut) = n + 1 /\ DOMAIN cut = 1 .. n + 1
        /\ \A j \in 1 .. n + 1 : cut[j] = IF j < n THEN bs[j] ELSE IF j = n THEN used
                                          ELSE IF j = n + 1 THEN rest ELSE bs[j-1]
    <3>1. IsSplit(Carve(bs, n, size), bs, n, size)
      BY ONLY <1>2, <2>1, size \in Nat \ {0}, CarvePositions
    <3> QED  BY ONLY <3>1, cut = Carve(bs, n, size), n = Len(bs),
                     used = Block(bs[n].startAdress, size, TRUE),
                     rest = Block(bs[n].startAdress + size, bs[n].size - size, FALSE) DEF IsSplit
  <2>6. \A j \in 1 .. n + 1 : cut[j] = IF j = n + 1 THEN rest ELSE IF j = n THEN used ELSE bs[j]
    BY ONLY <1>1, <2>5
  <2>7. Fills(cut, most, holding + 1)
    <3>1. \A i \in DOMAIN cut : i < Len(cut) => cut[i].isUsed
      BY ONLY <1>1, <1>4, <1>5, <2>5, <2>6
    <3>2. ASSUME NEW i \in 1 .. n + 1 PROVE cut[i].startAdress <= most * (i - 1)
      <4>1. CASE i = n + 1
        <5>1. bs[n].startAdress <= most * (n - 1) /\ n - 1 \in Nat
          BY <1>1, <1>2, <1>4
        <5>2. most * ((n - 1) + 1) = most * (n - 1) + most /\ most * (n - 1) \in Nat
          BY ONLY <5>1, most \in Nat, MultiplesInOrder
        <5>3. (n - 1) + 1 = i - 1
          BY <1>1, <4>1
        <5>4. bs[n].startAdress + size <= most * (i - 1)
          BY ONLY <2>1, <5>1, <5>2, <5>3, size \in Nat \ {0}, size <= most, most \in Nat
        <5> QED  BY <2>2, <2>6, <4>1, <5>4
      <4>2. CASE i # n + 1
        BY ONLY <1>1, <1>4, <1>5, <2>6, <4>2, i \in 1 .. n + 1
      <4> QED  BY <4>1, <4>2
    <3>3. \A i \in DOMAIN cut : cut[i].isUsed => cut[i].size <= most
      BY ONLY <1>1, <1>4, <1>5, <2>2, <2>5, <2>6, size <= most
    <3>4. Len(cut) <= (holding + 1) + 1 /\ ~cut[Len(cut)].isUsed
      BY ONLY <1>1, <1>4, <2>2, <2>5, <2>6, holding \in Nat
    <3> QED  BY <2>5, <3>1, <3>2, <3>3, <3>4 DEF Fills
  <2> QED  BY <2>7
<1> QED  BY <1>6, <1>7

-----------------------------------------------------------------------------
(* The threads. *)

LEMMA ThreadsAreNumbers ==
  /\ Threads \subseteq Nat /\ Cardinality(Threads) \in Nat
  /\ MemorySizes \subseteq Nat \ {0} /\ Cycles \in Nat
<1>1. Cardinality(Threads) \in Nat
  BY BarrierAssumption, FS_CardinalityType
<1>2. 0 .. Cardinality(Threads) - 1 \subseteq Nat
  OBVIOUS
<1> QED  BY <1>1, <1>2, FragmentationAssumption

(* What the invariant says of a thread of the test, field by field. *)
LEMMA OfThread ==
  ASSUME TestInv, NEW t \in party
  PROVE  /\ t \in Threads /\ t \in Nat /\ at[t] \in Labels
         /\ cycle[t] \in Nat /\ entered[t] \in Nat /\ left[t] \in Nat
         /\ block[t] \in Nat \cup {NULL}
         /\ Passed(t) = IF pc[t] \in {"wake", "unlock"} THEN left[t] + 1 ELSE left[t]
         /\ entered[t] = IF pc[t] = "outside" THEN left[t] ELSE left[t] + 1
<1>1. t \in Threads
  BY DEF TestInv, TestTypeOK, TypeOK
<1>2. t \in Nat
  BY <1>1, ThreadsAreNumbers
<1>3. /\ at \in [Threads -> Labels] /\ cycle \in [Threads -> 0 .. Cycles]
      /\ block \in [Threads -> Nat \cup {NULL}]
      /\ entered \in [Threads -> Nat] /\ left \in [Threads -> Nat]
  BY DEF TestInv, TestTypeOK, TypeOK
<1>4. cycle[t] \in Nat
  BY <1>1, <1>3, ThreadsAreNumbers
<1>5. entered[t] = IF pc[t] = "outside" THEN left[t] ELSE left[t] + 1
  BY <1>1 DEF TestInv, IInv, Balanced
<1> QED  BY <1>1, <1>2, <1>3, <1>4, <1>5 DEF Passed

LEMMA EvenOrOdd ==
  ASSUME NEW c \in Nat
  PROVE  Even(2 * c) /\ ~Even(2 * c + 1)
BY DEF Even

(* The sizes the threads ask for, and how many of them fit. *)
LEMMA BlockSizes ==
  ASSUME TestInv, party # {}
  PROVE  /\ memory_size \in Nat \ {0} /\ num_threads = Cardinality(party)
         /\ num_threads \in Nat \ {0} /\ Unit \in Nat
         /\ (Unit * 3) * num_threads <= memory_size
         /\ \A t \in Threads : block_size(t) \in Nat /\ block_size(t) <= Unit * 3
<1>1. memory_size \in Nat
  BY ThreadsAreNumbers DEF TestInv, TestTypeOK
<1>2. num_threads = Cardinality(party) /\ IsFiniteSet(party) /\ Cardinality(party) \in Nat
  BY PartyFinite DEF TestInv, IInv, PartyCounted
<1>3. num_threads \in Nat \ {0}
  BY <1>2, FS_EmptySet
<1>4. num_threads * 3 \in Nat \ {0}
  BY <1>3
<1>5. Unit \in Nat /\ (num_threads * 3) * Unit <= memory_size
  BY <1>1, <1>4 DEF Unit
<1>6. (num_threads * 3) * Unit = (Unit * 3) * num_threads
  BY <1>3, <1>5
<1>7. ASSUME NEW t \in Threads PROVE block_size(t) \in Nat /\ block_size(t) <= Unit * 3
  <2>1. t \in Nat
    BY ThreadsAreNumbers
  <2>2. t % 3 \in 0 .. 2
    BY <2>1
  <2>3. block_size(t) = Unit * ((t % 3) + 1)
    BY DEF block_size, Unit
  <2> QED  BY <1>5, <2>2, <2>3
<1>8. memory_size # 0
  BY <1>2 DEF TestInv, PoolSized
<1> QED  BY <1>1, <1>2, <1>3, <1>5, <1>6, <1>7, <1>8

(* The test is where it was, and nobody got or gave back a block. *)
LEMMA PoolKept ==
  ASSUME TestInv, UNCHANGED <<party, memoryBlocks, memory_size, block>>
  PROVE  PoolLaidOut' /\ PoolSized' /\ Owned' /\ Holders' = Holders
BY DEF TestInv, PoolLaidOut, PoolSized, Owned, Holders

(* Where a thread begins its cycle. *)
LEMMA AtTop ==
  ASSUME NEW t
  PROVE  /\ Top(t) \in Labels /\ Top(t) \in {"allocate", "first wait"}
         /\ Even(t) => Top(t) = "allocate"
         /\ ~Even(t) => Top(t) = "first wait"
BY DEF Top, Labels

LEMMA AtBeginning ==
  ASSUME NEW t
  PROVE  /\ 0 \in 0 .. Cycles
         /\ Begins(t) \in Labels /\ Begins(t) \in {"allocate", "first wait", "return"}
         /\ IF Begins(t) = "return" THEN Cycles = 0 ELSE 0 < Cycles /\ Begins(t) = Top(t)
<1>1. Cycles \in Nat
  BY ThreadsAreNumbers
<1>2. 0 \in 0 .. Cycles /\ (Cycles # 0 => 0 < Cycles)
  BY ONLY <1>1
<1>3. Begins(t) = IF Cycles = 0 THEN "return" ELSE Top(t)
  BY DEF Begins
<1>4. Top(t) # "return" /\ Top(t) \in {"allocate", "first wait"}
  BY AtTop
<1> QED  BY <1>2, <1>3, <1>4 DEF Labels

LEMMA TestInitSound == TestInit => TestInv
<1> SUFFICES ASSUME TestInit PROVE TestInv
  OBVIOUS
<1>1. IInv /\ TypeOK
  BY InitSound DEF TestInit, IInv
<1>2. party = {} /\ memoryBlocks = <<>> /\ surprised = FALSE /\ \A t \in Threads : pc[t] = "outside"
  BY DEF TestInit, Init
<1>3. TestTypeOK
  <2>1. /\ memoryBlocks \in Seq(BlockType) /\ memory_size \in MemorySizes \cup {0}
        /\ at \in [Threads -> Labels]
    BY EmptySeq, AtBeginning DEF TestInit
  <2>2. cycle \in [Threads -> 0 .. Cycles] /\ block \in [Threads -> Nat \cup {NULL}]
    BY AtBeginning DEF TestInit
  <2> QED  BY <1>1, <2>1, <2>2 DEF TestTypeOK
<1>4. PoolLaidOut /\ PoolSized /\ Owned
  BY <1>2 DEF PoolLaidOut, PoolSized, Owned, HandedOut
<1>5. Stages
  <2> SUFFICES ASSUME NEW t \in Threads
               PROVE  /\ block[t] = NULL /\ pc[t] = "outside"
                      /\ IF at[t] = "return" THEN cycle[t] = Cycles ELSE cycle[t] < Cycles
    BY DEF Stages
  <2>1. at[t] = Begins(t) /\ cycle[t] = 0 /\ block[t] = NULL
    BY DEF TestInit
  <2> QED  BY <1>2, <2>1, AtBeginning
<1>6. KeepsPace /\ FillsInEvenRounds
  BY <1>2 DEF KeepsPace, FillsInEvenRounds
<1> QED  BY <1>1, <1>3, <1>4, <1>5, <1>6 DEF TestInv

LEMMA start_Sound ==
  ASSUME TestInv, IInv', start
  PROVE  TestInv'
<1>1. PICK size \in MemorySizes : memory_size' = size /\ memoryBlocks' = <<Block(0, size, FALSE)>>
  BY DEF start
<1>2. size \in Nat /\ size # 0
  BY ThreadsAreNumbers
<1>3. /\ party = {} /\ party' # {} /\ party' \subseteq Threads
      /\ at' = [t \in Threads |-> Begins(t)]
      /\ cycle' = [t \in Threads |-> 0] /\ block' = [t \in Threads |-> NULL]
      /\ entered' = [t \in Threads |-> 0] /\ left' = [t \in Threads |-> 0]
      /\ UNCHANGED pc
  BY DEF start, my_barrier_init
<1>4. \A t \in Threads : pc'[t] = "outside"
  BY <1>3 DEF TestInv, IInv, OnlyParty
<1>5. WellFormed(memoryBlocks', memory_size')
  BY <1>1, <1>2, FreshPool
<1>6. memoryBlocks' \in Seq(BlockType)
  BY <1>5 DEF WellFormed, Layout
<1>7. TestTypeOK'
  <2>1. TypeOK'
    BY DEF IInv
  <2>2. memory_size' \in MemorySizes \cup {0} /\ at' \in [Threads -> Labels]
    BY <1>1, <1>3, AtBeginning
  <2>3. cycle' \in [Threads -> 0 .. Cycles] /\ block' \in [Threads -> Nat \cup {NULL}]
    BY <1>3, AtBeginning
  <2> QED  BY <1>6, <2>1, <2>2, <2>3 DEF TestTypeOK
<1>8. HandedOut(memoryBlocks') = {}
  <2> PICK b : b = Block(0, size, FALSE)
    OBVIOUS
  <2>1. ~b.isUsed
    BY DEF Block
  <2>2. DOMAIN <<b>> = {1} /\ <<b>>[1] = b
    OBVIOUS
  <2>3. HandedOut(<<b>>) = {}
    BY <2>1, <2>2 DEF HandedOut
  <2> QED  BY <1>1, <2>3
<1>9. PoolLaidOut' /\ PoolSized' /\ Owned'
  BY <1>1, <1>2, <1>3, <1>5, <1>8 DEF PoolLaidOut, PoolSized, Owned
<1>10. Stages'
  <2> SUFFICES ASSUME NEW t \in Threads
               PROVE  /\ block'[t] = NULL /\ pc'[t] = "outside"
                      /\ IF at'[t] = "return" THEN cycle'[t] = Cycles ELSE cycle'[t] < Cycles
    BY DEF Stages
  <2>1. at'[t] = Begins(t) /\ cycle'[t] = 0 /\ block'[t] = NULL
    BY <1>3
  <2> QED  BY <1>4, <2>1, AtBeginning
<1>11. KeepsPace'
  <2> SUFFICES ASSUME NEW t \in party' PROVE entered'[t] = 2 * cycle'[t] + Waits(t)'
    BY DEF KeepsPace
  <2>1. t \in Threads
    BY <1>3
  <2>2. entered'[t] = 0 /\ cycle'[t] = 0 /\ at'[t] = Begins(t)
    BY <1>3, <2>1
  <2>3. Waits(t)' = 0
    BY <2>2 DEF Waits, Begins, Top
  <2> QED  BY <2>2, <2>3
<1>12. FillsInEvenRounds'
  <2>1. PICK most : most = Unit' * 3
    OBVIOUS
  <2>2. Holders' = {}
    BY <1>3 DEF Holders
  <2>3. Cardinality(Holders') = 0
    BY <2>2, FS_EmptySet
  <2>4. Unit' \in Nat
    <3>1. num_threads' = Cardinality(party') /\ IsFiniteSet(party')
      BY <1>3, FS_Subset, BarrierAssumption DEF start, my_barrier_init
    <3>2. num_threads' \in Nat \ {0}
      BY <1>3, <3>1, FS_CardinalityType, FS_EmptySet
    <3> PICK n : n = num_threads'
      OBVIOUS
    <3> PICK m : m = memory_size'
      OBVIOUS
    <3>3. m \div (n * 3) \in Nat
      <4>1. n \in Nat \ {0} /\ m \in Nat
        BY <1>1, <1>2, <3>2
      <4> QED  BY ONLY <4>1
    <3> QED  BY <3>3 DEF Unit
  <2>5. most \in Nat
    <3> PICK unit : unit = Unit'
      OBVIOUS
    <3>1. most = unit * 3 /\ unit \in Nat
      BY <2>1, <2>4
    <3> QED  BY ONLY <3>1
  <2>6. Fills(memoryBlocks', most, 0)
    BY <1>1, <1>2, <2>5, FillsFresh
  <2> QED  BY <2>1, <2>3, <2>6 DEF FillsInEvenRounds
<1> QED  BY <1>7, <1>9, <1>10, <1>11, <1>12 DEF TestInv

LEMMA finish_Sound ==
  ASSUME TestInv, IInv', finish
  PROVE  TestInv'
<1>1. /\ party' = {} /\ memoryBlocks' = <<>> /\ memory_size' = 0
      /\ UNCHANGED <<at, cycle, block, pc>>
  BY DEF finish, my_barrier_destroy
<1>2. TestTypeOK'
  <2>1. TypeOK'
    BY DEF IInv
  <2> QED  BY <1>1, <2>1, EmptySeq DEF TestInv, TestTypeOK
<1>3. PoolLaidOut' /\ PoolSized' /\ Owned'
  BY <1>1 DEF PoolLaidOut, PoolSized, Owned, HandedOut
<1>4. Stages'
  BY <1>1 DEF TestInv, Stages, AfterFirstWait, Top
<1>5. KeepsPace' /\ FillsInEvenRounds'
  BY <1>1 DEF KeepsPace, FillsInEvenRounds
<1> QED  BY <1>2, <1>3, <1>4, <1>5 DEF TestInv

-----------------------------------------------------------------------------
(* The steps. *)

(* A thread that is not in my_barrier_wait has passed as many barriers as it *)
(* has come to; it has come to one of the two of its cycle in odd rounds.    *)
LEMMA RoundOf ==
  ASSUME TestInv, ~surprised, NEW t \in party, pc[t] = "outside"
  PROVE  /\ Passed(t) = entered[t] /\ entered[t] = 2 * cycle[t] + Waits(t)
         /\ Even(Passed(t)) <=> Waits(t) = 0
<1>1. Passed(t) = entered[t] /\ cycle[t] \in Nat
  BY OfThread
<1>2. entered[t] = 2 * cycle[t] + Waits(t)
  BY DEF TestInv, KeepsPace
<1>3. Waits(t) \in {0, 1}
  BY DEF Waits
<1> PICK c : c = cycle[t]
  OBVIOUS
<1>4. Even(2 * c) /\ ~Even(2 * c + 1) /\ 2 * c + 0 = 2 * c
  BY <1>1, EvenOrOdd
<1>5. CASE Waits(t) = 0
  BY <1>1, <1>2, <1>4, <1>5
<1>6. CASE Waits(t) = 1
  BY <1>1, <1>2, <1>4, <1>6
<1> QED  BY <1>1, <1>2, <1>3, <1>5, <1>6

(* All threads are in the same round. *)
LEMMA SameRound ==
  ASSUME TestInv, ~surprised, NEW t \in party, NEW u \in party
  PROVE  Passed(t) = Passed(u)
BY DEF TestInv, IInv, Together

(* A thread that has nothing adds itself to those that hold a block. *)
LEMMA OneMoreHolder ==
  ASSUME TestInv, NEW t \in party, block[t] = NULL
  PROVE  /\ Cardinality(Holders) \in Nat
         /\ Cardinality(Holders \cup {t}) = Cardinality(Holders) + 1
         /\ Cardinality(Holders) + 1 <= Cardinality(party)
<1>1. IsFiniteSet(party) /\ Cardinality(party) \in Nat
  BY PartyFinite DEF TestInv, IInv
<1>2. Holders \subseteq party /\ t \notin Holders /\ Holders \cup {t} \subseteq party
  BY DEF Holders
<1>3. IsFiniteSet(Holders) /\ Cardinality(Holders) \in Nat
  BY <1>1, <1>2, FS_Subset, FS_CardinalityType
<1>4. Cardinality(Holders \cup {t}) = Cardinality(Holders) + 1
  BY <1>2, <1>3, FS_AddElement
<1>5. Cardinality(Holders \cup {t}) <= Cardinality(party)
  BY <1>1, <1>2, FS_Subset
<1> QED  BY <1>3, <1>4, <1>5

(* A thread that allocates in an even round is an even one, and the last     *)
(* block, the only free one, has room for it.                                *)
LEMMA RoomInEvenRound ==
  ASSUME TestInv, ~surprised, NEW t \in party, pc[t] = "outside", at[t] = "allocate",
         Even(Passed(t)), NEW most, most = Unit * 3, NEW holding, holding = Cardinality(Holders),
         NEW bs, bs = memoryBlocks, NEW size, size = block_size(t)
  PROVE  /\ Even(t) /\ most \in Nat /\ holding \in Nat /\ bs \in Seq(BlockType)
         /\ Cardinality(Holders \cup {t}) = holding + 1
         /\ Fills(bs, most, holding)
         /\ size \in Nat /\ size <= most
         /\ size > 0 => /\ FirstFit(bs, size) = {Len(bs)}
                        /\ ~bs[Len(bs)].isUsed /\ size <= bs[Len(bs)].size
<1>1. t \in Threads /\ party # {}
  BY OfThread
<1>2. Even(t)
  <2>1. Waits(t) = 0
    BY RoundOf
  <2>2. ~Even(t) => Waits(t) = 1
    BY DEF Waits
  <2> QED  BY <2>1, <2>2
<1>3. block[t] = NULL
  BY <1>1 DEF TestInv, Stages
<1>4. /\ memory_size \in Nat /\ num_threads = Cardinality(party)
      /\ num_threads \in Nat \ {0} /\ Unit \in Nat /\ most * num_threads <= memory_size
      /\ size \in Nat /\ size <= most
  BY <1>1, BlockSizes
<1> PICK total : total = memory_size
  OBVIOUS
<1> PICK n : n = num_threads
  OBVIOUS
<1>5. most \in Nat
  <2> PICK unit : unit = Unit
    OBVIOUS
  <2>1. unit \in Nat /\ most = unit * 3
    BY <1>4
  <2> QED  BY ONLY <2>1
<1>6. /\ holding \in Nat /\ holding + 1 <= n
      /\ Cardinality(Holders \cup {t}) = holding + 1
  BY <1>3, <1>4, OneMoreHolder
<1>7. most * (holding + 1) <= total
  <2>1. holding + 1 \in Nat /\ n \in Nat /\ most * n <= total /\ total \in Nat
    BY <1>4, <1>6
  <2>2. most * (holding + 1) <= most * n /\ most * (holding + 1) \in Nat
    BY ONLY <1>5, <1>6, <2>1, MultiplesInOrder
  <2>3. most * n \in Nat
    BY ONLY <1>5, <2>1, MultiplesInOrder
  <2> QED  BY ONLY <2>1, <2>2, <2>3
<1>8. WellFormed(bs, total)
  BY <1>1 DEF TestInv, PoolLaidOut
<1>9. bs \in Seq(BlockType)
  BY <1>8 DEF WellFormed, Layout
<1>10. Fills(bs, most, holding)
  BY DEF TestInv, FillsInEvenRounds
<1>11. total \in Nat
  BY <1>4
<1>12. ASSUME size > 0
       PROVE  FirstFit(bs, size) = {Len(bs)} /\ ~bs[Len(bs)].isUsed /\ size <= bs[Len(bs)].size
  <2>1. size \in Nat \ {0} /\ size <= most
    BY <1>4, <1>12
  <2> QED  BY ONLY <1>5, <1>6, <1>7, <1>8, <1>10, <1>11, <2>1, RoomForOneMore
<1> QED  BY <1>2, <1>4, <1>5, <1>6, <1>9, <1>10, <1>12

(* allocate: what it does to the pool, ... *)
LEMMA allocate_Pool ==
  ASSUME TestInv, NEW t \in party, allocate(t)
  PROVE  /\ PoolLaidOut' /\ PoolSized' /\ Owned'
         /\ memoryBlocks' \in Seq(BlockType)
         /\ block' \in [Threads -> Nat \cup {NULL}]
         /\ \A u \in Threads : u # t => block'[u] = block[u]
<1>1. t \in Threads /\ party # {} /\ block \in [Threads -> Nat \cup {NULL}]
  BY OfThread DEF TestInv, TestTypeOK
<1>2. at[t] = "allocate" /\ UNCHANGED <<party, memory_size>> /\ party' = party
  BY DEF allocate, vars
<1>3. block[t] = NULL
  BY <1>1, <1>2 DEF TestInv, Stages
<1> PICK bs : bs = memoryBlocks
  OBVIOUS
<1> PICK total : total = memory_size
  OBVIOUS
<1> PICK size : size = block_size(t)
  OBVIOUS
<1>4. WellFormed(bs, total) /\ total \in Nat /\ size \in Nat /\ total # 0
  BY <1>1, BlockSizes DEF TestInv, PoolLaidOut
<1>5. bs \in Seq(BlockType)
  BY <1>4 DEF WellFormed, Layout
<1>6. \A b \in HandedOut(bs) : b.startAdress \in Nat
  BY <1>5, UsedBlocksTyped
<1>7. ASSUME NEW b \in HandedOut(bs), \A u \in Threads : u # t => block'[u] = block[u]
      PROVE  \E u \in party' : block'[u] = b.startAdress
  <2>1. PICK u \in party : block[u] = b.startAdress
    BY DEF TestInv, Owned
  <2>2. u # t /\ u \in Threads
    BY <1>3, <1>6, <2>1, NullAssumption, OfThread
  <2> QED  BY <1>2, <1>7, <2>1, <2>2
<1>8. CASE size = 0 /\ block' = [block EXCEPT ![t] = 0] /\ memoryBlocks' = bs
  <2>1. block' \in [Threads -> Nat \cup {NULL}] /\ \A u \in Threads : u # t => block'[u] = block[u]
    BY <1>1, <1>8
  <2>2. Owned'
    BY <1>7, <1>8, <2>1 DEF Owned
  <2> QED  BY <1>1, <1>2, <1>4, <1>5, <1>8, <2>1, <2>2 DEF PoolLaidOut, PoolSized
<1>9. CASE size > 0 /\ \E i \in FirstFit(bs, size) :
                  /\ memoryBlocks' = Carve(bs, i, size)
                  /\ block' = [block EXCEPT ![t] = bs[i].startAdress]
  <2>1. PICK i \in FirstFit(bs, size) :
                  /\ memoryBlocks' = Carve(bs, i, size)
                  /\ block' = [block EXCEPT ![t] = bs[i].startAdress]
    BY <1>9
  <2>2. i \in DOMAIN bs
    BY <2>1 DEF FirstFit
  <2>3. bs[i].startAdress \in Nat
    BY <1>5, <2>2, BlocksTyped
  <2> PICK cut : cut = Carve(bs, i, size)
    OBVIOUS
  <2>4. WellFormed(cut, total)
    <3>1. size \in Nat \ {0}
      BY <1>4, <1>9
    <3> QED  BY ONLY <1>4, <3>1, i \in FirstFit(bs, size), cut = Carve(bs, i, size), CarveWellFormed
  <2>5. cut \in Seq(BlockType)
    BY <2>4 DEF WellFormed, Layout
  <2>6. block' \in [Threads -> Nat \cup {NULL}] /\ \A u \in Threads : u # t => block'[u] = block[u]
    BY <1>1, <2>1, <2>3
  <2> PICK new : new = Block(bs[i].startAdress, size, TRUE)
    OBVIOUS
  <2>7. HandedOut(cut) = HandedOut(bs) \cup {new}
    BY ONLY <1>4, <1>5, i \in FirstFit(bs, size), cut = Carve(bs, i, size),
            new = Block(bs[i].startAdress, size, TRUE), CarveUsed
  <2>8. new.startAdress = bs[i].startAdress
    BY DEF Block
  <2>9. block'[t] = new.startAdress /\ t \in party'
    BY <1>1, <1>2, <2>1, <2>8
  <2>10. Owned'
    <3> SUFFICES ASSUME NEW b \in HandedOut(cut) PROVE \E u \in party' : block'[u] = b.startAdress
      BY <2>1 DEF Owned
    <3>1. CASE b = new
      BY <2>9, <3>1
    <3>2. CASE b # new
      BY <1>7, <2>6, <2>7, <3>2
    <3> QED  BY <3>1, <3>2
  <2> QED  BY <1>1, <1>2, <1>4, <2>1, <2>4, <2>5, <2>6, <2>10 DEF PoolLaidOut, PoolSized
<1>10. CASE memoryBlocks' = bs /\ block' = block
  <2>1. block' \in [Threads -> Nat \cup {NULL}] /\ \A u \in Threads : u # t => block'[u] = block[u]
    BY <1>1, <1>10
  <2>2. Owned'
    BY <1>7, <1>10, <2>1 DEF Owned
  <2> QED  BY <1>1, <1>2, <1>4, <1>5, <1>10, <2>1, <2>2 DEF PoolLaidOut, PoolSized
<1> QED  BY <1>8, <1>9, <1>10 DEF allocate

(* A thread goes round its loop, with nothing in its hands. *)
LEMMA RoundAgainKeepsStages ==
  ASSUME TestInv, NEW t \in Threads, at[t] # "return", RoundAgain(t),
         \A u \in Threads : u # t => block'[u] = block[u] /\ pc'[u] = pc[u],
         block'[t] = NULL
  PROVE  /\ at' \in [Threads -> Labels] /\ cycle' \in [Threads -> 0 .. Cycles]
         /\ Stages'
<1>1. at \in [Threads -> Labels] /\ cycle \in [Threads -> 0 .. Cycles]
  BY DEF TestInv, TestTypeOK
<1>2. Cycles \in Nat /\ cycle[t] \in Nat /\ cycle[t] < Cycles
  <2>1. Cycles \in Nat /\ cycle[t] \in 0 .. Cycles
    BY <1>1, ThreadsAreNumbers
  <2>2. cycle[t] < Cycles
    BY DEF TestInv, Stages
  <2> QED  BY <2>1, <2>2
<1> PICK label : label = IF cycle[t] + 1 = Cycles THEN "return" ELSE Top(t)
  OBVIOUS
<1>3. /\ cycle' = [cycle EXCEPT ![t] = cycle[t] + 1] /\ at' = [at EXCEPT ![t] = label]
  BY DEF RoundAgain
<1>4. label \in Labels /\ label \in {"return", Top(t)} /\ Top(t) # "return"
  BY AtTop DEF Labels
<1>5. /\ cycle[t] + 1 \in 0 .. Cycles
      /\ label = "return" => cycle[t] + 1 = Cycles
      /\ label # "return" => cycle[t] + 1 < Cycles
  <2>1. label = "return" => cycle[t] + 1 = Cycles
    BY <1>4
  <2>2. label # "return" => cycle[t] + 1 # Cycles
    OBVIOUS
  <2>3. /\ cycle[t] + 1 \in 0 .. Cycles
        /\ cycle[t] + 1 # Cycles => cycle[t] + 1 < Cycles
    BY ONLY <1>2
  <2> QED  BY <2>1, <2>2, <2>3
<1>6. at' \in [Threads -> Labels] /\ cycle' \in [Threads -> 0 .. Cycles]
  BY <1>1, <1>3, <1>4, <1>5
<1>7. Stages'
  <2> SUFFICES ASSUME NEW u \in Threads
               PROVE  /\ at'[u] \in {"allocate", "second wait", "return"} => block'[u] = NULL
                      /\ ~Even(u) /\ at'[u] = "first wait" => block'[u] = NULL
                      /\ IF at'[u] = "return" THEN cycle'[u] = Cycles ELSE cycle'[u] < Cycles
                      /\ pc'[u] # "outside" => at'[u] \in {AfterFirstWait(u), Top(u), "return"}
    BY DEF Stages, AfterFirstWait, Top
  <2>1. CASE u = t
    <3>1. at'[u] = label /\ cycle'[u] = cycle[t] + 1
      BY <1>1, <1>3, <2>1
    <3> QED  BY <1>4, <1>5, <2>1, <3>1
  <2>2. CASE u # t
    <3>1. at'[u] = at[u] /\ cycle'[u] = cycle[u] /\ block'[u] = block[u] /\ pc'[u] = pc[u]
      BY <1>1, <1>3, <2>2
    <3> QED  BY <3>1 DEF TestInv, Stages
  <2> QED  BY <2>1, <2>2
<1> QED  BY <1>6, <1>7

(* ... to the thread, ... *)
LEMMA allocate_Thread ==
  ASSUME TestInv, NEW t \in party, allocate(t)
  PROVE  /\ at' \in [Threads -> Labels] /\ cycle' \in [Threads -> 0 .. Cycles]
         /\ Stages'
<1>1. /\ t \in Threads /\ pc[t] = "outside" /\ at[t] = "allocate" /\ pc' = pc
      /\ at \in [Threads -> Labels] /\ cycle \in [Threads -> 0 .. Cycles]
  BY OfThread DEF allocate, vars, TestInv, TestTypeOK
<1>2. \A u \in Threads : u # t => block'[u] = block[u]
  BY allocate_Pool
<1>3. CASE Even(t) /\ block'[t] = NULL
  BY <1>1, <1>2, <1>3, RoundAgainKeepsStages DEF allocate
<1>4. CASE ~(Even(t) /\ block'[t] = NULL)
  <2>1. PICK label : label = IF Even(t) THEN "first wait"
                             ELSE IF block'[t] = NULL THEN "second wait" ELSE "free"
    OBVIOUS
  <2>2. at' = [at EXCEPT ![t] = label] /\ cycle' = cycle
    BY <1>4, <2>1 DEF allocate
  <2>3. label \in Labels /\ label # "return" /\ label # "allocate"
    BY <2>1 DEF Labels
  <2>4. at' \in [Threads -> Labels] /\ cycle' \in [Threads -> 0 .. Cycles]
    BY <1>1, <2>2, <2>3
  <2>5. cycle[t] < Cycles
    BY <1>1 DEF TestInv, Stages
  <2> SUFFICES ASSUME NEW u \in Threads
               PROVE  /\ at'[u] \in {"allocate", "second wait", "return"} => block'[u] = NULL
                      /\ ~Even(u) /\ at'[u] = "first wait" => block'[u] = NULL
                      /\ IF at'[u] = "return" THEN cycle'[u] = Cycles ELSE cycle'[u] < Cycles
                      /\ pc'[u] # "outside" => at'[u] \in {AfterFirstWait(u), Top(u), "return"}
    BY <2>4 DEF Stages, AfterFirstWait, Top
  <2>6. CASE u = t
    BY <1>1, <2>1, <2>2, <2>3, <2>5, <2>6
  <2>7. CASE u # t
    <3>1. at'[u] = at[u] /\ cycle'[u] = cycle[u] /\ block'[u] = block[u] /\ pc'[u] = pc[u]
      BY <1>1, <1>2, <2>2, <2>7
    <3> QED  BY <3>1 DEF TestInv, Stages
  <2> QED  BY <2>6, <2>7
<1> QED  BY <1>3, <1>4

(* ... and, as long as nobody has been woken unasked, to the round. *)
LEMMA allocate_Round ==
  ASSUME TestInv, NEW t \in party, allocate(t), ~surprised
  PROVE  KeepsPace' /\ FillsInEvenRounds'
<1>1. /\ t \in Threads /\ pc[t] = "outside" /\ at[t] = "allocate" /\ block[t] = NULL
      /\ at \in [Threads -> Labels] /\ cycle \in [Threads -> 0 .. Cycles]
      /\ block \in [Threads -> Nat \cup {NULL}]
  BY OfThread DEF allocate, TestInv, TestTypeOK, Stages
<1>2. UNCHANGED <<party, num_threads, pc, entered, left, memory_size>>
  BY DEF allocate, vars
<1>3. \A u \in party : u \in Threads
  BY OfThread
<1>4. \A u \in Threads : u # t => block'[u] = block[u]
  BY allocate_Pool
<1>5. Even(t) <=> Even(Passed(t))
  <2>1. Waits(t) = IF Even(t) THEN 0 ELSE 1
    BY <1>1 DEF Waits
  <2> QED  BY <1>1, <2>1, RoundOf
<1> PICK most : most = Unit * 3
  OBVIOUS
<1> PICK holding : holding = Cardinality(Holders)
  OBVIOUS
<1> PICK bs : bs = memoryBlocks
  OBVIOUS
<1> PICK size : size = block_size(t)
  OBVIOUS
<1>6. ASSUME Even(Passed(t))
      PROVE  /\ most \in Nat /\ holding \in Nat /\ bs \in Seq(BlockType)
             /\ Cardinality(Holders \cup {t}) = holding + 1
             /\ Fills(bs, most, holding) /\ size \in Nat /\ size <= most
             /\ size > 0 => /\ FirstFit(bs, size) = {Len(bs)}
                            /\ ~bs[Len(bs)].isUsed /\ size <= bs[Len(bs)].size
  BY <1>1, <1>6, RoomInEvenRound
<1>7. Even(t) => block'[t] # NULL
  <2> SUFFICES ASSUME Even(t) PROVE block'[t] # NULL
    OBVIOUS
  <2>1. 0 # NULL /\ \A a \in Nat : a # NULL
    BY NullAssumption
  <2>2. \A i \in DOMAIN bs : bs[i].startAdress \in Nat
    BY <1>5, <1>6, BlocksTyped
  <2>3. size > 0 => FirstFit(bs, size) # {}
    BY <1>5, <1>6
  <2>4. \A i \in FirstFit(bs, size) : bs[i].startAdress # NULL
    BY <2>1, <2>2 DEF FirstFit
  <2>5. CASE block' = [block EXCEPT ![t] = 0]
    BY <1>1, <2>1, <2>5
  <2>6. CASE \E i \in FirstFit(bs, size) : block' = [block EXCEPT ![t] = bs[i].startAdress]
    BY <1>1, <2>4, <2>6
  <2>7. CASE size > 0 /\ FirstFit(bs, size) = {}
    BY <2>3, <2>7
  <2> QED  BY <2>5, <2>6, <2>7 DEF allocate
<1>8. KeepsPace'
  <2>1. /\ cycle' = cycle
        /\ at' = [at EXCEPT ![t] = IF Even(t) THEN "first wait"
                                   ELSE IF block'[t] = NULL THEN "second wait" ELSE "free"]
    BY <1>7 DEF allocate
  <2>2. Waits(t)' = Waits(t)
    BY <1>1, <2>1 DEF Waits
  <2> SUFFICES ASSUME NEW u \in party PROVE entered'[u] = 2 * cycle'[u] + Waits(u)'
    BY <1>2 DEF KeepsPace
  <2>3. u # t => Waits(u)' = Waits(u)
    BY <1>1, <1>3, <2>1 DEF Waits
  <2>4. entered[u] = 2 * cycle[u] + Waits(u)
    BY DEF TestInv, KeepsPace
  <2> QED  BY <1>2, <2>1, <2>2, <2>3, <2>4
<1>9. FillsInEvenRounds'
  <2> SUFFICES ASSUME NEW u \in party, Even(Passed(u)')
               PROVE  Fills(memoryBlocks', Unit' * 3, Cardinality(Holders'))
    BY <1>2 DEF FillsInEvenRounds
  <2>1. Passed(u)' = Passed(t)
    <3>1. Passed(u)' = Passed(u)
      BY <1>2 DEF Passed
    <3> QED  BY <3>1, SameRound
  <2>2. Even(t)
    BY <1>5, <2>1
  <2>3. Holders' = Holders \cup {t}
    BY <1>2, <1>3, <1>4, <1>7, <2>2 DEF Holders
  <2>4. Unit' = Unit
    BY <1>2 DEF Unit
  <2>5. /\ most \in Nat /\ holding \in Nat /\ bs \in Seq(BlockType)
        /\ Cardinality(Holders') = holding + 1 /\ Unit' * 3 = most
        /\ Fills(bs, most, holding) /\ size \in Nat /\ size <= most
        /\ size > 0 => /\ FirstFit(bs, size) = {Len(bs)}
                       /\ ~bs[Len(bs)].isUsed /\ size <= bs[Len(bs)].size
    BY <1>5, <1>6, <2>2, <2>3, <2>4
  <2>6. CASE memoryBlocks' = bs
    <3>1. Fills(bs, most, holding + 1)
      BY ONLY <2>5, FillsWithMoreHolders
    <3> QED  BY <2>5, <2>6, <3>1
  <2>7. CASE size > 0 /\ \E i \in FirstFit(bs, size) : memoryBlocks' = Carve(bs, i, size)
    <3>1. memoryBlocks' = Carve(bs, Len(bs), size)
      BY <2>5, <2>7
    <3> PICK total : total = memory_size
      OBVIOUS
    <3>2. total \in Nat /\ WellFormed(bs, total)
      BY <1>3, BlockSizes DEF TestInv, PoolLaidOut
    <3>3. size \in Nat \ {0} /\ ~bs[Len(bs)].isUsed /\ size <= bs[Len(bs)].size
      BY <2>5, <2>7
    <3>4. Fills(Carve(bs, Len(bs), size), most, holding + 1)
      BY ONLY <2>5, <3>2, <3>3, FillsAfterCarve
    <3> QED  BY <2>5, <3>1, <3>4
  <2> QED  BY <2>6, <2>7 DEF allocate
<1> QED  BY <1>8, <1>9

LEMMA allocate_Sound ==
  ASSUME TestInv, IInv', NEW t \in party, allocate(t)
  PROVE  TestInv'
<1>1. /\ PoolLaidOut' /\ PoolSized' /\ Owned' /\ memoryBlocks' \in Seq(BlockType)
      /\ block' \in [Threads -> Nat \cup {NULL}]
  BY allocate_Pool
<1>2. /\ at' \in [Threads -> Labels] /\ cycle' \in [Threads -> 0 .. Cycles] /\ Stages'
  BY allocate_Thread
<1>3. TestTypeOK'
  <2>1. TypeOK' /\ memory_size' \in MemorySizes \cup {0}
    BY DEF IInv, allocate, TestInv, TestTypeOK
  <2> QED  BY <1>1, <1>2, <2>1 DEF TestTypeOK
<1>4. ~surprised' => KeepsPace' /\ FillsInEvenRounds'
  <2>1. surprised' = surprised
    BY DEF allocate, vars
  <2> QED  BY <2>1, allocate_Round
<1> QED  BY <1>1, <1>2, <1>3, <1>4 DEF TestInv

LEMMA free_Sound ==
  ASSUME TestInv, IInv', NEW t \in party, free(t)
  PROVE  TestInv'
<1>1. /\ t \in Threads /\ party # {} /\ pc[t] = "outside" /\ at[t] = "free"
      /\ at \in [Threads -> Labels] /\ block \in [Threads -> Nat \cup {NULL}]
  BY OfThread DEF free, TestInv, TestTypeOK
<1>2. /\ UNCHANGED <<party, num_threads, pc, entered, left, surprised, memory_size, cycle>>
      /\ memoryBlocks' = AfterFree(memoryBlocks, block[t])
      /\ block' = [block EXCEPT ![t] = NULL] /\ at' = [at EXCEPT ![t] = "second wait"]
  BY DEF free, vars
<1> PICK bs : bs = memoryBlocks
  OBVIOUS
<1> PICK total : total = memory_size
  OBVIOUS
<1> PICK p : p = block[t]
  OBVIOUS
<1> PICK after : after = AfterFree(bs, p)
  OBVIOUS
<1>3. WellFormed(bs, total) /\ total \in Nat /\ total # 0
  BY <1>1, BlockSizes DEF TestInv, PoolLaidOut
<1>4. WellFormed(after, total) /\ HandedOut(after) = {b \in HandedOut(bs) : b.startAdress # p}
  BY ONLY <1>3, after = AfterFree(bs, p), AfterFreeWellFormed, AfterFreeUsed
<1>5. after \in Seq(BlockType)
  BY <1>4 DEF WellFormed, Layout
<1>6. TestTypeOK'
  <2>1. TypeOK' /\ memory_size' \in MemorySizes \cup {0} /\ cycle' \in [Threads -> 0 .. Cycles]
    BY <1>2 DEF IInv, TestInv, TestTypeOK
  <2>2. block' \in [Threads -> Nat \cup {NULL}] /\ at' \in [Threads -> Labels]
    BY <1>1, <1>2 DEF Labels
  <2> QED  BY <1>2, <1>5, <2>1, <2>2 DEF TestTypeOK
<1>7. PoolLaidOut' /\ PoolSized'
  BY <1>1, <1>2, <1>3, <1>4 DEF PoolLaidOut, PoolSized
<1>8. Owned'
  <2> SUFFICES ASSUME NEW b \in HandedOut(after) PROVE \E u \in party' : block'[u] = b.startAdress
    BY <1>2 DEF Owned
  <2>1. b \in HandedOut(bs) /\ b.startAdress # p
    BY <1>4
  <2>2. PICK u \in party : block[u] = b.startAdress
    BY <2>1 DEF TestInv, Owned
  <2>3. u # t /\ u \in Threads
    BY <2>1, <2>2, OfThread
  <2> QED  BY <1>1, <1>2, <2>2, <2>3
<1>9. Stages'
  <2> SUFFICES ASSUME NEW u \in Threads
               PROVE  /\ at'[u] \in {"allocate", "second wait", "return"} => block'[u] = NULL
                      /\ ~Even(u) /\ at'[u] = "first wait" => block'[u] = NULL
                      /\ IF at'[u] = "return" THEN cycle'[u] = Cycles ELSE cycle'[u] < Cycles
                      /\ pc'[u] # "outside" => at'[u] \in {AfterFirstWait(u), Top(u), "return"}
    BY DEF Stages, AfterFirstWait, Top
  <2>1. CASE u = t
    <3>1. cycle[t] < Cycles
      BY <1>1 DEF TestInv, Stages
    <3> QED  BY <1>1, <1>2, <2>1, <3>1
  <2>2. CASE u # t
    <3>1. at'[u] = at[u] /\ cycle'[u] = cycle[u] /\ block'[u] = block[u] /\ pc'[u] = pc[u]
      BY <1>1, <1>2, <2>2
    <3> QED  BY <3>1 DEF TestInv, Stages
  <2> QED  BY <2>1, <2>2
<1>10. ASSUME ~surprised' PROVE KeepsPace' /\ FillsInEvenRounds'
  <2>1. ~surprised
    BY <1>2, <1>10
  <2>2. Waits(t) = 1 /\ Waits(t)' = 1
    BY <1>1, <1>2 DEF Waits
  <2>3. \A u \in party : Waits(u)' = Waits(u)
    <3> SUFFICES ASSUME NEW u \in party, u # t PROVE Waits(u)' = Waits(u)
      BY <2>2
    <3>1. at'[u] = at[u]
      BY <1>1, <1>2, OfThread
    <3> QED  BY <3>1 DEF Waits
  <2>4. KeepsPace'
    BY <1>2, <2>1, <2>3 DEF TestInv, KeepsPace
  <2>5. ~Even(Passed(t))
    BY <1>1, <2>1, <2>2, RoundOf
  <2>6. \A u \in party : Passed(u)' = Passed(t)
    <3> SUFFICES ASSUME NEW u \in party PROVE Passed(u)' = Passed(t)
      OBVIOUS
    <3>1. Passed(u)' = Passed(u)
      BY <1>2 DEF Passed
    <3> QED  BY <2>1, <3>1, SameRound
  <2>7. FillsInEvenRounds'
    BY <1>2, <2>5, <2>6 DEF FillsInEvenRounds
  <2> QED  BY <2>4, <2>7
<1> QED  BY <1>6, <1>7, <1>8, <1>9, <1>10 DEF TestInv

(* Threads keep their rounds when they keep what they have passed. *)
LEMMA RoundsKept ==
  ASSUME TestInv, UNCHANGED <<party, num_threads, memoryBlocks, memory_size, block>>,
         \A u \in party : Passed(u)' = Passed(u), FillsInEvenRounds
  PROVE  FillsInEvenRounds'
<1>1. Holders' = Holders /\ Unit' = Unit
  BY DEF Holders, Unit
<1> QED  BY <1>1 DEF FillsInEvenRounds

LEMMA wait_Sound ==
  ASSUME TestInv, IInv', NEW t \in party, wait(t)
  PROVE  TestInv'
<1>1. /\ t \in Threads /\ pc[t] = "outside" /\ pc' = [pc EXCEPT ![t] = "lock"]
      /\ entered' = [entered EXCEPT ![t] = @ + 1]
      /\ UNCHANGED <<party, num_threads, left, surprised, memoryBlocks, memory_size, block>>
  BY OfThread DEF wait, my_barrier_wait, Goto
<1>2. /\ at \in [Threads -> Labels] /\ cycle \in [Threads -> 0 .. Cycles]
      /\ entered \in [Threads -> Nat] /\ TypeOK
      /\ pc \in [Threads -> {"outside", "lock", "arrive", "asleep", "wake", "unlock"}]
  BY DEF TestInv, TestTypeOK, TypeOK
<1>3. PoolLaidOut' /\ PoolSized' /\ Owned'
  BY <1>1, PoolKept
<1>4. /\ at' \in [Threads -> Labels] /\ cycle' \in [Threads -> 0 .. Cycles] /\ Stages'
  <2>1. CASE at[t] = "first wait"
    <3>1. at' = [at EXCEPT ![t] = AfterFirstWait(t)] /\ cycle' = cycle
      BY <2>1 DEF wait
    <3>2. AfterFirstWait(t) \in {"free", "allocate"} /\ (~Even(t) => AfterFirstWait(t) = "allocate")
          /\ (Even(t) => AfterFirstWait(t) = "free")
      BY DEF AfterFirstWait
    <3>3. at' \in [Threads -> Labels]
      BY <1>2, <3>1, <3>2 DEF Labels
    <3> SUFFICES ASSUME NEW u \in Threads
                 PROVE  /\ at'[u] \in {"allocate", "second wait", "return"} => block'[u] = NULL
                        /\ ~Even(u) /\ at'[u] = "first wait" => block'[u] = NULL
                        /\ IF at'[u] = "return" THEN cycle'[u] = Cycles ELSE cycle'[u] < Cycles
                        /\ pc'[u] # "outside" => at'[u] \in {AfterFirstWait(u), Top(u), "return"}
      BY <1>2, <3>1, <3>3 DEF Stages, AfterFirstWait, Top
    <3>4. CASE u = t
      <4>1. cycle[t] < Cycles /\ (~Even(t) => block[t] = NULL)
        BY <1>1, <2>1 DEF TestInv, Stages
      <4>2. at'[t] = AfterFirstWait(t)
        BY <1>1, <1>2, <3>1
      <4> QED  BY <1>1, <3>1, <3>2, <3>4, <4>1, <4>2
    <3>5. CASE u # t
      <4>1. at'[u] = at[u] /\ cycle'[u] = cycle[u] /\ block'[u] = block[u] /\ pc'[u] = pc[u]
        BY <1>1, <1>2, <3>1, <3>5
      <4> QED  BY <4>1 DEF TestInv, Stages
    <3> QED  BY <3>4, <3>5
  <2>2. CASE at[t] = "second wait" /\ RoundAgain(t)
    <3>1. block'[t] = NULL /\ \A u \in Threads : u # t => block'[u] = block[u] /\ pc'[u] = pc[u]
      BY <1>1, <1>2, <2>2 DEF TestInv, Stages
    <3>2. at[t] # "return"
      BY <2>2
    <3> QED  BY <1>1, <2>2, <3>1, <3>2, RoundAgainKeepsStages
  <2> QED  BY <2>1, <2>2 DEF wait
<1>5. TestTypeOK'
  <2>1. TypeOK' /\ memory_size' \in MemorySizes \cup {0} /\ memoryBlocks' \in Seq(BlockType)
        /\ block' \in [Threads -> Nat \cup {NULL}]
    BY <1>1 DEF IInv, TestInv, TestTypeOK
  <2> QED  BY <1>4, <2>1 DEF TestTypeOK
<1>6. ASSUME ~surprised' PROVE KeepsPace' /\ FillsInEvenRounds'
  <2>1. ~surprised
    BY <1>1, <1>6
  <2>2. FillsInEvenRounds'
    <3>1. \A u \in party : Passed(u)' = Passed(u)
      BY <1>1, <1>2, OfThread DEF Passed
    <3> QED  BY <1>1, <2>1, <3>1, RoundsKept DEF TestInv
  <2>3. entered[t] = 2 * cycle[t] + Waits(t) /\ cycle[t] \in Nat
    BY <2>1, OfThread DEF TestInv, KeepsPace
  <2>4. entered'[t] = 2 * cycle'[t] + Waits(t)'
    <3>1. entered'[t] = entered[t] + 1
      BY <1>1, <1>2
    <3>2. CASE at[t] = "first wait"
      <4>1. at'[t] = AfterFirstWait(t) /\ cycle' = cycle
        BY <1>1, <1>2, <3>2 DEF wait
      <4>2. Waits(t) = 0
        BY <3>2 DEF Waits
      <4>3. Waits(t)' = 1
        BY <4>1 DEF Waits, AfterFirstWait
      <4> QED  BY <2>3, <3>1, <4>1, <4>2, <4>3
    <3>3. CASE at[t] = "second wait" /\ RoundAgain(t)
      <4>1. Waits(t) = 1
        BY <3>3 DEF Waits
      <4>2. cycle'[t] = cycle[t] + 1 /\ at'[t] \in {"return", Top(t)}
        BY <1>1, <1>2, <3>3 DEF RoundAgain
      <4>3. Waits(t)' = 0
        BY <4>2 DEF Waits, Top
      <4> PICK c : c = cycle[t]
        OBVIOUS
      <4>4. 2 * (c + 1) = 2 * c + 1 + 1
        <5>1. c \in Nat
          BY <2>3
        <5> QED  BY ONLY <5>1
      <4> QED  BY <2>3, <3>1, <4>1, <4>2, <4>3, <4>4
    <3> QED  BY <3>2, <3>3 DEF wait
  <2>5. ASSUME NEW u \in party, u # t PROVE entered'[u] = 2 * cycle'[u] + Waits(u)'
    <3>1. u \in Threads /\ entered[u] = 2 * cycle[u] + Waits(u)
      BY <2>1, OfThread DEF TestInv, KeepsPace
    <3>2. at'[u] = at[u] /\ cycle'[u] = cycle[u]
      BY <1>1, <1>2, <2>5, <3>1 DEF wait, RoundAgain
    <3>3. Waits(u)' = Waits(u)
      BY <3>2 DEF Waits
    <3> QED  BY <1>1, <1>2, <2>5, <3>1, <3>2, <3>3
  <2>6. KeepsPace'
    BY <1>1, <2>4, <2>5 DEF KeepsPace
  <2> QED  BY <2>2, <2>6
<1> QED  BY <1>3, <1>4, <1>5, <1>6 DEF TestInv

(* When nobody has a block the pool is one free block again. *)
LEMMA NothingHeld ==
  ASSUME TestInv, party # {}, \A t \in party : block[t] = NULL
  PROVE  memoryBlocks = <<Block(0, memory_size, FALSE)>>
<1> PICK bs : bs = memoryBlocks
  OBVIOUS
<1> PICK total : total = memory_size
  OBVIOUS
<1>1. WellFormed(bs, total) /\ total \in Nat
  BY BlockSizes DEF TestInv, PoolLaidOut
<1>2. bs \in Seq(BlockType)
  BY <1>1 DEF WellFormed, Layout
<1>3. HandedOut(bs) = {}
  <2> SUFFICES ASSUME NEW b \in HandedOut(bs) PROVE FALSE
    OBVIOUS
  <2>1. b.startAdress \in Nat
    BY <1>2, UsedBlocksTyped
  <2>2. PICK t \in party : block[t] = b.startAdress
    BY DEF TestInv, Owned
  <2> QED  BY <2>1, <2>2, NullAssumption
<1>4. bs = <<Block(0, total, FALSE)>>
  BY ONLY <1>1, <1>3, WholePool
<1> QED  BY <1>4

(* The last thread to come opens an even round on a pool that is whole. *)
LEMMA EvenRoundBegins ==
  ASSUME TestInv, NEW t \in party, ~surprised, pc[t] = "arrive",
         \A u \in party : u = t \/ pc[u] = "asleep",
         NEW u \in party, Even(left[u] + 1)
  PROVE  \A v \in party : block[v] = NULL
<1>1. \A v \in party : left[v] = left[u]
  <2> SUFFICES ASSUME NEW v \in party PROVE left[v] = left[u]
    OBVIOUS
  <2>1. Passed(v) = left[v] /\ Passed(u) = left[u]
    BY DEF Passed
  <2> QED  BY <2>1, SameRound
<1> SUFFICES ASSUME NEW v \in party PROVE block[v] = NULL
  OBVIOUS
<1>2. v \in Threads /\ pc[v] # "outside" /\ cycle[v] \in Nat
  BY OfThread
<1>3. entered[v] = left[u] + 1 /\ entered[v] = 2 * cycle[v] + Waits(v)
  <2>1. entered[v] = left[v] + 1
    BY <1>2, OfThread
  <2>2. entered[v] = 2 * cycle[v] + Waits(v)
    BY DEF TestInv, KeepsPace
  <2> QED  BY <1>1, <2>1, <2>2
<1>4. Waits(v) = 0
  <2> PICK c : c = cycle[v]
    OBVIOUS
  <2>1. ~Even(2 * c + 1)
    BY <1>2, EvenOrOdd
  <2>2. Waits(v) \in {0, 1}
    BY DEF Waits
  <2> QED  BY <1>3, <2>1, <2>2
<1>5. at[v] \in {AfterFirstWait(v), Top(v), "return"}
  BY <1>2 DEF TestInv, Stages
<1>6. at[v] # "free" /\ at[v] # "second wait" /\ (at[v] = "allocate" => Even(v))
  <2>1. /\ at[v] \in {"free", "second wait"} => Waits(v) = 1
        /\ ~Even(v) /\ at[v] = "allocate" => Waits(v) = 1
    BY DEF Waits
  <2>2. Waits(v) # 1
    BY <1>4
  <2> QED  BY <2>1, <2>2
<1>7. at[v] \in {"allocate", "return"} \/ (~Even(v) /\ at[v] = "first wait")
  BY <1>5, <1>6 DEF AfterFirstWait, Top
<1> QED  BY <1>2, <1>7 DEF TestInv, Stages

(* The barrier's own steps. *)
LEMMA inside_Sound ==
  ASSUME TestInv, IInv', NEW t \in party, inside(t)
  PROVE  TestInv'
<1>1. /\ t \in Threads
      /\ lock(t) \/ arrive(t) \/ wake(t) \/ unlock(t)
      /\ UNCHANGED <<memoryBlocks, memory_size, at, cycle, block>>
  BY OfThread DEF inside, test
<1>2. UNCHANGED <<party, num_threads, entered, surprised>>
  BY <1>1 DEF lock, arrive, wake, unlock
<1>3. /\ pc \in [Threads -> {"outside", "lock", "arrive", "asleep", "wake", "unlock"}]
      /\ left \in [Threads -> Nat]
  BY DEF TestInv, TestTypeOK, TypeOK
<1>4. TestTypeOK'
  <2>1. TypeOK'
    BY DEF IInv
  <2> QED  BY <1>1, <2>1 DEF TestInv, TestTypeOK
<1>5. PoolLaidOut' /\ PoolSized' /\ Owned'
  BY <1>1, <1>2, PoolKept
<1>6. Stages'
  <2>1. \A u \in Threads : pc'[u] # "outside" => pc[u] # "outside"
    <3>1. CASE lock(t)
      BY <1>1, <1>3, <3>1 DEF lock, Goto
    <3>2. CASE arrive(t)
      BY <1>1, <1>3, <3>2 DEF arrive, broadcast, Goto
    <3>3. CASE wake(t)
      BY <1>1, <1>3, <3>3 DEF wake, Goto
    <3>4. CASE unlock(t)
      BY <1>1, <1>3, <3>4 DEF unlock, Goto
    <3> QED  BY <1>1, <3>1, <3>2, <3>3, <3>4
  <2> QED  BY <1>1, <2>1 DEF TestInv, Stages, AfterFirstWait, Top
<1>7. ASSUME ~surprised' PROVE KeepsPace' /\ FillsInEvenRounds'
  <2>1. ~surprised
    BY <1>2, <1>7
  <2>2. KeepsPace'
    BY <1>1, <1>2, <2>1 DEF TestInv, KeepsPace, Waits
  <2>3. ASSUME arrive(t), IsLast PROVE FillsInEvenRounds'
    <3>1. pc[t] = "arrive" /\ broadcast(t) /\ UNCHANGED left
      BY <2>3 DEF arrive
    <3>2. \A u \in party : u = t \/ pc[u] = "asleep"
      BY <2>1, <2>3, <3>1, LastFindsAllAsleep DEF TestInv
    <3> SUFFICES ASSUME NEW u \in party, Even(Passed(u)')
                 PROVE  Fills(memoryBlocks', Unit' * 3, Cardinality(Holders'))
      BY <1>2 DEF FillsInEvenRounds
    <3>3. Passed(u)' = left[u] + 1
      BY <1>1, <1>3, <3>1, <3>2, OfThread DEF Passed, broadcast
    <3>4. \A v \in party : block[v] = NULL
      BY <2>1, <3>1, <3>2, <3>3, EvenRoundBegins
    <3> PICK total : total = memory_size
      OBVIOUS
    <3> PICK most : most = Unit * 3
      OBVIOUS
    <3>5. memoryBlocks' = <<Block(0, total, FALSE)>>
      BY <1>1, <3>4, NothingHeld
    <3>6. Holders' = {} /\ Unit' * 3 = most
      BY <1>1, <1>2, <3>4 DEF Holders, Unit
    <3>7. total \in Nat /\ most \in Nat
      <4> PICK unit : unit = Unit
        OBVIOUS
      <4>1. total \in Nat /\ unit \in Nat /\ most = unit * 3
        BY BlockSizes
      <4> QED  BY ONLY <4>1
    <3>8. Fills(<<Block(0, total, FALSE)>>, most, 0)
      BY <3>7, FillsFresh
    <3>9. Cardinality(Holders') = 0
      BY <3>6, FS_EmptySet
    <3> QED  BY <3>5, <3>6, <3>8, <3>9
  <2>4. ASSUME ~(arrive(t) /\ IsLast) PROVE FillsInEvenRounds'
    <3>1. \A u \in party : Passed(u)' = Passed(u)
      <4>1. CASE lock(t)
        BY <1>1, <1>3, <4>1, OfThread DEF lock, Goto, Passed
      <4>2. CASE arrive(t)
        BY <1>1, <1>3, <2>4, <4>2, OfThread DEF arrive, Goto, Passed
      <4>3. CASE wake(t)
        BY <1>1, <1>3, <4>3, OfThread DEF wake, Goto, Passed
      <4>4. CASE unlock(t)
        BY <1>1, <1>3, <4>4, OfThread DEF unlock, Goto, Passed
      <4> QED  BY <1>1, <4>1, <4>2, <4>3, <4>4
    <3> QED  BY <1>1, <1>2, <2>1, <3>1, RoundsKept DEF TestInv
  <2> QED  BY <2>2, <2>3, <2>4
<1> QED  BY <1>4, <1>5, <1>6, <1>7 DEF TestInv

LEMMA wake_spuriously_Sound ==
  ASSUME TestInv, IInv', NEW t \in party, wake_spuriously(t), UNCHANGED test
  PROVE  TestInv'
<1>1. /\ UNCHANGED <<memoryBlocks, memory_size, at, cycle, block, party>>
      /\ pc[t] = "asleep" /\ pc' = [pc EXCEPT ![t] = "wake"] /\ surprised'
  BY DEF test, wake_spuriously, Goto
<1>2. TestTypeOK'
  <2>1. TypeOK'
    BY DEF IInv
  <2> QED  BY <1>1, <2>1 DEF TestInv, TestTypeOK
<1>3. PoolLaidOut' /\ PoolSized' /\ Owned'
  BY <1>1, PoolKept
<1>4. Stages'
  <2>1. \A u \in Threads : pc'[u] # "outside" => pc[u] # "outside"
    BY <1>1 DEF TestInv, TestTypeOK, TypeOK
  <2> QED  BY <1>1, <2>1 DEF TestInv, Stages, AfterFirstWait, Top
<1> QED  BY <1>1, <1>2, <1>3, <1>4 DEF TestInv

LEMMA TestStutterSound ==
  ASSUME TestInv, IInv', UNCHANGED <<vars, test>>
  PROVE  TestInv'
<1>1. /\ UNCHANGED <<memoryBlocks, memory_size, at, cycle, block>>
      /\ UNCHANGED <<party, num_threads, pc, entered, left, surprised>>
  BY DEF test, vars
<1>2. TestTypeOK'
  <2>1. TypeOK'
    BY DEF IInv
  <2> QED  BY <1>1, <2>1 DEF TestInv, TestTypeOK
<1>3. PoolLaidOut' /\ PoolSized' /\ Owned'
  BY <1>1, PoolKept
<1>4. Stages'
  BY <1>1 DEF TestInv, Stages, AfterFirstWait, Top
<1>5. ASSUME ~surprised' PROVE KeepsPace' /\ FillsInEvenRounds'
  <2>1. KeepsPace'
    BY <1>1, <1>5 DEF TestInv, KeepsPace, Waits
  <2>2. \A u \in party : Passed(u)' = Passed(u)
    BY <1>1 DEF Passed
  <2> QED  BY <1>1, <1>5, <2>1, <2>2, RoundsKept DEF TestInv
<1> QED  BY <1>2, <1>3, <1>4, <1>5 DEF TestInv

LEMMA TestStepSound == TestInv /\ [TestNext]_<<vars, test>> => TestInv'
<1> SUFFICES ASSUME TestInv, [TestNext]_<<vars, test>> PROVE TestInv'
  OBVIOUS
<1>1. IInv'
  BY TestStepIsBarrierStep, StepSound DEF TestInv
<1>2. CASE start
  BY <1>1, <1>2, start_Sound
<1>3. CASE finish
  BY <1>1, <1>3, finish_Sound
<1>4. ASSUME NEW t \in party, Going(t) PROVE TestInv'
  BY <1>1, <1>4, allocate_Sound, free_Sound, wait_Sound, inside_Sound DEF Going
<1>5. ASSUME NEW t \in party, wake_spuriously(t), UNCHANGED test PROVE TestInv'
  BY <1>1, <1>5, wake_spuriously_Sound
<1>6. CASE UNCHANGED <<vars, test>>
  BY <1>1, <1>6, TestStutterSound
<1> QED  BY <1>2, <1>3, <1>4, <1>5, <1>6 DEF TestNext

(* The inductive invariant: the blocks are the threads', and as long as      *)
(* nobody is woken unasked the threads keep pace with the barrier and the    *)
(* pool of an even round fills up without a hole.                            *)
THEOREM TestSound == TestSpec => []TestInv
  BY TestInitSound, TestStepSound, PTL DEF TestSpec

-----------------------------------------------------------------------------
(* The variables of the test have their types: nobody runs more cycles than  *)
(* it should, wakeups unasked or not.                                        *)
THEOREM TypeCorrect == TestSpec => []TestTypeOK
<1>1. TestInv => TestTypeOK
  BY DEF TestInv
<1> QED  BY <1>1, TestSound, PTL

(* Whatever order the threads allocate and free in, for any number of them,  *)
(* the pool is one free block when all have freed.                           *)
THEOREM EverythingComesBack == TestSpec => []PoolIsWholeAgain
<1>1. TestInv => PoolIsWholeAgain
  BY NothingHeld DEF PoolIsWholeAgain
<1> QED  BY <1>1, TestSound, PTL

(* "Adjust factor if necessary to prevent over-allocation": the factor is    *)
(* right for any number of threads and any size of pool, so no even thread   *)
(* misses a barrier the others wait at.                                      *)
THEOREM EverybodyKeepsPace == TestSpec => []NobodySkipsBarrier
<1>1. TestInv => NobodySkipsBarrier
  BY DEF TestInv, KeepsPace, Waits, NobodySkipsBarrier
<1> QED  BY <1>1, TestSound, PTL

(* While an odd thread has a block, no even thread is allocating or has a    *)
(* block it has not yet come to the barrier with.                            *)
THEOREM PhasesAlternate == TestSpec => []PhasesKeptApart
<1>1. TestInv => PhasesKeptApart
  <2> SUFFICES ASSUME TestInv, ~surprised, NEW t \in party, NEW u \in party,
                      Even(t), ~Even(u), block[u] # NULL, pc[t] = "outside",
                      at[t] \in {"allocate", "first wait"}
               PROVE  FALSE
    BY DEF PhasesKeptApart
  <2>1. Waits(t) = 0
    BY DEF Waits
  <2>2. Even(Passed(t))
    BY <2>1, RoundOf
  <2>3. u \in Threads /\ at[u] \in Labels
    BY OfThread
  <2>4. at[u] = "free"
    BY <2>3 DEF TestInv, Stages, Labels
  <2>5. pc[u] = "outside"
    BY <2>3, <2>4 DEF TestInv, Stages, AfterFirstWait, Top
  <2>6. Waits(u) # 0
    <3>1. Waits(u) = 1
      BY <2>4 DEF Waits
    <3> QED  BY ONLY <3>1
  <2>7. ~Even(Passed(u))
    BY <2>5, <2>6, RoundOf
  <2> QED  BY <2>2, <2>7, SameRound
<1> QED  BY <1>1, TestSound, PTL
=============================================================================

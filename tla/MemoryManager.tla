---------------------------- MODULE MemoryManager ----------------------------
(***************************************************************************)
(* memory_manager.c called by one thread, one call after another, with any *)
(* arguments.  A step is a whole call, with every call it makes itself.    *)
(* The C heap below it (malloc for the pool and the array, realloc for the *)
(* array) may refuse at any request.  ThreadedPool looks inside the calls. *)
(***************************************************************************)
EXTENDS MemoryBlocks

CONSTANTS PoolSizes,   \* the sizes mem_init is called with
          Sizes,       \* the sizes mem_alloc and mem_resize are called with
          Addrs,       \* the addresses callers pass, as offsets
          NULL

ASSUME ArgumentAssumption ==
  PoolSizes \subseteq Nat /\ Sizes \subseteq Nat /\ Addrs \subseteq Nat

ASSUME NullAssumption == NULL \notin Int

VARIABLES memPoolStart,   \* 0 or NULL
          memPoolSize,
          memoryBlocks,   \* its length is memoryBlocksSize
          lock,           \* where recursiveLock is in its life
          crashed,        \* the process has died inside a call
          call            \* the last call: its arguments and what it did

vars == <<memPoolStart, memPoolSize, memoryBlocks, lock, crashed, call>>

Ops == {"start", "mem_init", "mem_deinit", "mem_alloc", "mem_free", "mem_resize"}

(* A mutex in static storage is all zeroes until mem_init sets it up. *)
LockStates == {"zeroed", "initialised", "destroyed"}

(* What the C heap answered, if the call asked it for anything. *)
Answers == {"granted", "refused"}

CallType ==
  [op : Ops, ptr : Nat \cup {NULL}, size : Nat,
   ret : Nat \cup {NULL}, moved : Nat, heap : Answers]

TypeOK ==
  /\ memPoolStart \in {0, NULL}
  /\ memPoolSize \in Nat
  /\ memoryBlocks \in Seq(BlockType)
  /\ lock \in LockStates
  /\ crashed \in BOOLEAN
  /\ call \in CallType

Did(op, p, size, ret, moved, heap) ==
  call' = [op |-> op, ptr |-> p, size |-> size,
           ret |-> ret, moved |-> moved, heap |-> heap]

Init ==
  /\ memPoolStart = NULL
  /\ memPoolSize = 0
  /\ memoryBlocks = <<>>
  /\ lock = "zeroed"
  /\ crashed = FALSE
  /\ call = [op |-> "start", ptr |-> NULL, size |-> 0,
             ret |-> NULL, moved |-> 0, heap |-> "granted"]

-----------------------------------------------------------------------------
(* A pool that is open is closed first.  When malloc has no pool to give,  *)
(* mem_init returns with no pool and no lock; when it has a pool but no    *)
(* array, the first entry is written through a null pointer.               *)
mem_init(size) ==
  LET closed == IF memPoolStart = NULL THEN lock ELSE "destroyed"
  IN  /\ memPoolSize' = size
      /\ \/ /\ memPoolStart' = 0
            /\ memoryBlocks' = <<Block(0, size, FALSE)>>
            /\ lock' = "initialised"
            /\ crashed' = FALSE
            /\ Did("mem_init", NULL, size, NULL, 0, "granted")
         \/ /\ memPoolStart' = NULL
            /\ memoryBlocks' = <<>>
            /\ lock' = closed
            /\ crashed' = FALSE
            /\ Did("mem_init", NULL, size, NULL, 0, "refused")
         \/ /\ memPoolStart' = 0
            /\ memoryBlocks' = <<>>
            /\ lock' = closed
            /\ crashed' = TRUE
            /\ Did("mem_init", NULL, size, NULL, 0, "refused")

(* Mutation of mem_deinit: the lock is not destroyed. *)
mem_deinit_KeepingLock ==
  /\ Did("mem_deinit", NULL, 0, NULL, 0, "granted")
  /\ UNCHANGED <<crashed, lock>>
  /\ memPoolStart' = NULL
  /\ memPoolSize' = 0
  /\ memoryBlocks' = <<>>

mem_deinit ==
  /\ Did("mem_deinit", NULL, 0, NULL, 0, "granted")
  /\ UNCHANGED crashed
  /\ \/ /\ memPoolStart = NULL
        /\ UNCHANGED <<memPoolStart, memPoolSize, memoryBlocks, lock>>
     \/ /\ memPoolStart # NULL
        /\ memPoolStart' = NULL
        /\ memPoolSize' = 0
        /\ memoryBlocks' = <<>>
        /\ lock' = "destroyed"

-----------------------------------------------------------------------------
(* What mem_alloc(size) can leave behind and return, from the array bs.    *)
(* Only a split asks the heap for anything; when the heap refuses, the     *)
(* mark on the block is taken back.                                        *)
Outcome(bs, p, heap) == [blocks |-> bs, ptr |-> p, heap |-> heap]

AllocOutcomes(bs, size) ==
  IF size = 0 THEN {Outcome(bs, memPoolStart, "granted")}
  ELSE IF FirstFit(bs, size) = {} THEN {Outcome(bs, NULL, "granted")}
  ELSE {Outcome(Carve(bs, i, size), bs[i].startAdress, "granted") : i \in FirstFit(bs, size)}
       \cup
       {Outcome(bs, NULL, "refused") : i \in {j \in FirstFit(bs, size) : bs[j].size # size}}

mem_alloc(size) ==
  /\ \E out \in AllocOutcomes(memoryBlocks, size) :
        /\ memoryBlocks' = out.blocks
        /\ Did("mem_alloc", NULL, size, out.ptr, 0, out.heap)
  /\ UNCHANGED <<memPoolStart, memPoolSize, lock, crashed>>

mem_free(p) ==
  /\ memoryBlocks' = AfterFree(memoryBlocks, p)
  /\ Did("mem_free", p, 0, NULL, 0, "granted")
  /\ UNCHANGED <<memPoolStart, memPoolSize, lock, crashed>>

-----------------------------------------------------------------------------
(* mem_resize, by the way it takes. *)

(* NULL, or no block starts at p. *)
ResizeUnknown(p, size) ==
  /\ LastAt(memoryBlocks, p) = {}
  /\ Did("mem_resize", p, size, NULL, 0, "granted")
  /\ UNCHANGED <<memoryBlocks, crashed>>

ResizeSame(i, p, size) ==
  /\ memoryBlocks[i].size = size
  /\ Did("mem_resize", p, size, p, 0, "granted")
  /\ UNCHANGED <<memoryBlocks, crashed>>

Grows(i, size)   == memoryBlocks[i].size < size
Shrinks(i, size) == size < memoryBlocks[i].size

ResizeInPlace(i, p, size) ==
  /\ Grows(i, size)
  /\ CanGrowRight(memoryBlocks, i, size)
  /\ memoryBlocks' = GrowRight(memoryBlocks, i, size)
  /\ Did("mem_resize", p, size, p, 0, "granted")
  /\ UNCHANGED crashed

(* The block is freed first and allocated anew, to grow over the free block *)
(* on its left and to shrink.  Nobody looks whether mem_alloc succeeded: an *)
(* answer of NULL goes to memmove as the destination.                       *)
ResizeByFreeing(i, p, size) ==
  /\ \/ /\ Grows(i, size)
        /\ ~CanGrowRight(memoryBlocks, i, size)
        /\ size <= Available(memoryBlocks, i)
     \/ Shrinks(i, size)
  /\ \E out \in AllocOutcomes(AfterFree(memoryBlocks, p), size) :
        LET copied == IF Shrinks(i, size) THEN size ELSE memoryBlocks[i].size
        IN  /\ memoryBlocks' = out.blocks
            /\ crashed' = (out.ptr = NULL)
            /\ Did("mem_resize", p, size, out.ptr,
                   IF out.ptr \in {p, NULL} THEN 0 ELSE copied, out.heap)

(* Mutation of ResizeElsewhere: as many bytes are copied as the new block   *)
(* has, which is more than the old one had.                                 *)
ResizeElsewhereOverreading(i, p, size) ==
  /\ Grows(i, size)
  /\ ~CanGrowRight(memoryBlocks, i, size)
  /\ Available(memoryBlocks, i) < size
  /\ \E out \in AllocOutcomes(memoryBlocks, size) :
        /\ memoryBlocks' = IF out.ptr = NULL THEN out.blocks ELSE AfterFree(out.blocks, p)
        /\ Did("mem_resize", p, size, out.ptr,
               IF out.ptr = NULL THEN 0 ELSE size, out.heap)
  /\ UNCHANGED crashed

(* The old block stays until its bytes are copied to the new one. *)
ResizeElsewhere(i, p, size) ==
  /\ Grows(i, size)
  /\ ~CanGrowRight(memoryBlocks, i, size)
  /\ Available(memoryBlocks, i) < size
  /\ \E out \in AllocOutcomes(memoryBlocks, size) :
        /\ memoryBlocks' = IF out.ptr = NULL THEN out.blocks ELSE AfterFree(out.blocks, p)
        /\ Did("mem_resize", p, size, out.ptr,
               IF out.ptr = NULL THEN 0 ELSE memoryBlocks[i].size, out.heap)
  /\ UNCHANGED crashed

mem_resize(p, size) ==
  /\ \/ ResizeUnknown(p, size)
     \/ \E i \in LastAt(memoryBlocks, p) :
           \/ ResizeSame(i, p, size)
           \/ ResizeInPlace(i, p, size)
           \/ ResizeByFreeing(i, p, size)
           \/ ResizeElsewhere(i, p, size)
  /\ UNCHANGED <<memPoolStart, memPoolSize, lock>>

-----------------------------------------------------------------------------
Next ==
  /\ ~crashed
  /\ \/ \E size \in PoolSizes : mem_init(size)
     \/ mem_deinit
     \/ \E size \in Sizes : mem_alloc(size)
     \/ \E p \in Addrs \cup {NULL} : mem_free(p)
     \/ \E p \in Addrs \cup {NULL}, size \in Sizes : mem_resize(p, size)

Spec == Init /\ [][Next]_vars

-----------------------------------------------------------------------------
(* The blocks cover the pool exactly, whatever sequence of splits, joins,  *)
(* moves and refused requests led here: mem_alloc, mem_free and mem_resize *)
(* lose no byte of the pool and hand out none twice.                       *)
PoolTiled ==
  crashed \/ IF memPoolStart = NULL THEN memoryBlocks = <<>>
             ELSE Tiles(memoryBlocks, memPoolSize)

(* "There are never two free blocks next to eachother" (header of           *)
(* memory_manager.c): the claim on which mem_resize's arithmetic relies.    *)
NoAdjacentFree == Coalesced(memoryBlocks)

(* mem_free frees the first block that starts at an address, mem_resize     *)
(* measures the last one: no call may leave an empty block in front of      *)
(* another, or they would work on different blocks.                         *)
SearchesAgree ==
  \A p \in {memoryBlocks[i].startAdress : i \in DOMAIN memoryBlocks} :
     FirstAt(memoryBlocks, p) = LastAt(memoryBlocks, p)

(* The lock is usable exactly while there is a pool, also when mem_init      *)
(* replaces a pool, when it gets no memory for one and when mem_deinit is    *)
(* called twice.                                                             *)
LockMatchesPool == crashed \/ (lock = "initialised" <=> memPoolStart # NULL)

(* Seen from outside the calls do what PoolAllocator says: NULL only when   *)
(* no place fits, the lowest place otherwise, the right number of bytes     *)
(* moved along, and no live block but the argument disturbed.               *)
UsedIn(bs) == {i \in DOMAIN bs : bs[i].isUsed}

LiveIn(bs) ==
  [a \in {bs[i].startAdress : i \in UsedIn(bs)} |->
     bs[CHOOSE i \in UsedIn(bs) : bs[i].startAdress = a].size]

Caller == INSTANCE PoolAllocator
            WITH pool <- IF memPoolStart = NULL THEN NULL ELSE memPoolSize,
                 live <- LiveIn(memoryBlocks)

ImplementsPoolAllocator == Caller!Spec

(* "We know that the mem_alloc will work as we have checked that there is a *)
(* space large enough" (mem_resize): resizing a live block never goes on     *)
(* with a block that was freed and not got back.                             *)
ResizeGetsItsBlock ==
  [][\A p \in DOMAIN LiveIn(memoryBlocks) :
        call'.op = "mem_resize" /\ call'.ptr = p => ~crashed']_vars
=============================================================================

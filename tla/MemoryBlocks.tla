---------------------------- MODULE MemoryBlocks ----------------------------
(***************************************************************************)
(* The array "memoryBlocks" of memory_manager.c as a sequence of records,  *)
(* and what the loops of mem_alloc, mem_free and mem_resize do to it.  An  *)
(* address is an offset from memPoolStart, a size a number of bytes.       *)
(* Sizes need no width: every sum the code forms is a sum of sizes of      *)
(* distinct blocks of one pool, hence at most the pool's own size.         *)
(* Positions count from 1 here and from 0 in the code.                     *)
(***************************************************************************)
EXTENDS Integers, SequencesExt

(* A memoryBlock: where it starts, how long it is, whether it is handed out. *)
Block(start, size, used) ==
  [startAdress |-> start, size |-> size, isUsed |-> used]

BlockType == [startAdress : Nat, size : Nat, isUsed : BOOLEAN]

-----------------------------------------------------------------------------
(* The search loops.  Each yields a set that is empty or has one position. *)

(* mem_free stops at the first block that starts at p ... *)
FirstAt(bs, p) ==
  {i \in DOMAIN bs : /\ bs[i].startAdress = p
                     /\ \A j \in DOMAIN bs : bs[j].startAdress = p => i <= j}

(* ... and mem_resize, which has no break, keeps the last one. *)
LastAt(bs, p) ==
  {i \in DOMAIN bs : /\ bs[i].startAdress = p
                     /\ \A j \in DOMAIN bs : bs[j].startAdress = p => j <= i}

(* Mutation of Fits: a block in use is taken as well. *)
FitsInUse(bs, i, size) == size <= bs[i].size

Fits(bs, i, size) == ~bs[i].isUsed /\ size <= bs[i].size

(* mem_alloc takes the leftmost free block that is large enough. *)
FirstFit(bs, size) ==
  {i \in DOMAIN bs : /\ Fits(bs, i, size)
                     /\ \A j \in DOMAIN bs : Fits(bs, j, size) => i <= j}

-----------------------------------------------------------------------------
(* The updates. *)

(* Mutation of Carve: the bytes left over belong to no block. *)
CarveDroppingRest(bs, i, size) ==
  [bs EXCEPT ![i] = Block(bs[i].startAdress, size, TRUE)]

(* mem_alloc marks block i used and, unless it fits exactly, shifts the     *)
(* blocks right of it by one and makes a free block of the bytes left over. *)
Carve(bs, i, size) ==
  IF bs[i].size = size
  THEN [bs EXCEPT ![i] = Block(bs[i].startAdress, size, TRUE)]
  ELSE InsertAt([bs EXCEPT ![i] = Block(bs[i].startAdress, size, TRUE)],
                i + 1,
                Block(bs[i].startAdress + size, bs[i].size - size, FALSE))

(* Block i takes over the bytes of block i + 1, whose entry is overwritten *)
(* by shifting the rest of the array to the left.                          *)
Absorb(bs, i) ==
  RemoveAt([bs EXCEPT ![i] = Block(bs[i].startAdress,
                                   bs[i].size + bs[i+1].size,
                                   bs[i].isUsed)],
           i + 1)

FreeBefore(bs, i) == i > 1 /\ ~bs[i-1].isUsed
FreeAfter(bs, i)  == i < Len(bs) /\ ~bs[i+1].isUsed

(* mem_free clears the mark of block i, joins it to a free block on its     *)
(* left and then joins the result to a free block on its right.             *)
JoinLeft(bs, i)  == IF FreeBefore(bs, i) THEN Absorb(bs, i - 1) ELSE bs
JoinRight(bs, i) == IF FreeAfter(bs, i) THEN Absorb(bs, i) ELSE bs

Unmark(bs, i) == [bs EXCEPT ![i] = Block(bs[i].startAdress, bs[i].size, FALSE)]

(* Mutation of Release: the free block on the right is forgotten. *)
ReleaseJoiningLeftOnly(bs, i) == JoinLeft(Unmark(bs, i), i)

Release(bs, i) ==
  JoinRight(JoinLeft(Unmark(bs, i), i),
            IF FreeBefore(bs, i) THEN i - 1 ELSE i)

(* mem_free as a whole: NULL, an address no block starts at and a block     *)
(* that is already free leave the array as it is.                           *)
AfterFree(bs, p) ==
  IF \E i \in FirstAt(bs, p) : bs[i].isUsed
  THEN Release(bs, CHOOSE i \in FirstAt(bs, p) : TRUE)
  ELSE bs

(* mem_resize lets block i grow over the free block on its right, which it  *)
(* shortens, or removes when nothing is left of it.                         *)
CanGrowRight(bs, i, size) ==
  FreeAfter(bs, i) /\ size <= bs[i+1].size + bs[i].size

(* Mutations of GrowRight: the neighbour is left behind without bytes, and  *)
(* the bytes block i had already are not counted.                           *)
GrowRightKeepingEmpty(bs, i, size) ==
  [bs EXCEPT ![i]   = Block(bs[i].startAdress, size, bs[i].isUsed),
             ![i+1] = Block(bs[i].startAdress + size,
                            bs[i+1].size + bs[i].size - size, FALSE)]

GrowRightMiscounting(bs, i, size) ==
  LET rest  == bs[i+1].size - size
      grown == [bs EXCEPT ![i]   = Block(bs[i].startAdress, size, bs[i].isUsed),
                          ![i+1] = Block(bs[i].startAdress + size, rest, FALSE)]
  IN  IF rest = 0 THEN RemoveAt(grown, i + 1) ELSE grown

GrowRight(bs, i, size) ==
  LET rest  == bs[i+1].size + bs[i].size - size
      grown == [bs EXCEPT ![i]   = Block(bs[i].startAdress, size, bs[i].isUsed),
                          ![i+1] = Block(bs[i].startAdress + size, rest, FALSE)]
  IN  IF rest = 0 THEN RemoveAt(grown, i + 1) ELSE grown

(* mem_resize's availvble_size: the right neighbour counts only when the    *)
(* left one is free.                                                        *)
Available(bs, i) ==
  bs[i].size + IF ~FreeBefore(bs, i) THEN 0
               ELSE bs[i-1].size + IF FreeAfter(bs, i) THEN bs[i+1].size ELSE 0

-----------------------------------------------------------------------------
(* What the array must always look like. *)

(* The blocks cover the pool from its first byte to its last, in order and  *)
(* without a gap or an overlap.                                             *)
Tiles(bs, total) ==
  /\ bs # <<>>
  /\ bs[1].startAdress = 0
  /\ \A i \in DOMAIN bs : i < Len(bs) =>
        bs[i+1].startAdress = bs[i].startAdress + bs[i].size
  /\ bs[Len(bs)].startAdress + bs[Len(bs)].size = total

(* No two neighbours are both free. *)
Coalesced(bs) ==
  \A i \in DOMAIN bs : i < Len(bs) => bs[i].isUsed \/ bs[i+1].isUsed

(* Only the single block of an empty pool has no bytes. *)
NoEmptyBlock(bs) == \A i \in DOMAIN bs : bs[i].size > 0 \/ Len(bs) = 1
=============================================================================

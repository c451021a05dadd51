------------------------- MODULE ThreadedPoolProofs -------------------------
(***************************************************************************)
(* ThreadedPool for any number of threads and calls and any size of pool:  *)
(* the pool stays tiled, and as long as realloc does not fail the lock     *)
(* discipline and the block array, whose each block and byte is, and that  *)
(* every call is one call of MemoryManager.                                *)
(***************************************************************************)
EXTENDS ThreadedPool, MemoryBlocksProofs

InAlloc  == {"alloc_lock", "alloc_body", "alloc_undo", "alloc_unlock"}
InFree   == {"free_lock", "free_body", "free_unlock"}
InResize == {"resize_body", "resize_move", "resize_unlock"}

(* Which call a thread is in, at each label.  No thread has a mark to take  *)
(* back: realloc does not fail.                                             *)
JobFits(t) ==
  /\ pc[t] # "alloc_undo"
  /\ pc[t] \in {"idle", "fill"} => job[t].op = "none"
  /\ pc[t] \in InAlloc => job[t].op \in {"mem_alloc", "mem_resize"}
  /\ pc[t] \in InFree => job[t].op \in {"mem_free", "mem_resize"}
  /\ pc[t] \in InResize \cup {"resize_lock"} => job[t].op = "mem_resize"
  /\ pc[t] # "idle" => job[t].slot \in Slots

(* What memmove is going to read lies in the pool. *)
ReadsInPool(j) ==
  /\ j.was.ptr \in Nat
  /\ j.was.ptr + j.old <= PoolSize
  /\ j.way = "shrinking" => j.size <= j.old

CopyFits(t) ==
  job[t].op = "mem_resize" /\ pc[t] \in InAlloc \cup InFree \cup {"resize_move"}
    => ReadsInPool(job[t])

IInv ==
  /\ TypeOK
  /\ \A t \in Threads : JobFits(t) /\ CopyFits(t)
  /\ LockCountsNesting
  /\ WellFormed(memoryBlocks, PoolSize)

-----------------------------------------------------------------------------
(* A step that leaves the lock alone, takes it or gives it back.  The other *)
(* threads' labels and calls stay.                                          *)
LEMMA LockUntouched ==
  ASSUME TypeOK, LockCountsNesting, NEW t \in Threads,
         NEW label, pc' = [pc EXCEPT ![t] = label],
         NEW j, job' = [job EXCEPT ![t] = j],
         UNCHANGED <<owner, depth>>, Nesting(t)' = Nesting(t)
  PROVE  LockCountsNesting'
<1>0. owner' = NULL => depth' = 0
  BY NullAssumption DEF LockCountsNesting
<1> SUFFICES ASSUME NEW u \in Threads
             PROVE  Nesting(u)' = IF owner' = u THEN depth' ELSE 0
  BY <1>0 DEF LockCountsNesting
<1>1. u # t => pc'[u] = pc[u] /\ job'[u] = job[u]
  BY DEF TypeOK
<1>2. Nesting(u)' = Nesting(u)
  BY <1>1 DEF Nesting
<1> QED  BY <1>2 DEF LockCountsNesting

LEMMA LockTaken ==
  ASSUME TypeOK, LockCountsNesting, NEW t \in Threads, owner \in {t, NULL},
         NEW label, pc' = [pc EXCEPT ![t] = label],
         NEW j, job' = [job EXCEPT ![t] = j],
         owner' = t, depth' = depth + 1, Nesting(t)' = Nesting(t) + 1
  PROVE  LockCountsNesting'
<1>0. owner' = NULL => depth' = 0
  BY NullAssumption DEF LockCountsNesting
<1> SUFFICES ASSUME NEW u \in Threads
             PROVE  Nesting(u)' = IF owner' = u THEN depth' ELSE 0
  BY <1>0 DEF LockCountsNesting
<1>1. u # t => pc'[u] = pc[u] /\ job'[u] = job[u]
  BY DEF TypeOK
<1>2. u # t => Nesting(u)' = Nesting(u)
  BY <1>1 DEF Nesting
<1>3. NULL \notin Threads
  BY NullAssumption
<1> QED  BY <1>2, <1>3 DEF LockCountsNesting

LEMMA LockGiven ==
  ASSUME TypeOK, LockCountsNesting, NEW t \in Threads,
         NEW label, pc' = [pc EXCEPT ![t] = label],
         NEW j, job' = [job EXCEPT ![t] = j],
         Unlock(t, memoryBlocks), Nesting(t) > 0, Nesting(t)' = Nesting(t) - 1
  PROVE  /\ LockCountsNesting'
         /\ owner' \in Threads \cup {NULL} /\ depth' \in 0 .. 2
         /\ settled' \in {settled, memoryBlocks}
<1>1. owner = t /\ depth = Nesting(t)
  BY DEF LockCountsNesting
<1>2. /\ depth' = depth - 1
      /\ owner' = IF depth = 1 THEN NULL ELSE t
      /\ settled' = IF depth = 1 THEN memoryBlocks ELSE settled
  BY <1>1 DEF Unlock
<1>3. depth \in 1 .. 2
  BY <1>1 DEF TypeOK
<1>4. LockCountsNesting'
  <2>0. owner' = NULL => depth' = 0
    BY <1>1, <1>2, <1>3, NullAssumption
  <2> SUFFICES ASSUME NEW u \in Threads
               PROVE  Nesting(u)' = IF owner' = u THEN depth' ELSE 0
    BY <2>0 DEF LockCountsNesting
  <2>1. u # t => pc'[u] = pc[u] /\ job'[u] = job[u]
    BY DEF TypeOK
  <2>2. u # t => Nesting(u)' = Nesting(u)
    BY <2>1 DEF Nesting
  <2>3. NULL \notin Threads
    BY NullAssumption
  <2> QED  BY <1>1, <1>2, <1>3, <2>2, <2>3 DEF LockCountsNesting
<1> QED  BY <1>2, <1>3, <1>4

-----------------------------------------------------------------------------
HeldType == [Threads -> [Slots -> SlotType]]
BytesType == [Offsets -> (Threads \X Slots) \cup {NULL}]

(* A step of one thread, put together from what it does to each variable. *)
LEMMA OneThreadMoves ==
  ASSUME IInv, NEW t \in Threads,
         NEW label \in Labels, pc' = [pc EXCEPT ![t] = label],
         NEW j \in JobType, job' = [job EXCEPT ![t] = j],
         JobFits(t)', CopyFits(t)',
         LockCountsNesting', owner' \in Threads \cup {NULL}, depth' \in 0 .. 2,
         WellFormed(memoryBlocks', PoolSize), settled' \in {settled, memoryBlocks},
         held' \in HeldType, bytes' \in BytesType,
         calls' \in [Threads -> Nat], crashed' \in BOOLEAN
  PROVE  IInv'
<1>1. TypeOK'
  <2>1. pc' \in [Threads -> Labels] /\ job' \in [Threads -> JobType]
    BY DEF IInv, TypeOK
  <2>2. memoryBlocks' \in Seq(BlockType) /\ settled' \in Seq(BlockType)
    BY DEF IInv, TypeOK, WellFormed, Layout
  <2> QED  BY <2>1, <2>2 DEF TypeOK, HeldType, BytesType
<1>2. \A u \in Threads : JobFits(u)' /\ CopyFits(u)'
  <2> SUFFICES ASSUME NEW u \in Threads, u # t PROVE JobFits(u)' /\ CopyFits(u)'
    OBVIOUS
  <2>1. pc'[u] = pc[u] /\ job'[u] = job[u]
    BY DEF IInv, TypeOK
  <2>2. JobFits(u) /\ CopyFits(u)
    BY DEF IInv
  <2> QED  BY <2>1, <2>2 DEF JobFits, CopyFits, ReadsInPool
<1> QED  BY <1>1, <1>2 DEF IInv

(* The values the moving thread has after a step. *)
LEMMA Moved ==
  ASSUME TypeOK, NEW t \in Threads,
         NEW label, pc' = [pc EXCEPT ![t] = label],
         NEW j, job' = [job EXCEPT ![t] = j]
  PROVE  pc'[t] = label /\ job'[t] = j
BY DEF TypeOK

LEMMA JobUnchanged ==
  ASSUME TypeOK, NEW t \in Threads, UNCHANGED job
  PROVE  job' = [job EXCEPT ![t] = job[t]] /\ job[t] \in JobType
BY DEF TypeOK

LEMMA Lock_Sound ==
  ASSUME IInv, NEW t \in Threads, Lock(t)
  PROVE  IInv'
<1> DEFINE label == Acquire[pc[t]]
<1>1. /\ pc[t] \in {"alloc_lock", "free_lock", "resize_lock"}
      /\ label = IF pc[t] = "alloc_lock" THEN "alloc_body"
                 ELSE IF pc[t] = "free_lock" THEN "free_body" ELSE "resize_body"
  BY DEF Lock, Acquire
<1>2. /\ owner \in {t, NULL} /\ owner' = t /\ depth' = depth + 1
      /\ pc' = [pc EXCEPT ![t] = label]
      /\ UNCHANGED <<memoryBlocks, job, held, bytes, calls, crashed, settled>>
  BY DEF Lock, Goto
<1> HIDE DEF label
<1>3. label \in Labels
  BY <1>1 DEF Labels
<1>4. TypeOK /\ JobFits(t) /\ CopyFits(t) /\ LockCountsNesting
  BY DEF IInv
<1>5. job' = [job EXCEPT ![t] = job[t]] /\ job[t] \in JobType
  BY <1>2, <1>4, JobUnchanged
<1>6. pc'[t] = label /\ job'[t] = job[t]
  BY <1>2, <1>4, <1>5, Moved, ZenonT(40)
<1>7. JobFits(t)' /\ CopyFits(t)'
  BY <1>1, <1>4, <1>6 DEF JobFits, CopyFits, ReadsInPool, InAlloc, InFree, InResize
<1>8. Nesting(t)' = Nesting(t) + 1 /\ Nesting(t) \in 0 .. 1
  BY <1>1, <1>4, <1>6 DEF JobFits, Nesting, InAlloc, InFree, InResize
<1>9. LockCountsNesting'
  BY <1>2, <1>4, <1>5, <1>8, LockTaken
<1>10. depth' \in 0 .. 2
  BY <1>2, <1>4, <1>8 DEF LockCountsNesting
<1>11. UNCHANGED <<memoryBlocks, held, bytes, calls, crashed, settled>>
  BY <1>2
<1> QED
  BY <1>2, <1>3, <1>5, <1>7, <1>9, <1>10, <1>11, OneThreadMoves
     DEF IInv, TypeOK, HeldType, BytesType

(* A call begins. *)
LEMMA Start_Sound ==
  ASSUME IInv, NEW t \in Threads, NEW k \in Slots, NEW size \in Nat,
         NEW op, NEW label,
         <<op, label>> \in {<<"mem_alloc", "alloc_lock">>, <<"mem_free", "free_lock">>,
                            <<"mem_resize", "resize_lock">>},
         Start(t, op, k, size, label)
  PROVE  IInv'
<1> DEFINE j == Job(op, k, held[t][k], size)
<1>1. /\ pc[t] = "idle" /\ calls[t] > 0
      /\ calls' = [calls EXCEPT ![t] = @ - 1]
      /\ job' = [job EXCEPT ![t] = j]
      /\ held' = [held EXCEPT ![t][k] = Empty]
      /\ pc' = [pc EXCEPT ![t] = label]
      /\ UNCHANGED <<memoryBlocks, owner, depth, bytes, crashed, settled>>
  BY DEF Start, Goto
<1>2. TypeOK /\ JobFits(t) /\ CopyFits(t) /\ LockCountsNesting
  BY DEF IInv
<1>3. Empty \in SlotType /\ held[t][k] \in SlotType
  BY <1>2 DEF TypeOK, Empty, SlotType
<1>4. /\ op \in {"mem_alloc", "mem_free", "mem_resize"}
      /\ label \in {"alloc_lock", "free_lock", "resize_lock"}
      /\ op = "mem_resize" <=> label = "resize_lock"
      /\ op = "mem_alloc" <=> label = "alloc_lock"
  OBVIOUS
<1>5. j \in JobType /\ j.op = op /\ j.slot = k
  BY <1>3, <1>4 DEF Job, JobType
<1> HIDE DEF j
<1>6. pc'[t] = label /\ job'[t] = j
  BY <1>1, <1>2, Moved
<1>7. JobFits(t)' /\ CopyFits(t)'
  BY <1>4, <1>5, <1>6 DEF JobFits, CopyFits, InAlloc, InFree, InResize
<1>8. Nesting(t)' = Nesting(t)
  BY <1>1, <1>2, <1>4, <1>5, <1>6 DEF JobFits, Nesting
<1>9. LockCountsNesting'
  BY <1>1, <1>2, <1>8, LockUntouched
<1>10. held' \in HeldType /\ calls' \in [Threads -> Nat] /\ label \in Labels
  BY <1>1, <1>2, <1>3, <1>4 DEF TypeOK, HeldType, Labels
<1> QED
  BY <1>1, <1>5, <1>7, <1>9, <1>10, OneThreadMoves DEF IInv, TypeOK, BytesType

LEMMA SlotFilled ==
  ASSUME NEW b \in SlotType, NEW n \in Nat
  PROVE  [b EXCEPT !.filled = n] \in SlotType
BY DEF SlotType

LEMMA fill_Sound ==
  ASSUME IInv, NEW t \in Threads, fill(t)
  PROVE  IInv'
<1> DEFINE k == job[t].slot
           b == held[t][k]
<1>1. /\ pc[t] = "fill"
      /\ bytes' = [a \in Offsets |->
                     IF b.ptr <= a /\ a < b.ptr + b.size THEN <<t, k>> ELSE bytes[a]]
      /\ held' = [held EXCEPT ![t][k].filled = b.size]
      /\ job' = [job EXCEPT ![t] = NoJob]
      /\ pc' = [pc EXCEPT ![t] = "idle"]
      /\ UNCHANGED <<memoryBlocks, owner, depth, calls, crashed, settled>>
  BY DEF fill, Goto
<1>2. TypeOK /\ JobFits(t) /\ CopyFits(t) /\ LockCountsNesting
  BY DEF IInv
<1>3. k \in Slots /\ b \in SlotType
  BY <1>1, <1>2 DEF JobFits, TypeOK
<1>4. NoJob \in JobType /\ NoJob.op = "none"
  BY DEF NoJob, Job, JobType, Empty, SlotType
<1>5. pc'[t] = "idle" /\ job'[t] = NoJob
  BY <1>1, <1>2, Moved
<1>6. JobFits(t)' /\ CopyFits(t)'
  BY <1>4, <1>5 DEF JobFits, CopyFits, InAlloc, InFree, InResize
<1>7. Nesting(t)' = Nesting(t)
  BY <1>1, <1>2, <1>4, <1>5 DEF JobFits, Nesting
<1>8. LockCountsNesting'
  BY <1>1, <1>2, <1>7, LockUntouched
<1>9. held' \in HeldType
  <2>1. b.size \in Nat
    BY <1>3 DEF SlotType
  <2> DEFINE c == [b EXCEPT !.filled = b.size]
  <2>2. c \in SlotType
    BY ONLY <1>3, <2>1, SlotFilled
  <2>3. held' = [held EXCEPT ![t] = [held[t] EXCEPT ![k] = c]]
    BY <1>1
  <2> HIDE DEF c, k, b
  <2> QED  BY <1>2, <1>3, <2>2, <2>3 DEF TypeOK, HeldType
<1>10. bytes' \in BytesType
  BY <1>1, <1>2, <1>3 DEF TypeOK, BytesType
<1> QED
  BY <1>1, <1>4, <1>6, <1>8, <1>9, <1>10, OneThreadMoves DEF IInv, TypeOK, Labels

-----------------------------------------------------------------------------
(* The record of a call, changed in one field. *)
LEMMA JobAnswered ==
  ASSUME NEW j \in JobType, NEW ret \in Nat \cup {NULL}
  PROVE  LET k == [j EXCEPT !.ret = ret]
         IN  k \in JobType /\ k.op = j.op /\ k.slot = j.slot /\ k.was = j.was
             /\ k.size = j.size /\ k.way = j.way /\ k.old = j.old
BY DEF JobType

LEMMA JobCopied ==
  ASSUME NEW j \in JobType, NEW n \in Nat
  PROVE  LET k == [j EXCEPT !.moved = n]
         IN  k \in JobType /\ k.op = j.op /\ k.slot = j.slot /\ k.was = j.was
             /\ k.size = j.size /\ k.way = j.way /\ k.old = j.old
BY DEF JobType

Ways == {"in place", "growing", "shrinking", "elsewhere"}

(* A call returns. *)
LEMMA Returned ==
  ASSUME TypeOK, NEW t \in Threads, JobFits(t), pc[t] # "idle", Return(t)
  PROVE  /\ held' \in HeldType
         /\ \E label \in {"idle", "fill"}, j \in JobType :
               /\ pc' = [pc EXCEPT ![t] = label]
               /\ job' = [job EXCEPT ![t] = j]
               /\ j.op = "none" /\ j.slot \in Slots
<1> DEFINE j == job[t]
           n == IF j.was.filled < j.size THEN j.was.filled ELSE j.size
           b == IF j.op = "mem_free" THEN Empty
                ELSE IF j.ret = NULL THEN j.was
                ELSE [ptr |-> j.ret, size |-> j.size, filled |-> n]
           next == Job("none", j.slot, Empty, 0)
           label == IF b = Empty THEN "idle" ELSE "fill"
<1>1. /\ held' = [held EXCEPT ![t][j.slot] = b]
      /\ job' = [job EXCEPT ![t] = next]
      /\ pc' = [pc EXCEPT ![t] = label]
  BY DEF Return, Goto
<1>2. j \in JobType /\ j.slot \in Slots
  BY DEF TypeOK, JobFits
<1>3. j.was \in SlotType /\ j.size \in Nat /\ j.ret \in Nat \cup {NULL}
  BY <1>2 DEF JobType
<1>4. Empty \in SlotType
  BY DEF Empty, SlotType
<1>5. next \in JobType /\ next.op = "none" /\ next.slot = j.slot
  BY <1>2, <1>4 DEF Job, JobType
<1>6. b \in SlotType
  <2>1. n \in Nat
    BY <1>3 DEF SlotType
  <2>2. j.ret # NULL => [ptr |-> j.ret, size |-> j.size, filled |-> n] \in SlotType
    BY <1>3, <2>1 DEF SlotType
  <2> QED  BY <1>3, <1>4, <2>2
<1> HIDE DEF b, j, next
<1>7. held' \in HeldType
  BY <1>1, <1>2, <1>6 DEF TypeOK, HeldType
<1>8. label \in {"idle", "fill"}
  OBVIOUS
<1> HIDE DEF label
<1> QED  BY <1>1, <1>2, <1>5, <1>7, <1>8

(* The last unlock of a call. *)
LEMMA LastUnlock ==
  ASSUME IInv, NEW t \in Threads, Unlock(t, memoryBlocks), Return(t),
         Nesting(t) = 1, pc[t] # "idle",
         UNCHANGED <<memoryBlocks, bytes, calls, crashed>>
  PROVE  IInv'
<1>1. TypeOK /\ JobFits(t) /\ LockCountsNesting
  BY DEF IInv
<1>2. held' \in HeldType
  BY <1>1, Returned
<1>3. PICK label \in {"idle", "fill"}, j \in JobType :
         /\ pc' = [pc EXCEPT ![t] = label]
         /\ job' = [job EXCEPT ![t] = j]
         /\ j.op = "none" /\ j.slot \in Slots
  BY <1>1, Returned
<1>4. pc'[t] = label /\ job'[t] = j
  BY <1>1, <1>3, Moved
<1>5. JobFits(t)' /\ CopyFits(t)'
  BY <1>3, <1>4 DEF JobFits, CopyFits, InAlloc, InFree, InResize
<1>6. Nesting(t)' = 0
  BY <1>3, <1>4 DEF Nesting
<1>7. /\ LockCountsNesting' /\ owner' \in Threads \cup {NULL} /\ depth' \in 0 .. 2
      /\ settled' \in {settled, memoryBlocks}
  <2>1. t \in Threads /\ Unlock(t, memoryBlocks) /\ Nesting(t) > 0 /\ Nesting(t)' = Nesting(t) - 1
    BY <1>6
  <2> QED  BY ONLY <1>1, <1>3, <2>1, LockGiven
<1>8. label \in Labels
  BY <1>3 DEF Labels
<1> QED
  BY <1>2, <1>3, <1>5, <1>7, <1>8, OneThreadMoves DEF IInv, TypeOK, BytesType

(* An inner unlock of mem_resize. *)
LEMMA InnerUnlock ==
  ASSUME IInv, NEW t \in Threads, Unlock(t, memoryBlocks),
         pc[t] \in {"alloc_unlock", "free_unlock"}, job[t].op = "mem_resize",
         NEW label \in {"resize_move", "resize_unlock", "alloc_lock"},
         pc' = [pc EXCEPT ![t] = label],
         UNCHANGED <<memoryBlocks, job, held, bytes, calls, crashed>>
  PROVE  IInv'
<1>1. /\ TypeOK /\ JobFits(t) /\ CopyFits(t) /\ LockCountsNesting
      /\ t \in Threads /\ pc' = [pc EXCEPT ![t] = label] /\ Unlock(t, memoryBlocks)
  BY DEF IInv
<1>2. PICK j \in JobType : j = job[t] /\ job' = [job EXCEPT ![t] = j]
  BY <1>1, JobUnchanged
<1>3. pc'[t] = label /\ job'[t] = j
  BY ONLY <1>1, <1>2, Moved
<1>4. JobFits(t)' /\ CopyFits(t)'
  BY <1>1, <1>2, <1>3 DEF JobFits, CopyFits, ReadsInPool, InAlloc, InFree, InResize
<1>5. Nesting(t) = 2 /\ Nesting(t)' = 1
  BY <1>2, <1>3 DEF Nesting
<1>6. /\ LockCountsNesting' /\ owner' \in Threads \cup {NULL} /\ depth' \in 0 .. 2
      /\ settled' \in {settled, memoryBlocks}
  <2>1. Nesting(t) > 0 /\ Nesting(t)' = Nesting(t) - 1
    BY <1>5
  <2> QED  BY ONLY <1>1, <1>2, <2>1, LockGiven
<1>7. label \in Labels
  BY DEF Labels
<1>8. /\ WellFormed(memoryBlocks', PoolSize) /\ held' \in HeldType /\ bytes' \in BytesType
      /\ calls' \in [Threads -> Nat] /\ crashed' \in BOOLEAN /\ IInv
  BY DEF IInv, TypeOK, HeldType, BytesType
<1> QED  BY ONLY <1>1, <1>2, <1>4, <1>6, <1>7, <1>8, OneThreadMoves

LEMMA alloc_unlock_Sound ==
  ASSUME IInv, NEW t \in Threads, alloc_unlock(t)
  PROVE  IInv'
<1>1. /\ pc[t] = "alloc_unlock" /\ Unlock(t, memoryBlocks)
      /\ UNCHANGED <<memoryBlocks, bytes, calls, crashed>>
  BY DEF alloc_unlock
<1>2. job[t].op \in {"mem_alloc", "mem_resize"}
  BY <1>1 DEF IInv, JobFits, InAlloc
<1>3. CASE job[t].op = "mem_alloc"
  <2>1. Return(t)
    BY <1>3 DEF alloc_unlock
  <2>2. Nesting(t) = 1
    BY <1>1, <1>3 DEF Nesting
  <2> QED  BY <1>1, <2>1, <2>2, LastUnlock
<1>4. CASE job[t].op = "mem_resize"
  <2>1. pc' = [pc EXCEPT ![t] = "resize_move"] /\ UNCHANGED <<job, held>>
    BY <1>4 DEF alloc_unlock, Goto
  <2> QED  BY <1>1, <1>4, <2>1, InnerUnlock
<1> QED  BY <1>2, <1>3, <1>4

LEMMA free_unlock_Sound ==
  ASSUME IInv, NEW t \in Threads, free_unlock(t)
  PROVE  IInv'
<1>1. /\ pc[t] = "free_unlock" /\ Unlock(t, memoryBlocks)
      /\ UNCHANGED <<memoryBlocks, bytes, calls, crashed>>
  BY DEF free_unlock
<1>2. job[t].op \in {"mem_free", "mem_resize"}
  BY <1>1 DEF IInv, JobFits, InFree
<1>3. CASE job[t].op = "mem_free"
  <2>1. Return(t)
    BY <1>3 DEF free_unlock
  <2>2. Nesting(t) = 1
    BY <1>1, <1>3 DEF Nesting
  <2> QED  BY <1>1, <2>1, <2>2, LastUnlock
<1>4. CASE job[t].op = "mem_resize"
  <2> DEFINE label == IF job[t].way = "elsewhere" THEN "resize_unlock" ELSE "alloc_lock"
  <2>1. pc' = [pc EXCEPT ![t] = label] /\ UNCHANGED <<job, held>>
    BY <1>4 DEF free_unlock, Goto
  <2>2. label \in {"resize_move", "resize_unlock", "alloc_lock"}
    OBVIOUS
  <2> HIDE DEF label
  <2> QED  BY <1>1, <1>4, <2>1, <2>2, InnerUnlock
<1> QED  BY <1>2, <1>3, <1>4

LEMMA resize_unlock_Sound ==
  ASSUME IInv, NEW t \in Threads, resize_unlock(t)
  PROVE  IInv'
<1>1. /\ pc[t] = "resize_unlock" /\ Unlock(t, memoryBlocks) /\ Return(t)
      /\ UNCHANGED <<memoryBlocks, bytes, calls, crashed>>
  BY DEF resize_unlock
<1>2. job[t].op = "mem_resize"
  BY <1>1 DEF IInv, JobFits, InResize
<1>3. Nesting(t) = 1
  BY <1>1, <1>2 DEF Nesting
<1> QED  BY <1>1, <1>3, LastUnlock

-----------------------------------------------------------------------------
(* A step between lock and unlock that changes the array. *)
LEMMA BodyMoves ==
  ASSUME IInv, NEW t \in Threads,
         NEW label \in Labels, pc' = [pc EXCEPT ![t] = label],
         NEW j \in JobType, job' = [job EXCEPT ![t] = j],
         JobFits(t)', CopyFits(t)', Nesting(t)' = Nesting(t),
         WellFormed(memoryBlocks', PoolSize), bytes' \in BytesType,
         UNCHANGED <<owner, depth, held, calls, crashed, settled>>
  PROVE  IInv'
<1>1. TypeOK /\ LockCountsNesting
  BY DEF IInv
<1>2. LockCountsNesting'
  BY <1>1, LockUntouched
<1> QED  BY <1>1, <1>2, OneThreadMoves DEF TypeOK, HeldType

(* mem_alloc has found an answer. *)
LEMMA Answered ==
  ASSUME IInv, NEW t \in Threads, pc[t] = "alloc_body",
         NEW ret \in Nat \cup {NULL}, Answer(t, ret, "alloc_unlock"),
         WellFormed(memoryBlocks', PoolSize),
         UNCHANGED <<owner, depth, held, bytes, calls, crashed, settled>>
  PROVE  IInv'
<1>1. TypeOK /\ JobFits(t) /\ CopyFits(t)
  BY DEF IInv
<1>2. PICK j \in JobType : j = job[t]
  BY <1>1 DEF TypeOK
<1> DEFINE k == [j EXCEPT !.ret = ret]
<1>3. /\ pc' = [pc EXCEPT ![t] = "alloc_unlock"]
      /\ job' = [job EXCEPT ![t] = k]
  BY <1>2 DEF Answer, Goto
<1>4. k \in JobType /\ k.op = j.op /\ k.slot = j.slot /\ k.was = j.was
      /\ k.size = j.size /\ k.way = j.way /\ k.old = j.old
  BY <1>2, JobAnswered
<1> HIDE DEF k
<1>5. pc'[t] = "alloc_unlock" /\ job'[t] = k
  BY <1>1, <1>3, Moved
<1>6. JobFits(t)' /\ CopyFits(t)'
  BY <1>1, <1>2, <1>4, <1>5 DEF JobFits, CopyFits, ReadsInPool, InAlloc, InFree, InResize
<1>7. Nesting(t)' = Nesting(t)
  BY <1>2, <1>4, <1>5 DEF Nesting
<1>8. "alloc_unlock" \in Labels /\ bytes' \in BytesType
  BY <1>1 DEF Labels, TypeOK, BytesType
<1> QED  BY <1>3, <1>4, <1>6, <1>7, <1>8, BodyMoves

LEMMA alloc_body_Sound ==
  ASSUME ReallocMayFail = FALSE, IInv, NEW t \in Threads, alloc_body(t)
  PROVE  IInv'
<1> DEFINE size == job[t].size
<1>1. /\ pc[t] = "alloc_body" /\ UNCHANGED <<held, bytes, calls, crashed>>
      /\ WellFormed(memoryBlocks, PoolSize) /\ PoolSize \in Nat
  BY PoolAssumption DEF alloc_body, IInv
<1>2. size \in Nat
  BY DEF IInv, TypeOK, JobType
<1>3. CASE /\ Answer(t, 0, "alloc_unlock")
           /\ UNCHANGED <<memoryBlocks, owner, depth, settled>>
  BY <1>1, <1>3, Answered
<1>4. CASE /\ Answer(t, NULL, "alloc_unlock")
           /\ UNCHANGED <<memoryBlocks, owner, depth, settled>>
  BY <1>1, <1>4, Answered
<1>5. ASSUME size > 0, NEW i \in FirstFit(memoryBlocks, size),
             memoryBlocks' = Carve(memoryBlocks, i, size),
             Answer(t, memoryBlocks[i].startAdress, "alloc_unlock"),
             UNCHANGED <<owner, depth, settled>>
      PROVE  IInv'
  <2>1. WellFormed(memoryBlocks', PoolSize)
    <3>1. /\ size \in Nat \ {0} /\ PoolSize \in Nat /\ WellFormed(memoryBlocks, PoolSize)
          /\ i \in FirstFit(memoryBlocks, size)
          /\ memoryBlocks' = Carve(memoryBlocks, i, size)
      BY <1>1, <1>2, <1>5
    <3> QED  BY ONLY <3>1, CarveWellFormed
  <2>2. i \in DOMAIN memoryBlocks /\ memoryBlocks \in Seq(BlockType)
    BY <1>1 DEF FirstFit, WellFormed, Layout
  <2>3. memoryBlocks[i].startAdress \in Nat
    BY <2>2, BlocksTyped
  <2> QED  BY <1>1, <1>5, <2>1, <2>3, Answered
<1> QED  BY <1>3, <1>4, <1>5 DEF alloc_body

LEMMA free_body_Sound ==
  ASSUME IInv, NEW t \in Threads, free_body(t)
  PROVE  IInv'
<1>1. /\ pc[t] = "free_body"
      /\ memoryBlocks' = AfterFree(memoryBlocks, job[t].was.ptr)
      /\ pc' = [pc EXCEPT ![t] = "free_unlock"]
      /\ UNCHANGED <<owner, depth, job, held, bytes, calls, crashed, settled>>
  BY DEF free_body, Goto
<1>2. /\ TypeOK /\ JobFits(t) /\ CopyFits(t) /\ WellFormed(memoryBlocks, PoolSize)
      /\ t \in Threads
  BY DEF IInv
<1>3. PICK j \in JobType : j = job[t] /\ job' = [job EXCEPT ![t] = j]
  BY <1>1, <1>2, JobUnchanged
<1>4. pc'[t] = "free_unlock" /\ job'[t] = j
  <2>1. TypeOK /\ t \in Threads /\ pc' = [pc EXCEPT ![t] = "free_unlock"]
    BY <1>1, <1>2
  <2> QED  BY ONLY <2>1, <1>3, Moved
<1>5. JobFits(t)' /\ CopyFits(t)'
  BY <1>1, <1>2, <1>3, <1>4 DEF JobFits, CopyFits, ReadsInPool, InAlloc, InFree, InResize
<1>6. Nesting(t)' = Nesting(t)
  BY <1>1, <1>3, <1>4 DEF Nesting
<1>7. WellFormed(memoryBlocks', PoolSize)
  BY <1>1, <1>2, AfterFreeWellFormed, PoolAssumption
<1>8. "free_unlock" \in Labels /\ bytes' \in BytesType
  BY <1>1, <1>2 DEF Labels, TypeOK, BytesType
<1> QED  BY <1>1, <1>3, <1>5, <1>6, <1>7, <1>8, BodyMoves

(* mem_resize has chosen its way. *)
LEMMA Taken ==
  ASSUME IInv, NEW t \in Threads, pc[t] = "resize_body",
         NEW way \in Ways, NEW old \in Nat, NEW ret \in Nat \cup {NULL},
         NEW label \in {"resize_unlock", "free_lock", "alloc_lock"},
         Take(t, way, old, ret, label),
         \/ label = "resize_unlock"
         \/ /\ job[t].was.ptr \in Nat
            /\ job[t].was.ptr + old <= PoolSize
            /\ way = "shrinking" => job[t].size <= old,
         WellFormed(memoryBlocks', PoolSize),
         UNCHANGED <<owner, depth, held, bytes, calls, crashed, settled>>
  PROVE  IInv'
<1>1. TypeOK /\ JobFits(t) /\ CopyFits(t)
  BY DEF IInv
<1>2. PICK j \in JobType : j = job[t]
  BY <1>1 DEF TypeOK
<1> DEFINE k1 == [j EXCEPT !.way = way]
           k2 == [k1 EXCEPT !.old = old]
           k == [k2 EXCEPT !.ret = ret]
<1>3. /\ pc' = [pc EXCEPT ![t] = label]
      /\ job' = [job EXCEPT ![t] = k]
  BY <1>2 DEF Take, Goto
<1>4. k \in JobType /\ k.op = j.op /\ k.slot = j.slot /\ k.was = j.was
      /\ k.size = j.size /\ k.way = way /\ k.old = old
  <2>1. k1 \in JobType /\ k1.op = j.op /\ k1.slot = j.slot /\ k1.was = j.was
        /\ k1.size = j.size /\ k1.way = way
    BY <1>2 DEF JobType, Ways
  <2> HIDE DEF k1
  <2>2. k2 \in JobType /\ k2.op = j.op /\ k2.slot = j.slot /\ k2.was = j.was
        /\ k2.size = j.size /\ k2.way = way /\ k2.old = old
    BY <2>1 DEF JobType
  <2> HIDE DEF k2
  <2> QED  BY <2>2 DEF JobType
<1> HIDE DEF k
<1>5. pc'[t] = label /\ job'[t] = k
  BY <1>1, <1>3, Moved
<1>6. j.op = "mem_resize" /\ j.slot \in Slots
  BY <1>1, <1>2 DEF JobFits, InResize
<1>7. JobFits(t)'
  BY <1>4, <1>5, <1>6 DEF JobFits, InAlloc, InFree, InResize
<1>8. CopyFits(t)'
  BY <1>2, <1>4, <1>5 DEF CopyFits, ReadsInPool, InAlloc, InFree
<1>9. Nesting(t)' = Nesting(t)
  BY <1>2, <1>4, <1>5, <1>6 DEF Nesting
<1>10. label \in Labels /\ bytes' \in BytesType
  BY <1>1 DEF Labels, TypeOK, BytesType
<1> QED  BY <1>3, <1>4, <1>7, <1>8, <1>9, <1>10, BodyMoves

LEMMA resize_body_Sound ==
  ASSUME IInv, NEW t \in Threads, resize_body(t)
  PROVE  IInv'
<1> DEFINE p == job[t].was.ptr
           size == job[t].size
<1>1. /\ pc[t] = "resize_body"
      /\ UNCHANGED <<owner, depth, held, bytes, calls, crashed, settled>>
      /\ WellFormed(memoryBlocks, PoolSize) /\ PoolSize \in Nat
  BY PoolAssumption DEF resize_body, IInv
<1>2. size \in Nat
  BY DEF IInv, TypeOK, JobType
<1>3. CASE Take(t, "in place", 0, NULL, "resize_unlock") /\ UNCHANGED memoryBlocks
  BY <1>1, <1>3, Taken DEF Ways
<1>4. ASSUME NEW i \in LastAt(memoryBlocks, p),
             NEW old, old = memoryBlocks[i].size,
             \/ /\ Take(t, "in place", 0, p, "resize_unlock")
                /\ UNCHANGED memoryBlocks
             \/ /\ old < size /\ CanGrowRight(memoryBlocks, i, size)
                /\ memoryBlocks' = GrowRight(memoryBlocks, i, size)
                /\ Take(t, "in place", 0, p, "resize_unlock")
             \/ /\ Take(t, "growing", old, NULL, "free_lock")
                /\ UNCHANGED memoryBlocks
             \/ /\ Take(t, "elsewhere", old, NULL, "alloc_lock")
                /\ UNCHANGED memoryBlocks
             \/ /\ size < old
                /\ Take(t, "shrinking", old, NULL, "free_lock")
                /\ UNCHANGED memoryBlocks
      PROVE  IInv'
  <2>1. i \in DOMAIN memoryBlocks /\ memoryBlocks[i].startAdress = p
    BY DEF LastAt
  <2>2. p \in Nat /\ old \in Nat /\ p + old <= PoolSize
    BY <1>1, <1>4, <2>1, BlockInPool DEF WellFormed
  <2>3. CASE /\ Take(t, "in place", 0, p, "resize_unlock")
             /\ UNCHANGED memoryBlocks
    BY <1>1, <2>2, <2>3, Taken DEF Ways
  <2>4. CASE /\ old < size /\ CanGrowRight(memoryBlocks, i, size)
             /\ memoryBlocks' = GrowRight(memoryBlocks, i, size)
             /\ Take(t, "in place", 0, p, "resize_unlock")
    <3>1. WellFormed(memoryBlocks', PoolSize)
      BY <1>1, <1>2, <1>4, <2>1, <2>4, GrowRightWellFormed
    <3> QED  BY <1>1, <2>2, <2>4, <3>1, Taken DEF Ways
  <2>5. CASE Take(t, "growing", old, NULL, "free_lock") /\ UNCHANGED memoryBlocks
    BY <1>1, <2>2, <2>5, Taken DEF Ways
  <2>6. CASE Take(t, "elsewhere", old, NULL, "alloc_lock") /\ UNCHANGED memoryBlocks
    BY <1>1, <2>2, <2>6, Taken DEF Ways
  <2>7. CASE /\ size < old
             /\ Take(t, "shrinking", old, NULL, "free_lock")
             /\ UNCHANGED memoryBlocks
    <3>1. size <= old
      BY <1>2, <2>2, <2>7
    <3> QED  BY <1>1, <2>2, <2>7, <3>1, Taken DEF Ways
  <2> QED  BY <1>4, <2>3, <2>4, <2>5, <2>6, <2>7
<1> QED  BY <1>3, <1>4 DEF resize_body

(* memmove reads inside the pool, and its last case changes bytes of it. *)
LEMMA CopyTyped ==
  ASSUME TypeOK, NEW j \in JobType, ReadsInPool(j), NEW n \in Nat, n <= j.old,
         bytes' = [a \in Offsets |->
                     IF j.ret <= a /\ a < j.ret + n
                     THEN bytes[a - j.ret + j.was.ptr] ELSE bytes[a]],
         j.ret # NULL
  PROVE  bytes' \in BytesType
<1>1. /\ j.ret \in Nat /\ j.old \in Nat /\ PoolSize \in Nat
      /\ j.was.ptr \in Nat /\ j.was.ptr + j.old <= PoolSize
  BY PoolAssumption DEF JobType, ReadsInPool
<1>2. ASSUME NEW a \in Offsets, j.ret <= a, a < j.ret + n
      PROVE  a - j.ret + j.was.ptr \in Offsets
  <2> PICK from, to, old : from = j.was.ptr /\ to = j.ret /\ old = j.old
    OBVIOUS
  <2>1. /\ from \in Nat /\ to \in Nat /\ old \in Nat /\ PoolSize \in Nat /\ from + old <= PoolSize
        /\ a \in 0 .. PoolSize - 1 /\ to <= a /\ a < to + n /\ n \in Nat /\ n <= old
    BY <1>1, <1>2 DEF Offsets
  <2>2. a - to + from \in 0 .. PoolSize - 1
    BY ONLY <2>1
  <2> QED  BY <2>2 DEF Offsets
<1>3. \A a \in Offsets : bytes[a] \in (Threads \X Slots) \cup {NULL}
  BY DEF TypeOK
<1> QED  BY <1>2, <1>3 DEF BytesType

LEMMA resize_move_Sound ==
  ASSUME IInv, NEW t \in Threads, resize_move(t)
  PROVE  IInv'
<1>1. /\ pc[t] = "resize_move" /\ t \in Threads
      /\ UNCHANGED <<memoryBlocks, owner, depth, held, calls, settled>>
  BY DEF resize_move
<1>2. /\ TypeOK /\ JobFits(t) /\ CopyFits(t) /\ LockCountsNesting
      /\ WellFormed(memoryBlocks, PoolSize)
  BY DEF IInv
<1>3. PICK j \in JobType : j = job[t]
  BY <1>2 DEF TypeOK
<1>4. j.op = "mem_resize" /\ j.slot \in Slots /\ ReadsInPool(j)
  BY <1>1, <1>2, <1>3 DEF JobFits, CopyFits, InResize
<1>5. CASE Goto(t, "resize_unlock") /\ UNCHANGED <<job, bytes, crashed>>
  <2>1. /\ TypeOK /\ t \in Threads
        /\ pc' = [pc EXCEPT ![t] = "resize_unlock"] /\ job' = [job EXCEPT ![t] = j]
    BY <1>2, <1>3, <1>5, JobUnchanged DEF Goto
  <2>2. pc'[t] = "resize_unlock" /\ job'[t] = j
    BY ONLY <2>1, Moved
  <2>3. JobFits(t)' /\ CopyFits(t)' /\ Nesting(t)' = Nesting(t)
    BY <1>1, <1>3, <1>4, <2>2 DEF JobFits, CopyFits, Nesting, InAlloc, InFree, InResize
  <2>4. "resize_unlock" \in Labels /\ bytes' \in BytesType
    BY <1>2, <1>5 DEF Labels, TypeOK, BytesType
  <2> QED  BY <1>1, <1>2, <1>5, <2>1, <2>3, <2>4, BodyMoves
<1>6. CASE crashed' = TRUE /\ UNCHANGED <<pc, job, bytes>>
  BY <1>1, <1>6 DEF IInv, TypeOK, JobFits, CopyFits, ReadsInPool, LockCountsNesting, Nesting
<1>7. ASSUME j.ret \notin {NULL, j.was.ptr},
             bytes' = [a \in Offsets |->
                         IF j.ret <= a /\ a < j.ret + Copied(j)
                         THEN bytes[a - j.ret + j.was.ptr] ELSE bytes[a]],
             job' = [job EXCEPT ![t].moved = Copied(j)],
             Goto(t, AfterCopying(j)), UNCHANGED crashed
      PROVE  IInv'
  <2> DEFINE n == Copied(j)
             k == [j EXCEPT !.moved = n]
             label == AfterCopying(j)
  <2>1. n \in Nat /\ n <= j.old
    <3>1. j.size \in Nat /\ j.old \in Nat
      BY <1>3 DEF JobType
    <3>2. j.way = "shrinking" => j.size <= j.old
      BY <1>4 DEF ReadsInPool
    <3>3. (n = j.size /\ j.way = "shrinking") \/ n = j.old
      BY DEF Copied
    <3> QED  BY ONLY <3>1, <3>2, <3>3
  <2>2. bytes' \in BytesType
    BY <1>2, <1>3, <1>4, <1>7, <2>1, CopyTyped
  <2>3. pc' = [pc EXCEPT ![t] = label] /\ job' = [job EXCEPT ![t] = k]
    BY <1>3, <1>7 DEF Goto
  <2>4. label \in {"free_lock", "resize_unlock"}
    BY DEF AfterCopying
  <2> HIDE DEF n, label
  <2>5. k \in JobType /\ k.op = j.op /\ k.slot = j.slot /\ k.was = j.was
        /\ k.size = j.size /\ k.way = j.way /\ k.old = j.old
    BY <2>1, JobCopied
  <2> HIDE DEF k
  <2>6. pc'[t] = label /\ job'[t] = k
    BY ONLY <1>1, <1>2, <2>3, Moved
  <2>7. JobFits(t)' /\ CopyFits(t)'
    BY <1>4, <2>4, <2>5, <2>6 DEF JobFits, CopyFits, ReadsInPool, InAlloc, InFree, InResize
  <2>8. Nesting(t)' = Nesting(t)
    BY <1>1, <1>3, <1>4, <2>4, <2>5, <2>6 DEF Nesting
  <2>9. label \in Labels
    BY <2>4 DEF Labels
  <2> QED  BY <1>1, <1>2, <1>7, <2>2, <2>3, <2>5, <2>7, <2>8, <2>9, BodyMoves
<1> QED  BY <1>3, <1>5, <1>6, <1>7 DEF resize_move

-----------------------------------------------------------------------------
LEMMA InitSound == Init => IInv
<1> SUFFICES ASSUME Init PROVE IInv
  OBVIOUS
<1>1. WellFormed(memoryBlocks, PoolSize) /\ settled = memoryBlocks
  <2>1. PoolSize \in Nat
    BY PoolAssumption
  <2>2. WellFormed(<<Block(0, PoolSize, FALSE)>>, PoolSize)
    BY <2>1, FreshPool
  <2> QED  BY <2>2 DEF Init
<1>2. NoJob \in JobType /\ NoJob.op = "none" /\ Empty \in SlotType
  BY DEF NoJob, Job, JobType, Empty, SlotType
<1>3. /\ pc \in [Threads -> Labels] /\ job \in [Threads -> JobType]
      /\ \A t \in Threads : pc[t] = "idle" /\ job[t] = NoJob
  BY <1>2 DEF Init, Labels
<1>4. /\ owner = NULL /\ depth = 0 /\ calls = Budget /\ crashed = FALSE
      /\ held \in [Threads -> [Slots -> SlotType]]
      /\ bytes \in [Offsets -> (Threads \X Slots) \cup {NULL}]
  BY <1>2 DEF Init
<1>5. TypeOK
  <2>1. memoryBlocks \in Seq(BlockType) /\ settled \in Seq(BlockType)
    BY <1>1 DEF WellFormed, Layout
  <2>2. owner \in Threads \cup {NULL} /\ calls \in [Threads -> Nat]
    BY <1>4, PoolAssumption
  <2>3. depth \in 0 .. 2
    BY <1>4
  <2>4. crashed \in BOOLEAN
    BY <1>4, Zenon
  <2> QED  BY <1>3, <1>4, <2>1, <2>2, <2>3, <2>4 DEF TypeOK
<1>6. \A t \in Threads : JobFits(t) /\ CopyFits(t) /\ Nesting(t) = 0
  BY <1>2, <1>3 DEF JobFits, CopyFits, Nesting, InAlloc, InFree, InResize
<1>7. LockCountsNesting
  BY <1>4, <1>6, NullAssumption DEF LockCountsNesting
<1> QED  BY <1>1, <1>5, <1>6, <1>7 DEF IInv

(* No step of any thread leaves the invariant. *)
LEMMA StepSound ==
  ASSUME ReallocMayFail = FALSE, IInv, NEW t \in Threads, Step(t)
  PROVE  IInv'
<1>1. ASSUME NEW k \in Slots, NEW size \in Sizes, Start(t, "mem_alloc", k, size, "alloc_lock")
      PROVE  IInv'
  BY <1>1, Start_Sound, PoolAssumption
<1>2. ASSUME NEW k \in Slots, Start(t, "mem_free", k, 0, "free_lock")
      PROVE  IInv'
  BY <1>2, Start_Sound
<1>3. ASSUME NEW k \in Slots, NEW size \in Sizes, Start(t, "mem_resize", k, size, "resize_lock")
      PROVE  IInv'
  BY <1>3, Start_Sound, PoolAssumption
<1>4. CASE CallAlloc(t) \/ CallFree(t) \/ CallResize(t)
  BY <1>1, <1>2, <1>3, <1>4 DEF CallAlloc, CallFree, CallResize
<1>5. CASE fill(t)
  BY <1>5, fill_Sound
<1>6. CASE Lock(t)
  BY <1>6, Lock_Sound
<1>7. CASE alloc_body(t)
  BY <1>7, alloc_body_Sound
<1>8. CASE alloc_undo(t)
  BY <1>8 DEF alloc_undo, IInv, JobFits
<1>9. CASE alloc_unlock(t)
  BY <1>9, alloc_unlock_Sound
<1>10. CASE free_body(t)
  BY <1>10, free_body_Sound
<1>11. CASE free_unlock(t)
  BY <1>11, free_unlock_Sound
<1>12. CASE resize_body(t)
  BY <1>12, resize_body_Sound
<1>13. CASE resize_move(t)
  BY <1>13, resize_move_Sound
<1>14. CASE resize_unlock(t)
  BY <1>14, resize_unlock_Sound
<1> QED
  BY <1>4, <1>5, <1>6, <1>7, <1>8, <1>9, <1>10, <1>11, <1>12, <1>13, <1>14 DEF Step

(* Whatever the threads do, and however long, they stay inside IInv, unless *)
(* realloc refuses an array: then mem_alloc gives up the lock it still uses. *)
THEOREM ThreadsSound ==
  ASSUME ReallocMayFail = FALSE
  PROVE  Spec => []IInv
<1>1. Init => IInv
  BY InitSound
<1>2. IInv /\ [Next]_vars => IInv'
  <2> SUFFICES ASSUME IInv, [Next]_vars PROVE IInv'
    OBVIOUS
  <2>1. CASE Next
    BY <2>1, StepSound DEF Next
  <2>2. CASE UNCHANGED vars
    BY <2>2 DEF vars, IInv, TypeOK, JobFits, CopyFits, ReadsInPool, LockCountsNesting, Nesting
  <2> QED  BY <2>1, <2>2
<1> QED  BY <1>1, <1>2, PTL DEF Spec

(* The variables keep their types: no thread's call leaves the labels it    *)
(* may pass, the lock is taken at most twice, and memmove reads no byte     *)
(* outside the pool.                                                        *)
THEOREM ThreadsKeepTypes ==
  ASSUME ReallocMayFail = FALSE
  PROVE  Spec => []TypeOK
<1>1. IInv => TypeOK
  BY DEF IInv
<1> QED  BY <1>1, ThreadsSound, PTL

(* "Uses one global lock" (header of memory_manager.c): the lock belongs to *)
(* one thread at most and is held exactly as often as its calls are nested, *)
(* so every unlock is answered and two bodies never overlap.                *)
THEOREM LockIsCounted ==
  ASSUME ReallocMayFail = FALSE
  PROVE  Spec => []LockCountsNesting
<1>1. IInv => LockCountsNesting
  BY DEF IInv
<1> QED  BY <1>1, ThreadsSound, PTL

-----------------------------------------------------------------------------
(* The tiling needs neither the lock nor a heap that never refuses: each     *)
(* change of the array is made in one step on the array as it is then.  So   *)
(* the invariant says nothing of the labels, and of a call only that its     *)
(* size is a number.  Free neighbours need not be joined: a refused realloc  *)
(* may leave them apart.                                                     *)
Sized(j) == "size" \in DOMAIN j /\ j.size \in Nat

TiledInv ==
  /\ Layout(memoryBlocks, PoolSize)
  /\ DOMAIN job = Threads
  /\ \A t \in Threads : Sized(job[t])

LEMMA StaysSized ==
  ASSUME TiledInv, NEW t \in Threads,
         NEW j, job' = [job EXCEPT ![t] = j], Sized(j)
  PROVE  DOMAIN job' = Threads /\ \A u \in Threads : Sized(job'[u])
<1>1. DOMAIN job' = Threads /\ \A u \in Threads : job'[u] = IF u = t THEN j ELSE job[u]
  BY DEF TiledInv
<1> QED  BY <1>1 DEF TiledInv

(* A step that leaves the array alone. *)
LEMMA OnlyTheCall ==
  ASSUME TiledInv, NEW t \in Threads, UNCHANGED memoryBlocks,
         NEW j, job' = [job EXCEPT ![t] = j], Sized(j)
  PROVE  TiledInv'
<1>1. DOMAIN job' = Threads /\ \A u \in Threads : Sized(job'[u])
  BY StaysSized
<1> QED  BY <1>1 DEF TiledInv

(* A step that changes the array. *)
LEMMA OnlyTheArray ==
  ASSUME TiledInv, UNCHANGED job,
         NEW bs, memoryBlocks' = bs, Layout(bs, PoolSize)
  PROVE  TiledInv'
BY DEF TiledInv

LEMMA CallSized ==
  ASSUME NEW op, NEW k, NEW was, NEW size \in Nat
  PROVE  Sized(Job(op, k, was, size))
BY DEF Sized, Job

LEMMA Start_Tiled ==
  ASSUME TiledInv, NEW t \in Threads, NEW op, NEW k, NEW size \in Nat, NEW label,
         Start(t, op, k, size, label)
  PROVE  TiledInv'
<1> PICK j : j = Job(op, k, held[t][k], size)
  OBVIOUS
<1>1. job' = [job EXCEPT ![t] = j] /\ UNCHANGED memoryBlocks
  BY DEF Start
<1>2. Sized(j)
  BY CallSized
<1> QED  BY <1>1, <1>2, OnlyTheCall

LEMMA Return_Tiled ==
  ASSUME TiledInv, NEW t \in Threads, Return(t), UNCHANGED memoryBlocks
  PROVE  TiledInv'
<1> PICK j : j = Job("none", job[t].slot, Empty, 0)
  OBVIOUS
<1>1. job' = [job EXCEPT ![t] = j]
  BY DEF Return
<1>2. Sized(j)
  BY CallSized
<1> QED  BY <1>1, <1>2, OnlyTheCall

LEMMA SizeKept ==
  ASSUME NEW j, Sized(j), NEW x
  PROVE  /\ Sized([j EXCEPT !.ret = x]) /\ Sized([j EXCEPT !.moved = x])
         /\ Sized([j EXCEPT !.way = x]) /\ Sized([j EXCEPT !.old = x])
         /\ Sized([j EXCEPT !.index = x])
BY DEF Sized

LEMMA SizeKeptByTake ==
  ASSUME NEW j, Sized(j), NEW way, NEW old, NEW ret
  PROVE  Sized([j EXCEPT !.way = way, !.old = old, !.ret = ret])
BY DEF Sized

LEMMA SizeKeptByMark ==
  ASSUME NEW j, Sized(j), NEW i, NEW ret
  PROVE  Sized([j EXCEPT !.index = i, !.ret = ret])
BY DEF Sized

LEMMA alloc_body_Tiled ==
  ASSUME TiledInv, PoolSize \in Nat, NEW t \in Threads, alloc_body(t)
  PROVE  TiledInv'
<1> PICK size : size = job[t].size
  OBVIOUS
<1>1. Layout(memoryBlocks, PoolSize) /\ Sized(job[t]) /\ size \in Nat
  BY DEF TiledInv, Sized
<1>2. ASSUME NEW x, NEW label, Answer(t, x, label)
      PROVE  DOMAIN job' = Threads /\ \A u \in Threads : Sized(job'[u])
  <2> PICK j : j = [job[t] EXCEPT !.ret = x]
    OBVIOUS
  <2>1. job' = [job EXCEPT ![t] = j]
    BY <1>2 DEF Answer
  <2>2. Sized(j)
    BY <1>1, SizeKept
  <2> QED  BY <2>1, <2>2, StaysSized
<1>3. CASE \E x \in {0, NULL} : Answer(t, x, "alloc_unlock") /\ UNCHANGED memoryBlocks
  BY <1>1, <1>2, <1>3 DEF TiledInv
<1>4. ASSUME size > 0, NEW i \in FirstFit(memoryBlocks, size),
             memoryBlocks' = Carve(memoryBlocks, i, size),
             Answer(t, memoryBlocks[i].startAdress, "alloc_unlock")
      PROVE  TiledInv'
  <2>1. size \in Nat \ {0}
    BY <1>1, <1>4
  <2>2. Layout(Carve(memoryBlocks, i, size), PoolSize)
    BY <1>1, <2>1, CarveLayout
  <2> QED  BY <1>2, <1>4, <2>2 DEF TiledInv
<1>5. ASSUME NEW i \in FirstFit(memoryBlocks, size),
             memoryBlocks' = [memoryBlocks EXCEPT ![i].isUsed = TRUE],
             job' = [job EXCEPT ![t].index = i, ![t].ret = NULL]
      PROVE  TiledInv'
  <2> PICK b : b = [memoryBlocks[i] EXCEPT !.isUsed = TRUE]
    OBVIOUS
  <2> PICK bs : bs = [memoryBlocks EXCEPT ![i] = b]
    OBVIOUS
  <2> PICK j : j = [job[t] EXCEPT !.index = i, !.ret = NULL]
    OBVIOUS
  <2>1. i \in DOMAIN memoryBlocks /\ memoryBlocks[i] \in BlockType
    BY <1>1 DEF Layout, FirstFit
  <2>2. b \in BlockType /\ b.startAdress = memoryBlocks[i].startAdress
        /\ b.size = memoryBlocks[i].size
    BY <2>1 DEF BlockType
  <2>3. PoolSize \in Nat /\ i \in DOMAIN memoryBlocks /\ bs = [memoryBlocks EXCEPT ![i] = b]
    BY <2>1
  <2>4. Layout(bs, PoolSize)
    BY ONLY <1>1, <2>2, <2>3, MarkedLayout
  <2>5. Sized(j)
    BY <1>1, SizeKeptByMark
  <2>6. job' = [job EXCEPT ![t] = j]
    BY <1>5
  <2>7. DOMAIN job' = Threads /\ \A u \in Threads : Sized(job'[u])
    BY <2>5, <2>6, StaysSized
  <2>8. memoryBlocks' = bs
    BY <1>5
  <2> QED  BY <2>4, <2>7, <2>8 DEF TiledInv
<1> QED  BY <1>3, <1>4, <1>5 DEF alloc_body

LEMMA alloc_undo_Tiled ==
  ASSUME TiledInv, PoolSize \in Nat, NEW t \in Threads, alloc_undo(t)
  PROVE  TiledInv'
<1> PICK i : i = job[t].index
  OBVIOUS
<1>1. UNCHANGED job
  BY DEF alloc_undo
<1>2. CASE i \notin DOMAIN memoryBlocks
  BY <1>2 DEF alloc_undo, TiledInv
<1>3. CASE i \in DOMAIN memoryBlocks
  <2> PICK bs : bs = Unmark(memoryBlocks, i)
    OBVIOUS
  <2>1. memoryBlocks' = bs
    BY <1>3 DEF alloc_undo
  <2>2. Layout(memoryBlocks, PoolSize) /\ PoolSize \in Nat /\ i \in DOMAIN memoryBlocks
    BY <1>3 DEF TiledInv
  <2>3. Layout(bs, PoolSize)
    BY ONLY <2>2, bs = Unmark(memoryBlocks, i), UnmarkedLayout
  <2> QED  BY <1>1, <2>1, <2>3, OnlyTheArray
<1> QED  BY <1>2, <1>3

LEMMA free_body_Tiled ==
  ASSUME TiledInv, PoolSize \in Nat, NEW t \in Threads, free_body(t)
  PROVE  TiledInv'
<1>1. Layout(AfterFree(memoryBlocks, job[t].was.ptr), PoolSize)
  BY AfterFreeLayout DEF TiledInv
<1> QED  BY <1>1, OnlyTheArray DEF free_body

LEMMA resize_body_Tiled ==
  ASSUME TiledInv, PoolSize \in Nat, NEW t \in Threads, resize_body(t)
  PROVE  TiledInv'
<1> PICK p, size : p = job[t].was.ptr /\ size = job[t].size
  OBVIOUS
<1>1. Layout(memoryBlocks, PoolSize) /\ Sized(job[t]) /\ size \in Nat
  BY DEF TiledInv, Sized
<1>2. ASSUME NEW way, NEW old, NEW ret, NEW label, Take(t, way, old, ret, label)
      PROVE  DOMAIN job' = Threads /\ \A u \in Threads : Sized(job'[u])
  <2> PICK j : j = [job[t] EXCEPT !.way = way, !.old = old, !.ret = ret]
    OBVIOUS
  <2>1. job' = [job EXCEPT ![t] = j]
    BY <1>2 DEF Take
  <2>2. Sized(j)
    BY <1>1, SizeKeptByTake
  <2> QED  BY <2>1, <2>2, StaysSized
<1>3. DOMAIN job' = Threads /\ \A u \in Threads : Sized(job'[u])
  BY <1>2 DEF resize_body
<1>4. CASE UNCHANGED memoryBlocks
  BY <1>1, <1>3, <1>4 DEF TiledInv
<1>5. ASSUME NEW i \in LastAt(memoryBlocks, p), memoryBlocks[i].size < size,
             CanGrowRight(memoryBlocks, i, size),
             memoryBlocks' = GrowRight(memoryBlocks, i, size)
      PROVE  TiledInv'
  <2>1. i \in DOMAIN memoryBlocks
    BY DEF LastAt
  <2>2. Layout(GrowRight(memoryBlocks, i, size), PoolSize)
    BY <1>1, <1>5, <2>1, GrowRightLayout
  <2> QED  BY <1>3, <1>5, <2>2 DEF TiledInv
<1> QED  BY <1>4, <1>5 DEF resize_body

LEMMA resize_move_Tiled ==
  ASSUME TiledInv, NEW t \in Threads, resize_move(t)
  PROVE  TiledInv'
<1>1. UNCHANGED memoryBlocks
  BY DEF resize_move
<1>2. CASE UNCHANGED job
  BY <1>1, <1>2 DEF TiledInv
<1>3. CASE job' = [job EXCEPT ![t].moved = Copied(job[t])]
  <2> PICK j : j = [job[t] EXCEPT !.moved = Copied(job[t])]
    OBVIOUS
  <2>1. Sized(j)
    BY SizeKept DEF TiledInv
  <2>2. job' = [job EXCEPT ![t] = j]
    BY <1>3
  <2> QED  BY <1>1, <2>1, <2>2, OnlyTheCall
<1> QED  BY <1>2, <1>3 DEF resize_move

LEMMA StepTiled ==
  ASSUME TiledInv, [Next]_vars
  PROVE  TiledInv'
<1>1. PoolSize \in Nat /\ Sizes \subseteq Nat
  BY PoolAssumption
<1>2. CASE UNCHANGED vars
  BY <1>2 DEF TiledInv, vars
<1>3. ASSUME NEW t \in Threads, Step(t)
      PROVE  TiledInv'
  <2>1. CASE CallAlloc(t)
    BY <1>1, <2>1, Start_Tiled DEF CallAlloc
  <2>2. CASE CallFree(t)
    BY <2>2, Start_Tiled DEF CallFree
  <2>3. CASE CallResize(t)
    BY <1>1, <2>3, Start_Tiled DEF CallResize
  <2>4. CASE fill(t)
    <3>1. Sized(NoJob)
      BY CallSized DEF NoJob
    <3>2. job' = [job EXCEPT ![t] = NoJob] /\ UNCHANGED memoryBlocks
      BY <2>4 DEF fill
    <3> QED  BY <3>1, <3>2, OnlyTheCall
  <2>5. CASE Lock(t)
    BY <2>5 DEF Lock, TiledInv
  <2>6. CASE alloc_body(t)
    BY <1>1, <2>6, alloc_body_Tiled
  <2>7. CASE alloc_undo(t)
    BY <1>1, <2>7, alloc_undo_Tiled
  <2>8. CASE free_body(t)
    BY <1>1, <2>8, free_body_Tiled
  <2>9. CASE resize_body(t)
    BY <1>1, <2>9, resize_body_Tiled
  <2>10. CASE resize_move(t)
    BY <2>10, resize_move_Tiled
  <2>11. CASE alloc_unlock(t) \/ free_unlock(t) \/ resize_unlock(t)
    <3>1. UNCHANGED memoryBlocks
      BY <2>11 DEF alloc_unlock, free_unlock, resize_unlock
    <3>2. Return(t) \/ UNCHANGED job
      BY <2>11 DEF alloc_unlock, free_unlock, resize_unlock
    <3>3. CASE UNCHANGED job
      BY <3>1, <3>3 DEF TiledInv
    <3>4. CASE Return(t)
      BY <3>1, <3>4, Return_Tiled
    <3> QED  BY <3>2, <3>3, <3>4
  <2> QED  BY <1>3, <2>1, <2>2, <2>3, <2>4, <2>5, <2>6, <2>7, <2>8, <2>9, <2>10, <2>11
           DEF Step
<1> QED  BY <1>2, <1>3 DEF Next

(* Between any two steps of any threads, mem_resize's middle included, the  *)
(* blocks cover the pool exactly, also after a realloc that was refused.    *)
THEOREM PoolTiledUnderThreads == Spec => []PoolTiled
<1>1. Init => TiledInv
  <2> SUFFICES ASSUME Init
               PROVE  TiledInv
    OBVIOUS
  <2>1. Layout(memoryBlocks, PoolSize)
    BY PoolAssumption, FreshPool DEF Init, WellFormed
  <2>2. Sized(NoJob)
    BY CallSized DEF NoJob
  <2>3. job = [t \in Threads |-> NoJob]
    BY DEF Init
  <2> QED  BY <2>1, <2>2, <2>3 DEF TiledInv
<1>2. TiledInv /\ [Next]_vars => TiledInv'
  BY StepTiled
<1>3. TiledInv => PoolTiled
  BY DEF TiledInv, Layout, PoolTiled
<1> QED  BY <1>1, <1>2, <1>3, PTL DEF Spec

-----------------------------------------------------------------------------
(* Who has which block.  Between the start and the end of a call a thread    *)
(* has no more than the arguments and local variables of the call: the block *)
(* it passed, until that is freed, and the block it is to get.               *)
Handed(ptr, size) == IF ptr = NULL THEN {} ELSE {Block(ptr, size, TRUE)}

(* The labels at which the block passed to the call is not freed yet. *)
KeepsOld(label, j) ==
  \/ label \in {"free_lock", "free_body", "resize_lock", "resize_body"}
  \/ label \in {"alloc_lock", "alloc_body", "alloc_unlock", "resize_move"} /\ j.way = "elsewhere"
  \/ label = "resize_unlock" /\ j.ret = NULL

Kinds == {"slot", "was", "new"}

(* Of a thread at "label" with job j and slots h. *)
ClaimIn(label, j, h, k, w) ==
  IF w = "slot" THEN Handed(h[k].ptr, h[k].size)
  ELSE IF j.slot # k THEN {}
  ELSE IF w = "new" THEN Handed(j.ret, j.size)
  ELSE IF KeepsOld(label, j) THEN Handed(j.was.ptr, j.was.size)
  ELSE {}

Places == Threads \X Slots \X Kinds

Claims == [p \in Places |-> ClaimIn(pc[p[1]], job[p[1]], held[p[1]], p[2], p[3])]

(* The claims C are claims to the blocks U, to each exactly one. *)
Accounts(C, P, U) ==
  /\ \A p \in P : C[p] \subseteq U
  /\ \A b \in U : \E p \in P : b \in C[p]
  /\ \A p, q \in P : \A b \in C[p] : b \in C[q] => p = q

(* What a thread knows of its own call. *)
KnowsIn(label, j, h) ==
  /\ \A k \in Slots : h[k].ptr = NULL => h[k] = Empty
  /\ j.was.ptr = NULL => j.was = Empty
  /\ label \in {"idle", "fill", "alloc_lock", "alloc_body", "resize_lock", "resize_body"}
       => j.ret = NULL
  /\ label \notin {"idle", "fill"} => h[j.slot] = Empty
  /\ j.op = "mem_alloc" => j.was = Empty /\ j.way = "none"
  /\ j.op = "mem_free" => j.ret = NULL
  /\ j.op = "mem_resize" /\ label \in InAlloc \cup {"resize_move"}
       => j.way \in {"growing", "shrinking", "elsewhere"}
  /\ j.op = "mem_resize" /\ label \in InFree
       => j.way \in {"growing", "shrinking", "elsewhere"} /\ (j.way = "elsewhere" <=> j.ret # NULL)
  /\ j.op \in {"mem_alloc", "mem_resize"} => j.size # 0

Knows(t) == KnowsIn(pc[t], job[t], held[t])

OwnInv ==
  /\ IInv
  /\ \A t \in Threads : Knows(t)
  /\ Accounts(Claims, Places, HandedOut(memoryBlocks))

-----------------------------------------------------------------------------
(* How claims may change. *)
LEMMA ClaimHandedOver ==
  ASSUME NEW P, NEW U, NEW C, NEW D, Accounts(C, P, U),
         NEW a \in P, NEW b \in P, a # b,
         C[b] = {}, D[b] = C[a], D[a] = {},
         \A p \in P : p # a /\ p # b => D[p] = C[p]
  PROVE  Accounts(D, P, U)
<1>1. \A p \in P : D[p] \subseteq U
  BY DEF Accounts
<1>2. ASSUME NEW x \in U PROVE \E p \in P : x \in D[p]
  <2> PICK p \in P : x \in C[p]
    BY DEF Accounts
  <2> QED  BY <1>2
<1>3. \A p \in P : D[p] = IF p = a THEN {} ELSE IF p = b THEN C[a] ELSE C[p]
  OBVIOUS
<1>4. \A p, q \in P : \A x \in D[p] : x \in D[q] => p = q
  BY <1>3 DEF Accounts
<1> QED  BY <1>1, <1>2, <1>4 DEF Accounts

LEMMA ClaimGained ==
  ASSUME NEW P, NEW U, NEW C, NEW D, Accounts(C, P, U),
         NEW b \in P, NEW x, x \notin U, C[b] = {}, D[b] = {x},
         \A p \in P : p # b => D[p] = C[p]
  PROVE  Accounts(D, P, U \cup {x})
<1>1. \A p \in P : D[p] = IF p = b THEN {x} ELSE C[p]
  OBVIOUS
<1>2. \A p \in P : D[p] \subseteq U \cup {x}
  BY <1>1 DEF Accounts
<1>3. ASSUME NEW y \in U \cup {x} PROVE \E p \in P : y \in D[p]
  <2>1. CASE y = x
    BY <1>1, <2>1
  <2>2. CASE y # x
    <3> PICK p \in P : y \in C[p]
      BY <2>2 DEF Accounts
    <3> QED  BY <1>1
  <2> QED  BY <2>1, <2>2
<1>4. \A p \in P : x \notin C[p]
  BY DEF Accounts
<1>5. \A p, q \in P : \A y \in D[p] : y \in D[q] => p = q
  BY <1>1, <1>4 DEF Accounts
<1> QED  BY <1>2, <1>3, <1>5 DEF Accounts

LEMMA ClaimLost ==
  ASSUME NEW P, NEW U, NEW C, NEW D, Accounts(C, P, U),
         NEW a \in P, NEW x, C[a] = {x}, D[a] = {},
         \A p \in P : p # a => D[p] = C[p]
  PROVE  Accounts(D, P, U \ {x})
<1>1. \A p \in P : D[p] = IF p = a THEN {} ELSE C[p]
  OBVIOUS
<1>2. \A p \in P : p # a => x \notin C[p]
  BY DEF Accounts
<1>3. \A p \in P : D[p] \subseteq U \ {x}
  BY <1>1, <1>2 DEF Accounts
<1>4. ASSUME NEW y \in U \ {x} PROVE \E p \in P : y \in D[p]
  <2> PICK p \in P : y \in C[p]
    BY DEF Accounts
  <2> QED  BY <1>1
<1>5. \A p, q \in P : \A y \in D[p] : y \in D[q] => p = q
  BY <1>1 DEF Accounts
<1> QED  BY <1>3, <1>4, <1>5 DEF Accounts

LEMMA ClaimExchanged ==
  ASSUME NEW P, NEW U, NEW C, NEW D, Accounts(C, P, U),
         NEW a \in P, NEW b \in P, a # b, NEW x, NEW y, y \notin U \ {x},
         C[a] = {x}, C[b] = {}, D[a] = {}, D[b] = {y},
         \A p \in P : p # a /\ p # b => D[p] = C[p]
  PROVE  Accounts(D, P, (U \ {x}) \cup {y})
<1> PICK E : E = [p \in P |-> IF p = a THEN {} ELSE C[p]]
  OBVIOUS
<1>1. Accounts(E, P, U \ {x})
  <2>1. E[a] = {} /\ \A p \in P : p # a => E[p] = C[p]
    OBVIOUS
  <2> QED  BY ONLY <2>1, ClaimLost, Accounts(C, P, U), a \in P, C[a] = {x}
<1>2. /\ E[b] = {} /\ D[b] = {y} /\ y \notin U \ {x} /\ b \in P
      /\ \A p \in P : p # b => D[p] = E[p]
  OBVIOUS
<1> PICK V : V = U \ {x}
  OBVIOUS
<1>3. Accounts(E, P, V) /\ y \notin V
  BY <1>1, <1>2
<1>4. Accounts(D, P, V \cup {y})
  BY ONLY <1>2, <1>3, ClaimGained
<1> QED  BY <1>4

-----------------------------------------------------------------------------
(* A step of thread t brings it to a label, a job and slots. *)
StepOf(t, label, j, h) ==
  /\ pc' = [pc EXCEPT ![t] = label]
  /\ job' = [job EXCEPT ![t] = j]
  /\ held' = [held EXCEPT ![t] = h]

(* All its claims but those to the kinds "ws" in slot s are what they were. *)
SameBut(t, label, j, h, s, ws) ==
  \A k \in Slots, w \in Kinds :
     ~(k = s /\ w \in ws) => ClaimIn(label, j, h, k, w) = ClaimIn(pc[t], job[t], held[t], k, w)

LEMMA ClaimsAfter ==
  ASSUME TypeOK, NEW t \in Threads, NEW label, NEW j, NEW h, StepOf(t, label, j, h),
         NEW p \in Places
  PROVE  /\ p[1] \in Threads /\ p[2] \in Slots /\ p[3] \in Kinds /\ p = <<p[1], p[2], p[3]>>
         /\ Claims[p] = ClaimIn(pc[p[1]], job[p[1]], held[p[1]], p[2], p[3])
         /\ Claims'[p] = IF p[1] = t THEN ClaimIn(label, j, h, p[2], p[3]) ELSE Claims[p]
<1>1. p[1] \in Threads /\ p[2] \in Slots /\ p[3] \in Kinds /\ p = <<p[1], p[2], p[3]>>
  BY DEF Places
<1>2. Claims[p] = ClaimIn(pc[p[1]], job[p[1]], held[p[1]], p[2], p[3])
  BY DEF Claims
<1>3. Claims'[p] = ClaimIn(pc'[p[1]], job'[p[1]], held'[p[1]], p[2], p[3])
  BY DEF Claims
<1>4. p[1] = t => pc'[p[1]] = label /\ job'[p[1]] = j /\ held'[p[1]] = h
  BY DEF TypeOK, StepOf
<1>5. p[1] # t => /\ pc'[p[1]] = pc[p[1]] /\ job'[p[1]] = job[p[1]] /\ held'[p[1]] = held[p[1]]
  BY <1>1 DEF TypeOK, StepOf
<1> QED  BY <1>1, <1>2, <1>3, <1>4, <1>5

(* The four ways a step changes claims. *)
LEMMA Stays ==
  ASSUME TypeOK, NEW t \in Threads, NEW label, NEW j, NEW h, StepOf(t, label, j, h),
         NEW U, Accounts(Claims, Places, U),
         NEW s, SameBut(t, label, j, h, s, {})
  PROVE  Accounts(Claims', Places, U)
<1>1. \A p \in Places : Claims'[p] = Claims[p]
  BY ClaimsAfter DEF SameBut
<1> QED  BY <1>1 DEF Accounts

LEMMA HandsOver ==
  ASSUME TypeOK, NEW t \in Threads, NEW label, NEW j, NEW h, StepOf(t, label, j, h),
         NEW U, Accounts(Claims, Places, U),
         NEW s \in Slots, NEW v \in Kinds, NEW w \in Kinds, v # w,
         SameBut(t, label, j, h, s, {v, w}),
         ClaimIn(pc[t], job[t], held[t], s, w) = {},
         ClaimIn(label, j, h, s, w) = ClaimIn(pc[t], job[t], held[t], s, v),
         ClaimIn(label, j, h, s, v) = {}
  PROVE  Accounts(Claims', Places, U)
<1> PICK C, D, a, b : C = Claims /\ D = Claims' /\ a = <<t, s, v>> /\ b = <<t, s, w>>
  OBVIOUS
<1>1. a \in Places /\ b \in Places /\ a # b
  BY DEF Places
<1>2. C[b] = {} /\ D[b] = C[a] /\ D[a] = {}
  BY <1>1, ClaimsAfter
<1>3. \A p \in Places : p # a /\ p # b => D[p] = C[p]
  BY ClaimsAfter DEF SameBut
<1>4. Accounts(C, Places, U)
  OBVIOUS
<1>5. Accounts(D, Places, U)
  BY ONLY <1>1, <1>2, <1>3, <1>4, ClaimHandedOver
<1> QED  BY <1>5

LEMMA Gains ==
  ASSUME TypeOK, NEW t \in Threads, NEW label, NEW j, NEW h, StepOf(t, label, j, h),
         NEW U, Accounts(Claims, Places, U),
         NEW s \in Slots, NEW w \in Kinds, NEW x, x \notin U,
         SameBut(t, label, j, h, s, {w}),
         ClaimIn(pc[t], job[t], held[t], s, w) = {}, ClaimIn(label, j, h, s, w) = {x}
  PROVE  Accounts(Claims', Places, U \cup {x})
<1> PICK C, D, b : C = Claims /\ D = Claims' /\ b = <<t, s, w>>
  OBVIOUS
<1>1. b \in Places
  BY DEF Places
<1>2. C[b] = {} /\ D[b] = {x}
  BY <1>1, ClaimsAfter
<1>3. \A p \in Places : p # b => D[p] = C[p]
  BY ClaimsAfter DEF SameBut
<1>4. Accounts(C, Places, U) /\ x \notin U
  OBVIOUS
<1>5. Accounts(D, Places, U \cup {x})
  BY ONLY <1>1, <1>2, <1>3, <1>4, ClaimGained
<1> QED  BY <1>5

LEMMA Loses ==
  ASSUME TypeOK, NEW t \in Threads, NEW label, NEW j, NEW h, StepOf(t, label, j, h),
         NEW U, Accounts(Claims, Places, U),
         NEW s \in Slots, NEW w \in Kinds, NEW x,
         SameBut(t, label, j, h, s, {w}),
         ClaimIn(pc[t], job[t], held[t], s, w) = {x}, ClaimIn(label, j, h, s, w) = {}
  PROVE  Accounts(Claims', Places, U \ {x})
<1> PICK C, D, a : C = Claims /\ D = Claims' /\ a = <<t, s, w>>
  OBVIOUS
<1>1. a \in Places
  BY DEF Places
<1>2. C[a] = {x} /\ D[a] = {}
  BY <1>1, ClaimsAfter
<1>3. \A p \in Places : p # a => D[p] = C[p]
  BY ClaimsAfter DEF SameBut
<1>4. Accounts(C, Places, U)
  OBVIOUS
<1>5. Accounts(D, Places, U \ {x})
  BY ONLY <1>1, <1>2, <1>3, <1>4, ClaimLost
<1> QED  BY <1>5

LEMMA Exchanges ==
  ASSUME TypeOK, NEW t \in Threads, NEW label, NEW j, NEW h, StepOf(t, label, j, h),
         NEW U, Accounts(Claims, Places, U),
         NEW s \in Slots, NEW v \in Kinds, NEW w \in Kinds, v # w,
         NEW x, NEW y, y \notin U \ {x},
         SameBut(t, label, j, h, s, {v, w}),
         ClaimIn(pc[t], job[t], held[t], s, v) = {x}, ClaimIn(label, j, h, s, v) = {},
         ClaimIn(pc[t], job[t], held[t], s, w) = {}, ClaimIn(label, j, h, s, w) = {y}
  PROVE  Accounts(Claims', Places, (U \ {x}) \cup {y})
<1> PICK C, D, a, b : C = Claims /\ D = Claims' /\ a = <<t, s, v>> /\ b = <<t, s, w>>
  OBVIOUS
<1>1. a \in Places /\ b \in Places /\ a # b
  BY DEF Places
<1>2. C[a] = {x} /\ D[a] = {}
  BY <1>1, ClaimsAfter
<1>3. C[b] = {} /\ D[b] = {y}
  BY <1>1, ClaimsAfter
<1>4. \A p \in Places : p # a /\ p # b => D[p] = C[p]
  BY ClaimsAfter DEF SameBut
<1>5. Accounts(C, Places, U) /\ y \notin U \ {x}
  OBVIOUS
<1>6. Accounts(D, Places, (U \ {x}) \cup {y})
  BY ONLY <1>1, <1>2, <1>3, <1>4, <1>5, ClaimExchanged, SMTT(20)
<1> QED  BY <1>6

-----------------------------------------------------------------------------
(* What a step is to show: the threads still know what they know, and each   *)
(* block that is handed out is one thread's.                                 *)
StillOwned ==
  /\ \A u \in Threads : KnowsIn(pc'[u], job'[u], held'[u])
  /\ Accounts(Claims', Places, HandedOut(memoryBlocks'))

LEMMA OthersKnow ==
  ASSUME TypeOK, \A u \in Threads : Knows(u), NEW t \in Threads,
         NEW label, NEW j, NEW h, StepOf(t, label, j, h), KnowsIn(label, j, h)
  PROVE  \A u \in Threads : KnowsIn(pc'[u], job'[u], held'[u])
<1> SUFFICES ASSUME NEW u \in Threads PROVE KnowsIn(pc'[u], job'[u], held'[u])
  OBVIOUS
<1>1. u = t => pc'[u] = label /\ job'[u] = j /\ held'[u] = h
  BY DEF TypeOK, StepOf
<1>2. u # t => pc'[u] = pc[u] /\ job'[u] = job[u] /\ held'[u] = held[u]
  BY DEF TypeOK, StepOf
<1> QED  BY <1>1, <1>2 DEF Knows

LEMMA SlotsUnchanged ==
  ASSUME TypeOK, NEW t \in Threads, UNCHANGED held
  PROVE  held' = [held EXCEPT ![t] = held[t]]
BY DEF TypeOK

(* A step that leaves the array and the claims as they are. *)
LEMMA NothingChangesHands ==
  ASSUME OwnInv, NEW t \in Threads, NEW label, NEW j, NEW h, StepOf(t, label, j, h),
         KnowsIn(label, j, h), NEW s, SameBut(t, label, j, h, s, {}), UNCHANGED memoryBlocks
  PROVE  StillOwned
<1>1. TypeOK /\ \A u \in Threads : Knows(u)
  BY DEF OwnInv, IInv
<1>2. \A u \in Threads : KnowsIn(pc'[u], job'[u], held'[u])
  BY <1>1, OthersKnow
<1> PICK U : U = HandedOut(memoryBlocks)
  OBVIOUS
<1>3. Accounts(Claims, Places, U)
  BY DEF OwnInv
<1>4. Accounts(Claims', Places, U)
  BY <1>1, <1>3, Stays
<1> QED  BY <1>2, <1>4 DEF StillOwned

LEMMA Start_Owned ==
  ASSUME OwnInv, NEW t \in Threads, NEW k \in Slots, NEW size \in Nat,
         NEW op, NEW label,
         <<op, label>> \in {<<"mem_alloc", "alloc_lock">>, <<"mem_free", "free_lock">>,
                            <<"mem_resize", "resize_lock">>},
         op = "mem_alloc" => held[t][k] = Empty,
         op \in {"mem_alloc", "mem_resize"} => size # 0,
         Start(t, op, k, size, label)
  PROVE  StillOwned
<1> PICK H : H = held[t]
  OBVIOUS
<1> PICK j : j = Job(op, k, H[k], size)
  OBVIOUS
<1> PICK h : h = [H EXCEPT ![k] = Empty]
  OBVIOUS
<1>1. TypeOK /\ \A u \in Threads : Knows(u)
  BY DEF OwnInv, IInv
<1>2. pc[t] = "idle" /\ UNCHANGED memoryBlocks /\ StepOf(t, label, j, h)
  BY DEF Start, Goto, StepOf
<1>3. /\ op \in {"mem_alloc", "mem_free", "mem_resize"}
      /\ label \in {"alloc_lock", "free_lock", "resize_lock"}
      /\ op = "mem_resize" <=> label = "resize_lock"
      /\ op = "mem_alloc" <=> label = "alloc_lock"
  OBVIOUS
<1>4. /\ j.op = op /\ j.slot = k /\ j.was = H[k] /\ j.size = size /\ j.way = "none"
      /\ j.ret = NULL
  BY DEF Job
<1>5. H \in [Slots -> SlotType] /\ h[k] = Empty /\ \A i \in Slots : i # k => h[i] = H[i]
  BY <1>1 DEF TypeOK
<1>6. KnowsIn("idle", job[t], H)
  BY <1>1, <1>2 DEF Knows
<1>7. Empty.ptr = NULL
  BY DEF Empty
<1>8. KnowsIn(label, j, h)
  BY <1>3, <1>4, <1>5, <1>6 DEF KnowsIn, InAlloc, InFree
<1>9. job[t].ret = NULL
  BY <1>6 DEF KnowsIn
<1>10. SameBut(t, label, j, h, k, {"slot", "was"})
  BY <1>2, <1>4, <1>5, <1>9 DEF SameBut, ClaimIn, Kinds, KeepsOld, Handed
<1>11. /\ ClaimIn(pc[t], job[t], held[t], k, "was") = {}
       /\ ClaimIn(label, j, h, k, "slot") = {}
  BY <1>2, <1>5, <1>7 DEF ClaimIn, KeepsOld, Handed
<1>12. ClaimIn(label, j, h, k, "was") = ClaimIn(pc[t], job[t], held[t], k, "slot")
  <2>1. ClaimIn(pc[t], job[t], held[t], k, "slot") = Handed(H[k].ptr, H[k].size)
    BY DEF ClaimIn
  <2>2. CASE op = "mem_alloc"
    BY <1>3, <1>4, <1>7, <2>1, <2>2 DEF ClaimIn, KeepsOld, Handed
  <2>3. CASE op # "mem_alloc"
    BY <1>3, <1>4, <2>1, <2>3 DEF ClaimIn, KeepsOld
  <2> QED  BY <2>2, <2>3
<1> PICK U : U = HandedOut(memoryBlocks)
  OBVIOUS
<1>13. Accounts(Claims, Places, U)
  BY DEF OwnInv
<1>14. "slot" \in Kinds /\ "was" \in Kinds /\ "slot" # "was"
  BY DEF Kinds
<1>15. Accounts(Claims', Places, U)
  BY ONLY <1>1, <1>2, <1>10, <1>11, <1>12, <1>13, <1>14, HandsOver, t \in Threads, k \in Slots
<1>16. \A u \in Threads : KnowsIn(pc'[u], job'[u], held'[u])
  BY <1>1, <1>2, <1>8, OthersKnow
<1> QED  BY <1>2, <1>15, <1>16 DEF StillOwned

LEMMA fill_Owned ==
  ASSUME OwnInv, NEW t \in Threads, fill(t)
  PROVE  StillOwned
<1> PICK H, k : H = held[t] /\ k = job[t].slot
  OBVIOUS
<1> PICK b : b = H[k]
  OBVIOUS
<1> PICK c : c = [b EXCEPT !.filled = b.size]
  OBVIOUS
<1> PICK h : h = [H EXCEPT ![k] = c]
  OBVIOUS
<1>1. TypeOK /\ (\A u \in Threads : Knows(u)) /\ JobFits(t)
  BY DEF OwnInv, IInv
<1>2. pc[t] = "fill" /\ UNCHANGED memoryBlocks
  BY DEF fill
<1>3. H \in [Slots -> SlotType] /\ k \in Slots
  BY <1>1, <1>2 DEF TypeOK, JobFits
<1>4. b \in SlotType
  BY <1>3
<1>5. c.ptr = b.ptr /\ c.size = b.size /\ c.filled = b.size
      /\ c = [ptr |-> b.ptr, size |-> b.size, filled |-> b.size]
  BY <1>4 DEF SlotType
<1>6. held' = [held EXCEPT ![t] = h]
  <2>1. held' = [held EXCEPT ![t] = [held[t] EXCEPT ![k] = c]]
    BY DEF fill
  <2> QED  BY <2>1
<1>7. StepOf(t, "idle", NoJob, h)
  BY <1>6 DEF fill, Goto, StepOf
<1>8. KnowsIn("fill", job[t], H)
  BY <1>1, <1>2 DEF Knows
<1>9. b.ptr = NULL => c = Empty
  <2>1. b.ptr = NULL => b = Empty
    BY <1>3, <1>8 DEF KnowsIn
  <2> QED  BY <1>5, <2>1 DEF Empty
<1>10. \A i \in Slots : h[i] = IF i = k THEN c ELSE H[i]
  BY <1>3
<1>11. NoJob.op = "none" /\ NoJob.was = Empty /\ NoJob.ret = NULL
  BY DEF NoJob, Job
<1>12. \A i \in Slots : h[i].ptr = NULL => h[i] = Empty
  BY <1>5, <1>8, <1>9, <1>10 DEF KnowsIn
<1>13. KnowsIn("idle", NoJob, h)
  BY <1>11, <1>12 DEF KnowsIn
<1>14. job[t].ret = NULL
  BY <1>8 DEF KnowsIn
<1>15. SameBut(t, "idle", NoJob, h, k, {})
  <2>1. \A i \in Slots : h[i].ptr = H[i].ptr /\ h[i].size = H[i].size
    BY <1>5, <1>10
  <2>2. ~KeepsOld("idle", NoJob) /\ ~KeepsOld("fill", job[t])
    BY DEF KeepsOld
  <2> SUFFICES ASSUME NEW i \in Slots, NEW w \in Kinds
               PROVE  ClaimIn("idle", NoJob, h, i, w) = ClaimIn("fill", job[t], H, i, w)
    BY <1>2 DEF SameBut
  <2> QED  BY <1>11, <1>14, <2>1, <2>2 DEF ClaimIn, Handed
<1> QED  BY <1>2, <1>7, <1>13, <1>15, NothingChangesHands

LEMMA Lock_Owned ==
  ASSUME OwnInv, NEW t \in Threads, Lock(t)
  PROVE  StillOwned
<1> PICK L, j, h, label : L = pc[t] /\ j = job[t] /\ h = held[t] /\ label = Acquire[L]
  OBVIOUS
<1>1. TypeOK /\ (\A u \in Threads : Knows(u)) /\ JobFits(t)
  BY DEF OwnInv, IInv
<1>2. /\ L \in {"alloc_lock", "free_lock", "resize_lock"}
      /\ label = IF L = "alloc_lock" THEN "alloc_body"
                 ELSE IF L = "free_lock" THEN "free_body" ELSE "resize_body"
  BY DEF Lock, Acquire
<1>3. /\ pc' = [pc EXCEPT ![t] = label] /\ UNCHANGED <<job, held, memoryBlocks>>
  BY DEF Lock, Goto
<1>4. StepOf(t, label, j, h)
  BY <1>1, <1>3, JobUnchanged, SlotsUnchanged DEF StepOf
<1>5. KnowsIn(L, j, h)
  BY <1>1 DEF Knows
<1>6. KnowsIn(label, j, h)
  BY <1>2, <1>5 DEF KnowsIn, InAlloc, InFree
<1>7. KeepsOld(label, j) <=> KeepsOld(L, j)
  BY <1>2 DEF KeepsOld
<1>8. SameBut(t, label, j, h, NULL, {})
  BY <1>7 DEF SameBut, ClaimIn
<1> QED  BY <1>3, <1>4, <1>6, <1>8, NothingChangesHands

(* A step within a call leaves the other slots alone. *)
LEMMA OnlyItsSlot ==
  ASSUME NEW t, NEW label, NEW j, NEW h, NEW k, NEW ws,
         j.slot = k, job[t].slot = k,
         \A i \in Slots : i # k => h[i] = held[t][i],
         \A w \in Kinds \ ws :
            ClaimIn(label, j, h, k, w) = ClaimIn(pc[t], job[t], held[t], k, w)
  PROVE  SameBut(t, label, j, h, k, ws)
<1> SUFFICES ASSUME NEW i \in Slots, NEW w \in Kinds, ~(i = k /\ w \in ws)
             PROVE  ClaimIn(label, j, h, i, w) = ClaimIn(pc[t], job[t], held[t], i, w)
  BY DEF SameBut
<1>1. CASE i = k
  BY <1>1
<1>2. CASE i # k
  BY <1>2 DEF ClaimIn
<1> QED  BY <1>1, <1>2

LEMMA ClaimsOfACall ==
  ASSUME NEW label, NEW j, NEW h, NEW k, j.slot = k
  PROVE  /\ ClaimIn(label, j, h, k, "slot") = Handed(h[k].ptr, h[k].size)
         /\ ClaimIn(label, j, h, k, "new") = Handed(j.ret, j.size)
         /\ ClaimIn(label, j, h, k, "was") =
              IF KeepsOld(label, j) THEN Handed(j.was.ptr, j.was.size) ELSE {}
         /\ "slot" \in Kinds /\ "was" \in Kinds /\ "new" \in Kinds
         /\ "slot" # "was" /\ "slot" # "new" /\ "was" # "new"
         /\ Kinds = {"slot", "was", "new"}
BY DEF ClaimIn, Kinds

(* A call that returns: the slot gets the new block, or the old one back. *)
LEMMA Return_Owned ==
  ASSUME OwnInv, NEW t \in Threads, Return(t), UNCHANGED memoryBlocks,
         pc[t] \in {"alloc_unlock", "free_unlock", "resize_unlock"},
         job[t].op = "mem_free" => ~KeepsOld(pc[t], job[t]),
         job[t].op # "mem_free" /\ job[t].was.ptr # NULL
           => (KeepsOld(pc[t], job[t]) <=> job[t].ret = NULL)
  PROVE  StillOwned
<1> PICK L, H, c, k : L = pc[t] /\ H = held[t] /\ c = job[t] /\ k = c.slot
  OBVIOUS
<1> PICK n : n = IF c.was.filled < c.size THEN c.was.filled ELSE c.size
  OBVIOUS
<1> PICK b : b = IF c.op = "mem_free" THEN Empty
                 ELSE IF c.ret = NULL THEN c.was
                 ELSE [ptr |-> c.ret, size |-> c.size, filled |-> n]
  OBVIOUS
<1> PICK h : h = [H EXCEPT ![k] = b]
  OBVIOUS
<1> PICK j : j = Job("none", k, Empty, 0)
  OBVIOUS
<1> PICK label : label = IF b = Empty THEN "idle" ELSE "fill"
  OBVIOUS
<1>1. TypeOK /\ (\A u \in Threads : Knows(u)) /\ JobFits(t)
  BY DEF OwnInv, IInv
<1>2. StepOf(t, label, j, h)
  BY DEF StepOf, Return, Goto
<1>3. H \in [Slots -> SlotType] /\ k \in Slots
  BY <1>1 DEF TypeOK, JobFits
<1>4. KnowsIn(L, c, H)
  BY <1>1 DEF Knows
<1>5. H[k] = Empty /\ Empty.ptr = NULL
  BY <1>4 DEF KnowsIn, Empty
<1>6. /\ c.op = "mem_free" => b = Empty
      /\ c.op # "mem_free" /\ c.ret = NULL => b = c.was
      /\ c.ret # NULL => c.op # "mem_free" /\ b.ptr = c.ret /\ b.size = c.size
  BY <1>4 DEF KnowsIn
<1>7. b.ptr = NULL => b = Empty
  BY <1>4, <1>6 DEF KnowsIn
<1>8. h[k] = b /\ \A i \in Slots : i # k => h[i] = H[i]
  BY <1>3
<1>9. j.slot = k /\ j.op = "none" /\ j.was = Empty /\ j.ret = NULL
  BY DEF Job
<1>10. label \in {"idle", "fill"}
  OBVIOUS
<1>11. KnowsIn(label, j, h)
  <2>1. \A i \in Slots : h[i].ptr = NULL => h[i] = Empty
    BY <1>4, <1>7, <1>8 DEF KnowsIn
  <2> QED  BY ONLY <1>9, <1>10, <2>1 DEF KnowsIn
<1>12. ~KeepsOld(label, j)
  BY <1>10 DEF KeepsOld
<1>13. Handed(NULL, c.size) = {} /\ Handed(H[k].ptr, H[k].size) = {} /\ Handed(j.ret, j.size) = {}
  BY <1>5, <1>9 DEF Handed
<1>14. /\ ClaimIn(L, c, H, k, "slot") = {} /\ ClaimIn(L, c, H, k, "new") = Handed(c.ret, c.size)
       /\ ClaimIn(L, c, H, k, "was") = IF KeepsOld(L, c) THEN Handed(c.was.ptr, c.was.size) ELSE {}
       /\ ClaimIn(label, j, h, k, "slot") = Handed(b.ptr, b.size)
       /\ ClaimIn(label, j, h, k, "new") = {} /\ ClaimIn(label, j, h, k, "was") = {}
  <2>1. c.slot = k
    OBVIOUS
  <2>2. /\ ClaimIn(L, c, H, k, "slot") = Handed(H[k].ptr, H[k].size)
        /\ ClaimIn(L, c, H, k, "new") = Handed(c.ret, c.size)
        /\ ClaimIn(L, c, H, k, "was") = IF KeepsOld(L, c) THEN Handed(c.was.ptr, c.was.size) ELSE {}
    BY <2>1 DEF ClaimIn
  <2>3. /\ ClaimIn(label, j, h, k, "slot") = Handed(h[k].ptr, h[k].size)
        /\ ClaimIn(label, j, h, k, "new") = Handed(j.ret, j.size)
        /\ ClaimIn(label, j, h, k, "was") = IF KeepsOld(label, j) THEN Handed(j.was.ptr, j.was.size) ELSE {}
    BY <1>9 DEF ClaimIn
  <2> QED  BY <1>8, <1>12, <1>13, <2>2, <2>3
<1> PICK U : U = HandedOut(memoryBlocks)
  OBVIOUS
<1>15. Accounts(Claims, Places, U)
  BY DEF OwnInv
<1>16. /\ "slot" \in Kinds /\ "was" \in Kinds /\ "new" \in Kinds
       /\ "slot" # "was" /\ "slot" # "new"
  BY DEF Kinds
<1>17. Accounts(Claims', Places, U)
  <2>1. CASE c.ret = NULL
    <3>1. ClaimIn(L, c, H, k, "new") = {}
      BY <1>13, <1>14, <2>1
    <3>2. Handed(b.ptr, b.size) = ClaimIn(L, c, H, k, "was")
      <4>1. CASE c.op = "mem_free"
        BY <1>5, <1>6, <1>14, <4>1 DEF Handed
      <4>2. CASE c.op # "mem_free"
        BY <1>6, <1>14, <2>1, <4>2 DEF Handed
      <4> QED  BY <4>1, <4>2
    <3>3. SameBut(t, label, j, h, k, {"was", "slot"})
      <4>1. j.slot = k /\ job[t].slot = k /\ \A i \in Slots : i # k => h[i] = held[t][i]
        BY <1>8, <1>9
      <4>2. Kinds \ {"was", "slot"} = {"new"}
        BY DEF Kinds
      <4>3. \A w \in Kinds \ {"was", "slot"} :
               ClaimIn(label, j, h, k, w) = ClaimIn(pc[t], job[t], held[t], k, w)
        BY <1>14, <3>1, <4>2
      <4> QED  BY ONLY <4>1, <4>3, OnlyItsSlot
    <3>4. /\ ClaimIn(pc[t], job[t], held[t], k, "slot") = {}
          /\ ClaimIn(label, j, h, k, "slot") = ClaimIn(pc[t], job[t], held[t], k, "was")
          /\ ClaimIn(label, j, h, k, "was") = {}
      BY <1>14, <3>2
    <3> QED  BY ONLY <1>1, <1>2, <1>3, <1>15, <1>16, <3>3, <3>4, HandsOver, t \in Threads
  <2>2. CASE c.ret # NULL
    <3>1. ClaimIn(L, c, H, k, "was") = {}
      BY <1>6, <1>14, <2>2 DEF Handed
    <3>2. Handed(b.ptr, b.size) = ClaimIn(L, c, H, k, "new")
      BY <1>6, <1>14, <2>2
    <3>3. SameBut(t, label, j, h, k, {"new", "slot"})
      <4>1. j.slot = k /\ job[t].slot = k /\ \A i \in Slots : i # k => h[i] = held[t][i]
        BY <1>8, <1>9
      <4>2. Kinds \ {"new", "slot"} = {"was"}
        BY DEF Kinds
      <4>3. \A w \in Kinds \ {"new", "slot"} :
               ClaimIn(label, j, h, k, w) = ClaimIn(pc[t], job[t], held[t], k, w)
        BY <1>14, <3>1, <4>2
      <4> QED  BY ONLY <4>1, <4>3, OnlyItsSlot
    <3>4. /\ ClaimIn(pc[t], job[t], held[t], k, "slot") = {}
          /\ ClaimIn(label, j, h, k, "slot") = ClaimIn(pc[t], job[t], held[t], k, "new")
          /\ ClaimIn(label, j, h, k, "new") = {}
      BY <1>14, <3>2
    <3> QED  BY ONLY <1>1, <1>2, <1>3, <1>15, <1>16, <3>3, <3>4, HandsOver, t \in Threads
  <2> QED  BY <2>1, <2>2
<1>18. \A u \in Threads : KnowsIn(pc'[u], job'[u], held'[u])
  BY <1>1, <1>2, <1>11, OthersKnow
<1> QED  BY <1>17, <1>18 DEF StillOwned

(* A step within a call that leaves the array, the call and its claims. *)
LEMMA CallGoesOn ==
  ASSUME OwnInv, NEW t \in Threads, NEW label, NEW j,
         pc' = [pc EXCEPT ![t] = label], job' = [job EXCEPT ![t] = j],
         UNCHANGED <<held, memoryBlocks>>,
         KnowsIn(label, j, held[t]),
         j.slot = job[t].slot, j.was = job[t].was, j.size = job[t].size, j.ret = job[t].ret,
         KeepsOld(label, j) <=> KeepsOld(pc[t], job[t])
  PROVE  StillOwned
<1> PICK H, k : H = held[t] /\ k = j.slot
  OBVIOUS
<1>1. TypeOK
  BY DEF OwnInv, IInv
<1>2. StepOf(t, label, j, H)
  BY <1>1, SlotsUnchanged DEF StepOf
<1>3. SameBut(t, label, j, H, k, {})
  BY DEF SameBut, ClaimIn
<1> QED  BY <1>2, <1>3, NothingChangesHands

LEMMA alloc_unlock_Owned ==
  ASSUME OwnInv, NEW t \in Threads, alloc_unlock(t)
  PROVE  StillOwned
<1>1. TypeOK /\ Knows(t) /\ JobFits(t) /\ pc[t] = "alloc_unlock" /\ UNCHANGED memoryBlocks
  BY DEF OwnInv, IInv, alloc_unlock
<1>2. CASE job[t].op = "mem_alloc"
  <2>1. job[t].was = Empty /\ job[t].was.ptr = NULL
    BY <1>1, <1>2 DEF Knows, KnowsIn, Empty
  <2>2. Return(t)
    BY <1>2 DEF alloc_unlock
  <2> QED  BY <1>1, <1>2, <2>1, <2>2, Return_Owned
<1>3. CASE job[t].op # "mem_alloc"
  <2>1. pc' = [pc EXCEPT ![t] = "resize_move"] /\ UNCHANGED <<job, held, memoryBlocks>>
    BY <1>3 DEF alloc_unlock, Goto
  <2>2. job' = [job EXCEPT ![t] = job[t]]
    BY <1>1, <2>1, JobUnchanged
  <2>3. job[t].op = "mem_resize"
    BY <1>1, <1>3 DEF JobFits, InAlloc
  <2>4. KnowsIn("resize_move", job[t], held[t])
    BY <1>1, <2>3 DEF Knows, KnowsIn, InAlloc, InFree
  <2>5. KeepsOld("resize_move", job[t]) <=> KeepsOld(pc[t], job[t])
    BY <1>1 DEF KeepsOld
  <2> QED  BY <2>1, <2>2, <2>4, <2>5, CallGoesOn
<1> QED  BY <1>2, <1>3

LEMMA free_unlock_Owned ==
  ASSUME OwnInv, NEW t \in Threads, free_unlock(t)
  PROVE  StillOwned
<1>1. TypeOK /\ Knows(t) /\ JobFits(t) /\ pc[t] = "free_unlock" /\ UNCHANGED memoryBlocks
  BY DEF OwnInv, IInv, free_unlock
<1>2. ~KeepsOld(pc[t], job[t])
  BY <1>1 DEF KeepsOld
<1>3. CASE job[t].op = "mem_free"
  <2>1. Return(t)
    BY <1>3 DEF free_unlock
  <2> QED  BY <1>1, <1>2, <1>3, <2>1, Return_Owned
<1>4. CASE job[t].op # "mem_free"
  <2> PICK label : label = IF job[t].way = "elsewhere" THEN "resize_unlock" ELSE "alloc_lock"
    OBVIOUS
  <2>1. pc' = [pc EXCEPT ![t] = label] /\ UNCHANGED <<job, held, memoryBlocks>>
    BY <1>4 DEF free_unlock, Goto
  <2>2. job' = [job EXCEPT ![t] = job[t]]
    BY <1>1, <2>1, JobUnchanged
  <2>3. job[t].op = "mem_resize"
    BY <1>1, <1>4 DEF JobFits, InFree
  <2>4. job[t].way \in {"growing", "shrinking", "elsewhere"}
        /\ (job[t].way = "elsewhere" <=> job[t].ret # NULL)
    BY <1>1, <2>3 DEF Knows, KnowsIn, InFree
  <2>5. KnowsIn(label, job[t], held[t])
    BY <1>1, <2>3, <2>4 DEF Knows, KnowsIn, InAlloc, InFree
  <2>6. KeepsOld(label, job[t]) <=> KeepsOld(pc[t], job[t])
    BY <1>2, <2>4 DEF KeepsOld
  <2> QED  BY <2>1, <2>2, <2>5, <2>6, CallGoesOn
<1> QED  BY <1>3, <1>4

LEMMA resize_unlock_Owned ==
  ASSUME OwnInv, NEW t \in Threads, resize_unlock(t)
  PROVE  StillOwned
<1>1. JobFits(t) /\ pc[t] = "resize_unlock" /\ UNCHANGED memoryBlocks /\ Return(t)
  BY DEF OwnInv, IInv, resize_unlock
<1>2. job[t].op = "mem_resize"
  BY <1>1 DEF JobFits, InResize
<1>3. KeepsOld(pc[t], job[t]) <=> job[t].ret = NULL
  BY <1>1 DEF KeepsOld
<1> QED  BY <1>1, <1>2, <1>3, Return_Owned

LEMMA free_body_Owned ==
  ASSUME OwnInv, NEW t \in Threads, free_body(t)
  PROVE  StillOwned
<1> PICK j, H, k, p : j = job[t] /\ H = held[t] /\ k = job[t].slot /\ p = job[t].was.ptr
  OBVIOUS
<1> PICK U, V : U = HandedOut(memoryBlocks) /\ V = HandedOut(memoryBlocks')
  OBVIOUS
<1>1. /\ TypeOK /\ (\A u \in Threads : Knows(u)) /\ JobFits(t)
      /\ WellFormed(memoryBlocks, PoolSize) /\ memoryBlocks \in Seq(BlockType)
      /\ PoolSize \in Nat /\ Accounts(Claims, Places, U)
  BY PoolAssumption DEF OwnInv, IInv, TypeOK
<1>2. pc[t] = "free_body" /\ pc' = [pc EXCEPT ![t] = "free_unlock"] /\ UNCHANGED <<job, held>>
  BY DEF free_body, Goto
<1>3. job' = [job EXCEPT ![t] = j] /\ held' = [held EXCEPT ![t] = H]
  BY <1>1, <1>2, JobUnchanged, SlotsUnchanged
<1>4. StepOf(t, "free_unlock", j, H)
  BY <1>2, <1>3 DEF StepOf
<1>5. KnowsIn("free_unlock", j, H)
  BY <1>1, <1>2 DEF Knows, KnowsIn, InAlloc, InFree
<1>6. k \in Slots /\ j.slot = k
  BY <1>1, <1>2 DEF JobFits
<1>7. V = {b \in U : b.startAdress # p}
  BY <1>1, AfterFreeUsed DEF free_body
<1>8. KeepsOld(pc[t], job[t]) /\ ~KeepsOld("free_unlock", j)
  BY <1>2 DEF KeepsOld
<1>9. /\ ClaimIn(pc[t], job[t], held[t], k, "was") = Handed(p, j.was.size)
      /\ ClaimIn("free_unlock", j, H, k, "was") = {}
  BY <1>6, <1>8 DEF ClaimIn
<1>10. SameBut(t, "free_unlock", j, H, k, {"was"})
  BY DEF SameBut, ClaimIn, Kinds
<1>11. "was" \in Kinds
  BY DEF Kinds
<1>12. Accounts(Claims', Places, V)
  <2>1. CASE p = NULL
    <3>1. \A b \in U : b.startAdress \in Nat
      BY <1>1, UsedBlocksTyped
    <3>2. V = U
      BY <1>7, <2>1, <3>1, NullAssumption
    <3>3. SameBut(t, "free_unlock", j, H, k, {})
      BY <1>9, <1>10, <2>1 DEF SameBut, Handed
    <3> QED  BY ONLY <1>1, <1>4, <3>2, <3>3, Stays, t \in Threads
  <2>2. CASE p # NULL
    <3> PICK x : x = Block(p, j.was.size, TRUE)
      OBVIOUS
    <3>1. ClaimIn(pc[t], job[t], held[t], k, "was") = {x}
      BY <1>9, <2>2 DEF Handed
    <3>2. x.startAdress = p
      BY DEF Block
    <3>3. x \in U
      <4> PICK q : q = <<t, k, "was">>
        OBVIOUS
      <4>1. q \in Places /\ Claims[q] = {x}
        BY <1>6, <1>11, <3>1 DEF Places, Claims
      <4> QED  BY <1>1, <4>1 DEF Accounts
    <3>4. \A b \in U : b.startAdress = p => b = x
      BY <1>1, <3>2, <3>3, UsedBlocksApart
    <3>5. V = U \ {x}
      BY <1>7, <3>2, <3>4
    <3>6. Accounts(Claims', Places, U \ {x})
      BY ONLY <1>1, <1>4, <1>6, <1>9, <1>10, <1>11, <3>1, Loses, t \in Threads
    <3> QED  BY <3>5, <3>6
  <2> QED  BY <2>1, <2>2
<1>13. \A u \in Threads : KnowsIn(pc'[u], job'[u], held'[u])
  BY <1>1, <1>4, <1>5, OthersKnow
<1> QED  BY <1>12, <1>13 DEF StillOwned

(* What a thread claims is handed out, and nobody else's. *)
LEMMA ClaimedBlock ==
  ASSUME OwnInv, NEW t \in Threads, NEW k \in Slots, NEW w \in Kinds, NEW x,
         ClaimIn(pc[t], job[t], held[t], k, w) = {x}
  PROVE  /\ x \in HandedOut(memoryBlocks)
         /\ \A v \in Kinds : ClaimIn(pc[t], job[t], held[t], k, v) = {x} => v = w
<1> PICK q : q = <<t, k, w>>
  OBVIOUS
<1>1. q \in Places /\ Claims[q] = {x}
  BY DEF Places, Claims
<1>2. Accounts(Claims, Places, HandedOut(memoryBlocks))
  BY DEF OwnInv
<1>3. ASSUME NEW v \in Kinds, ClaimIn(pc[t], job[t], held[t], k, v) = {x} PROVE v = w
  <2> PICK r : r = <<t, k, v>>
    OBVIOUS
  <2>1. r \in Places /\ Claims[r] = {x}
    BY <1>3 DEF Places, Claims
  <2>2. r = q
    BY <1>1, <1>2, <2>1 DEF Accounts
  <2> QED  BY <2>2
<1> QED  BY <1>1, <1>2, <1>3 DEF Accounts

(* The record of a call with another answer. *)
LEMMA JobWithAnswer ==
  ASSUME NEW c \in JobType, NEW ret, NEW j, j = [c EXCEPT !.ret = ret]
  PROVE  /\ j.op = c.op /\ j.slot = c.slot /\ j.was = c.was /\ j.size = c.size
         /\ j.way = c.way /\ j.ret = ret
BY DEF JobType

LEMMA alloc_body_Owned ==
  ASSUME OwnInv, ReallocMayFail = FALSE, NEW t \in Threads, alloc_body(t)
  PROVE  StillOwned
<1> PICK c, H, k, bs, size :
         c = job[t] /\ H = held[t] /\ k = job[t].slot /\ bs = memoryBlocks /\ size = job[t].size
  OBVIOUS
<1> PICK U : U = HandedOut(memoryBlocks)
  OBVIOUS
<1>1. /\ TypeOK /\ (\A u \in Threads : Knows(u)) /\ JobFits(t)
      /\ WellFormed(bs, PoolSize) /\ bs \in Seq(BlockType) /\ PoolSize \in Nat
      /\ Accounts(Claims, Places, U)
  BY PoolAssumption DEF OwnInv, IInv, TypeOK
<1>2. pc[t] = "alloc_body" /\ UNCHANGED held
  BY DEF alloc_body
<1>3. c \in JobType /\ size \in Nat /\ k \in Slots /\ c.op \in {"mem_alloc", "mem_resize"}
  BY <1>1, <1>2 DEF TypeOK, JobFits, JobType, InAlloc
<1>4. KnowsIn("alloc_body", c, H)
  BY <1>1, <1>2 DEF Knows
<1>5. size # 0 /\ c.ret = NULL
  BY <1>3, <1>4 DEF KnowsIn
<1>6. held' = [held EXCEPT ![t] = H]
  BY <1>1, <1>2, SlotsUnchanged
<1>7. ASSUME NEW ret, NEW j, j = [c EXCEPT !.ret = ret]
      PROVE  /\ KnowsIn("alloc_unlock", j, H) /\ (KeepsOld("alloc_unlock", j) <=> KeepsOld(pc[t], c))
             /\ j.slot = k /\ j.was = c.was /\ j.size = size /\ j.ret = ret
  <2>1. /\ j.op = c.op /\ j.slot = c.slot /\ j.was = c.was /\ j.size = c.size
        /\ j.way = c.way /\ j.ret = ret
    BY <1>3, <1>7, JobWithAnswer
  <2>2. KnowsIn("alloc_unlock", j, H)
    BY <1>3, <1>4, <2>1 DEF KnowsIn, InAlloc, InFree
  <2> QED  BY <1>2, <2>1, <2>2 DEF KeepsOld
<1>8. \/ Answer(t, NULL, "alloc_unlock") /\ UNCHANGED memoryBlocks
      \/ \E i \in FirstFit(bs, size) :
            memoryBlocks' = Carve(bs, i, size) /\ Answer(t, bs[i].startAdress, "alloc_unlock")
  BY <1>5, ReallocMayFail = FALSE DEF alloc_body
<1>9. CASE Answer(t, NULL, "alloc_unlock") /\ UNCHANGED memoryBlocks
  <2> PICK j : j = [c EXCEPT !.ret = NULL]
    OBVIOUS
  <2>1. pc' = [pc EXCEPT ![t] = "alloc_unlock"] /\ job' = [job EXCEPT ![t] = [job[t] EXCEPT !.ret = NULL]]
    BY <1>9 DEF Answer, Goto
  <2>2. job' = [job EXCEPT ![t] = j]
    BY <2>1
  <2>3. KnowsIn("alloc_unlock", j, held[t]) /\ (KeepsOld("alloc_unlock", j) <=> KeepsOld(pc[t], job[t]))
        /\ j.slot = job[t].slot /\ j.was = job[t].was /\ j.size = job[t].size /\ j.ret = job[t].ret
    BY <1>5, <1>7
  <2>4. UNCHANGED <<held, memoryBlocks>>
    BY <1>2, <1>9
  <2> QED  BY ONLY <2>1, <2>2, <2>3, <2>4, CallGoesOn, OwnInv, t \in Threads
<1>10. CASE \E i \in FirstFit(bs, size) :
              memoryBlocks' = Carve(bs, i, size) /\ Answer(t, bs[i].startAdress, "alloc_unlock")
  <2> PICK i \in FirstFit(bs, size) :
         memoryBlocks' = Carve(bs, i, size) /\ Answer(t, bs[i].startAdress, "alloc_unlock")
    BY <1>10
  <2> PICK p, j : p = bs[i].startAdress /\ j = [c EXCEPT !.ret = bs[i].startAdress]
    OBVIOUS
  <2> PICK x : x = Block(p, size, TRUE)
    OBVIOUS
  <2>1. i \in DOMAIN bs /\ ~bs[i].isUsed /\ p \in Nat
    BY <1>1, BlocksTyped DEF FirstFit, Fits
  <2>2. pc' = [pc EXCEPT ![t] = "alloc_unlock"] /\ job' = [job EXCEPT ![t] = [job[t] EXCEPT !.ret = p]]
    BY DEF Answer, Goto
  <2>3. StepOf(t, "alloc_unlock", j, H)
    BY <1>6, <2>2 DEF StepOf
  <2>4. /\ KnowsIn("alloc_unlock", j, H) /\ (KeepsOld("alloc_unlock", j) <=> KeepsOld(pc[t], job[t]))
        /\ j.slot = k /\ j.was = c.was /\ j.size = size /\ j.ret = p
    BY <1>7
  <2>5. x \notin U
    <3> SUFFICES ASSUME x \in U PROVE FALSE
      OBVIOUS
    <3> PICK m \in DOMAIN bs : bs[m].isUsed /\ bs[m] = x
      BY DEF HandedOut
    <3>1. bs[m].startAdress = bs[i].startAdress
      BY DEF Block
    <3> QED  BY <1>1, <2>1, <3>1, OneBlockPerAddress
  <2>6. HandedOut(memoryBlocks') = U \cup {x}
    <3>1. /\ bs \in Seq(BlockType) /\ size \in Nat /\ i \in FirstFit(bs, size)
          /\ x = Block(bs[i].startAdress, size, TRUE)
      BY <1>1, <1>3
    <3>2. HandedOut(Carve(bs, i, size)) = HandedOut(bs) \cup {x}
      BY ONLY <3>1, CarveUsed
    <3> QED  BY <1>10, <3>2
  <2>7. SameBut(t, "alloc_unlock", j, H, k, {"new"})
    BY <2>4 DEF SameBut, ClaimIn, Kinds
  <2>8. "new" \in Kinds
    BY DEF Kinds
  <2>9. ClaimIn(pc[t], job[t], held[t], k, "new") = {}
    BY <1>5 DEF ClaimIn, Handed
  <2>10. ClaimIn("alloc_unlock", j, H, k, "new") = {x}
    <3>1. p # NULL
      BY <2>1, NullAssumption
    <3>2. ClaimIn("alloc_unlock", j, H, k, "new") = Handed(p, size)
      BY <2>4 DEF ClaimIn
    <3> QED  BY <3>1, <3>2 DEF Handed
  <2>11. Accounts(Claims', Places, U \cup {x})
    BY ONLY <1>1, <1>3, <2>3, <2>5, <2>7, <2>8, <2>9, <2>10, Gains, t \in Threads
  <2>12. \A u \in Threads : KnowsIn(pc'[u], job'[u], held'[u])
    BY <1>1, <2>3, <2>4, OthersKnow
  <2> QED  BY <2>6, <2>11, <2>12 DEF StillOwned
<1> QED  BY <1>8, <1>9, <1>10

LEMMA resize_body_Owned ==
  ASSUME OwnInv, NEW t \in Threads, resize_body(t)
  PROVE  StillOwned
<1> PICK c, H, k, bs, p, size :
         /\ c = job[t] /\ H = held[t] /\ k = job[t].slot /\ bs = memoryBlocks
         /\ p = job[t].was.ptr /\ size = job[t].size
  OBVIOUS
<1> PICK U : U = HandedOut(memoryBlocks)
  OBVIOUS
<1>1. /\ TypeOK /\ (\A u \in Threads : Knows(u)) /\ JobFits(t)
      /\ WellFormed(bs, PoolSize) /\ bs \in Seq(BlockType) /\ PoolSize \in Nat
      /\ Accounts(Claims, Places, U)
  BY PoolAssumption DEF OwnInv, IInv, TypeOK
<1>2. pc[t] = "resize_body" /\ UNCHANGED held
  BY DEF resize_body
<1>3. size \in Nat /\ k \in Slots /\ c.op = "mem_resize" /\ c \in JobType
  BY <1>1, <1>2 DEF TypeOK, JobFits, JobType, InResize
<1>4. KnowsIn("resize_body", c, H)
  BY <1>1, <1>2 DEF Knows
<1>5. c.ret = NULL
  BY <1>4 DEF KnowsIn
<1>6. held' = [held EXCEPT ![t] = H]
  BY <1>1, <1>2, SlotsUnchanged
<1>7. KeepsOld(pc[t], job[t])
  BY <1>2 DEF KeepsOld
<1>8. ASSUME NEW way \in {"in place", "growing", "shrinking", "elsewhere"}, NEW old,
             NEW label \in {"resize_unlock", "free_lock", "alloc_lock"},
             Take(t, way, old, NULL, label), UNCHANGED memoryBlocks,
             label # "resize_unlock" => way # "in place",
             label = "alloc_lock" <=> way = "elsewhere"
      PROVE  StillOwned
  <2> PICK j : j = [c EXCEPT !.way = way, !.old = old, !.ret = NULL]
    OBVIOUS
  <2>1. /\ pc' = [pc EXCEPT ![t] = label] /\ job' = [job EXCEPT ![t] = j]
        /\ j.op = job[t].op /\ j.slot = job[t].slot /\ j.was = job[t].was
        /\ j.size = job[t].size /\ j.way = way /\ j.ret = NULL
    <3>1. pc' = [pc EXCEPT ![t] = label] /\ job' = [job EXCEPT ![t] = j]
      BY <1>8 DEF Take, Goto
    <3> QED  BY <1>3, <3>1 DEF JobType
  <2>2. KnowsIn(label, j, held[t])
    BY <1>3, <1>4, <1>8, <2>1 DEF KnowsIn, InAlloc, InFree
  <2>3. KeepsOld(label, j)
    BY <1>8, <2>1 DEF KeepsOld
  <2>4. j.ret = job[t].ret
    BY <1>5, <2>1
  <2>5. UNCHANGED <<held, memoryBlocks>>
    BY <1>2, <1>8
  <2> QED  BY ONLY <1>7, <2>1, <2>2, <2>3, <2>4, <2>5, CallGoesOn, OwnInv, t \in Threads
<1>9. ASSUME NEW i \in LastAt(bs, p), Take(t, "in place", 0, p, "resize_unlock"),
             \/ bs[i].size = size /\ UNCHANGED memoryBlocks
             \/ CanGrowRight(bs, i, size) /\ memoryBlocks' = GrowRight(bs, i, size)
      PROVE  StillOwned
  <2> PICK x, y, V : /\ x = Block(p, c.was.size, TRUE) /\ y = Block(p, size, TRUE)
                     /\ V = HandedOut(memoryBlocks')
    OBVIOUS
  <2> PICK j : j = [c EXCEPT !.way = "in place", !.old = 0, !.ret = p]
    OBVIOUS
  <2>1. /\ pc' = [pc EXCEPT ![t] = "resize_unlock"] /\ job' = [job EXCEPT ![t] = j]
        /\ j.op = job[t].op /\ j.slot = job[t].slot /\ j.was = job[t].was
        /\ j.size = job[t].size /\ j.way = "in place" /\ j.ret = p
    <3>1. pc' = [pc EXCEPT ![t] = "resize_unlock"] /\ job' = [job EXCEPT ![t] = j]
      BY <1>9 DEF Take, Goto
    <3> QED  BY <1>3, <3>1 DEF JobType
  <2>2. i \in DOMAIN bs /\ bs[i].startAdress = p /\ p \in Nat /\ p # NULL
    BY <1>1, BlocksTyped, NullAssumption DEF LastAt
  <2>3. StepOf(t, "resize_unlock", j, H)
    BY <1>6, <2>1 DEF StepOf
  <2>4. KnowsIn("resize_unlock", j, H)
    BY <1>3, <1>4, <2>1 DEF KnowsIn, InAlloc, InFree
  <2>5. "slot" \in Kinds /\ "was" \in Kinds /\ "new" \in Kinds /\ "was" # "new"
    BY DEF Kinds
  <2>6. ClaimIn(pc[t], job[t], held[t], k, "was") = {x}
    BY <1>7, <2>2 DEF ClaimIn, Handed
  <2>7. ClaimIn(pc[t], job[t], held[t], k, "new") = {}
    BY <1>5 DEF ClaimIn, Handed
  <2>8. ~KeepsOld("resize_unlock", j)
    BY <2>1, <2>2 DEF KeepsOld
  <2>9. ClaimIn("resize_unlock", j, H, k, "was") = {}
    BY <2>1, <2>8 DEF ClaimIn
  <2>10. ClaimIn("resize_unlock", j, H, k, "new") = {y}
    BY <2>1, <2>2 DEF ClaimIn, Handed
  <2>11. SameBut(t, "resize_unlock", j, H, k, {"was", "new"})
    <3>1. Kinds \ {"was", "new"} = {"slot"} /\ j.slot = k
      BY <2>1 DEF Kinds
    <3>2. \A w \in Kinds \ {"was", "new"} :
             ClaimIn("resize_unlock", j, H, k, w) = ClaimIn(pc[t], job[t], held[t], k, w)
      BY <3>1 DEF ClaimIn
    <3> QED  BY <3>1, <3>2, OnlyItsSlot
  <2>12. x \in U
    <3>1. x \in HandedOut(memoryBlocks)
      BY ONLY OwnInv, t \in Threads, <1>3, <2>5, <2>6, ClaimedBlock
    <3> QED  BY <3>1
  <2>13. bs[i] = x /\ bs[i].isUsed
    <3> PICK m \in DOMAIN bs : bs[m].isUsed /\ bs[m] = x
      BY <2>12 DEF HandedOut
    <3>1. bs[m].startAdress = bs[i].startAdress
      BY <2>2 DEF Block
    <3> QED  BY <1>1, <2>2, <3>1, OneBlockPerAddress
  <2>14. Accounts(Claims', Places, V)
    <3>1. CASE bs[i].size = size /\ UNCHANGED memoryBlocks
      <4>1. x.size = c.was.size
        BY DEF Block
      <4>2. y = x /\ V = U
        BY <2>13, <3>1, <4>1
      <4>3. ClaimIn("resize_unlock", j, H, k, "new") = ClaimIn(pc[t], job[t], held[t], k, "was")
        BY <2>6, <2>10, <4>2
      <4>4. Accounts(Claims', Places, U)
        BY ONLY <1>1, <1>3, <2>3, <2>5, <2>7, <2>9, <2>11, <4>3, HandsOver, t \in Threads
      <4> QED  BY <4>2, <4>4
    <3>2. CASE CanGrowRight(bs, i, size) /\ memoryBlocks' = GrowRight(bs, i, size)
      <4>1. V = (U \ {x}) \cup {y}
        <5>1. /\ WellFormed(bs, PoolSize) /\ PoolSize \in Nat /\ size \in Nat
              /\ i \in DOMAIN bs /\ CanGrowRight(bs, i, size) /\ bs[i].isUsed
          BY <1>1, <1>3, <2>2, <2>13, <3>2
        <5>2. HandedOut(GrowRight(bs, i, size)) =
                (HandedOut(bs) \ {bs[i]}) \cup {Block(bs[i].startAdress, size, TRUE)}
          BY ONLY <5>1, GrowRightUsed
        <5> QED  BY <2>2, <2>13, <3>2, <5>2
      <4>2. y \notin U \ {x}
        <5>1. y.startAdress = x.startAdress
          BY DEF Block
        <5> QED  BY <1>1, <2>12, <5>1, UsedBlocksApart
      <4>3. Accounts(Claims', Places, (U \ {x}) \cup {y})
        BY ONLY <1>1, <1>3, <2>3, <2>5, <2>6, <2>7, <2>9, <2>10, <2>11, <4>2, Exchanges,
                t \in Threads
      <4> QED  BY <4>1, <4>3
    <3> QED  BY <1>9, <3>1, <3>2
  <2>15. \A u \in Threads : KnowsIn(pc'[u], job'[u], held'[u])
    BY <1>1, <2>3, <2>4, OthersKnow
  <2> QED  BY <2>14, <2>15 DEF StillOwned
<1>10. \/ /\ Take(t, "in place", 0, NULL, "resize_unlock") /\ UNCHANGED memoryBlocks
       \/ \E i \in LastAt(bs, p) :
             /\ Take(t, "in place", 0, p, "resize_unlock")
             /\ \/ bs[i].size = size /\ UNCHANGED memoryBlocks
                \/ CanGrowRight(bs, i, size) /\ memoryBlocks' = GrowRight(bs, i, size)
       \/ \E old : /\ UNCHANGED memoryBlocks
                   /\ \/ Take(t, "growing", old, NULL, "free_lock")
                      \/ Take(t, "elsewhere", old, NULL, "alloc_lock")
                      \/ Take(t, "shrinking", old, NULL, "free_lock")
  BY DEF resize_body
<1>11. CASE Take(t, "in place", 0, NULL, "resize_unlock") /\ UNCHANGED memoryBlocks
  BY <1>8, <1>11
<1>12. CASE \E old : /\ UNCHANGED memoryBlocks
                     /\ \/ Take(t, "growing", old, NULL, "free_lock")
                        \/ Take(t, "elsewhere", old, NULL, "alloc_lock")
                        \/ Take(t, "shrinking", old, NULL, "free_lock")
  BY <1>8, <1>12
<1> QED  BY <1>9, <1>10, <1>11, <1>12

LEMMA resize_move_Owned ==
  ASSUME OwnInv, NEW t \in Threads, resize_move(t)
  PROVE  StillOwned
<1> PICK c, k, p : c = job[t] /\ k = job[t].slot /\ p = job[t].was.ptr
  OBVIOUS
<1>1. /\ TypeOK /\ Knows(t) /\ JobFits(t) /\ CopyFits(t)
      /\ WellFormed(memoryBlocks, PoolSize) /\ PoolSize \in Nat
  BY PoolAssumption DEF OwnInv, IInv, TypeOK
<1>2. pc[t] = "resize_move" /\ UNCHANGED <<held, memoryBlocks>>
  BY DEF resize_move
<1>3. c \in JobType /\ k \in Slots /\ c.op = "mem_resize"
  BY <1>1, <1>2 DEF TypeOK, JobFits, InResize
<1>4. p \in Nat /\ p # NULL
  BY <1>1, <1>2, <1>3, NullAssumption DEF CopyFits, ReadsInPool
<1>5. KnowsIn("resize_move", c, held[t])
  BY <1>1, <1>2 DEF Knows
<1>6. c.way \in {"growing", "shrinking", "elsewhere"}
  BY <1>3, <1>5 DEF KnowsIn
<1>7. ~(c.ret = p /\ c.way = "elsewhere")
  <2> SUFFICES ASSUME c.ret = p, c.way = "elsewhere" PROVE FALSE
    OBVIOUS
  <2> PICK x, y : x = Block(p, c.was.size, TRUE) /\ y = Block(p, c.size, TRUE)
    OBVIOUS
  <2>1. KeepsOld(pc[t], job[t])
    BY <1>2 DEF KeepsOld
  <2>2. ClaimIn(pc[t], job[t], held[t], k, "was") = {x}
    BY <1>4, <2>1 DEF ClaimIn, Handed
  <2>3. ClaimIn(pc[t], job[t], held[t], k, "new") = {y}
    BY <1>4 DEF ClaimIn, Handed
  <2>4. "was" \in Kinds /\ "new" \in Kinds /\ "was" # "new"
    BY DEF Kinds
  <2>5. x \in HandedOut(memoryBlocks) /\ y \in HandedOut(memoryBlocks)
    BY <1>3, <2>2, <2>3, <2>4, ClaimedBlock
  <2>6. x.startAdress = y.startAdress
    BY DEF Block
  <2>7. x = y
    BY <1>1, <2>5, <2>6, UsedBlocksApart
  <2>8. \A v \in Kinds : ClaimIn(pc[t], job[t], held[t], k, v) = {x} => v = "was"
    BY ONLY OwnInv, t \in Threads, <1>3, <2>2, <2>4, ClaimedBlock
  <2> QED  BY <2>3, <2>4, <2>7, <2>8
<1>8. ASSUME NEW j, NEW label \in {"resize_move", "resize_unlock", "free_lock"},
             pc' = [pc EXCEPT ![t] = label], job' = [job EXCEPT ![t] = j],
             j.op = c.op, j.slot = c.slot, j.was = c.was, j.size = c.size,
             j.way = c.way, j.ret = c.ret,
             label = "resize_unlock" => (c.way = "elsewhere" <=> c.ret = NULL),
             label = "free_lock" => c.way = "elsewhere" /\ c.ret # NULL
      PROVE  StillOwned
  <2>1. KnowsIn(label, j, held[t])
    BY <1>3, <1>5, <1>6, <1>8 DEF KnowsIn, InAlloc, InFree
  <2>2. KeepsOld(label, j) <=> KeepsOld(pc[t], job[t])
    BY <1>2, <1>8 DEF KeepsOld
  <2>3. j.slot = job[t].slot /\ j.was = job[t].was /\ j.size = job[t].size /\ j.ret = job[t].ret
    BY <1>8
  <2> QED  BY ONLY <1>2, <1>8, <2>1, <2>2, <2>3, CallGoesOn, OwnInv, t \in Threads
<1>9. CASE /\ (c.ret = NULL /\ c.way = "elsewhere") \/ c.ret = p
           /\ Goto(t, "resize_unlock") /\ UNCHANGED job
  <2>1. job' = [job EXCEPT ![t] = c]
    BY <1>1, <1>9, JobUnchanged
  <2>2. c.way = "elsewhere" <=> c.ret = NULL
    BY <1>4, <1>7, <1>9
  <2> QED  BY <1>8, <1>9, <2>1, <2>2 DEF Goto
<1>10. CASE UNCHANGED <<pc, job>>
  <2>1. job' = [job EXCEPT ![t] = c] /\ pc' = [pc EXCEPT ![t] = "resize_move"]
    BY <1>1, <1>2, <1>10 DEF TypeOK
  <2> QED  BY <1>8, <2>1
<1>11. CASE /\ c.ret \notin {NULL, p} /\ job' = [job EXCEPT ![t].moved = Copied(c)]
            /\ Goto(t, AfterCopying(c))
  <2> PICK label, j : label = AfterCopying(c) /\ j = [c EXCEPT !.moved = Copied(c)]
    OBVIOUS
  <2>1. pc' = [pc EXCEPT ![t] = label] /\ job' = [job EXCEPT ![t] = j]
    BY <1>11 DEF Goto
  <2>2. /\ j.op = c.op /\ j.slot = c.slot /\ j.was = c.was /\ j.size = c.size
        /\ j.way = c.way /\ j.ret = c.ret
    BY <1>3 DEF JobType
  <2>3. label = IF c.way = "elsewhere" THEN "free_lock" ELSE "resize_unlock"
    BY DEF AfterCopying
  <2> QED  BY <1>8, <1>11, <2>1, <2>2, <2>3
<1> QED  BY <1>9, <1>10, <1>11 DEF resize_move

-----------------------------------------------------------------------------
LEMMA InitOwned == Init => OwnInv
<1> SUFFICES ASSUME Init PROVE OwnInv
  OBVIOUS
<1>1. IInv
  BY InitSound
<1>2. \A t \in Threads : pc[t] = "idle" /\ job[t] = NoJob
  BY DEF Init
<1>3. \A t \in Threads, k \in Slots : held[t][k] = Empty
  BY DEF Init
<1>4. NoJob.op = "none" /\ NoJob.was = Empty /\ NoJob.ret = NULL /\ Empty.ptr = NULL
  BY DEF NoJob, Job, Empty
<1>5. \A t \in Threads : Knows(t)
  <2> SUFFICES ASSUME NEW t \in Threads PROVE KnowsIn("idle", NoJob, held[t])
    BY <1>2 DEF Knows
  <2> QED  BY <1>3, <1>4 DEF KnowsIn
<1>6. ASSUME NEW p \in Places PROVE Claims[p] = {}
  <2>1. p[1] \in Threads /\ p[2] \in Slots /\ p[3] \in Kinds
    BY DEF Places
  <2>2. Claims[p] = ClaimIn("idle", NoJob, held[p[1]], p[2], p[3])
    BY <1>2, <2>1 DEF Claims
  <2>3. ~KeepsOld("idle", NoJob)
    BY DEF KeepsOld
  <2> QED  BY <1>3, <1>4, <2>1, <2>2, <2>3 DEF ClaimIn, Handed
<1>7. HandedOut(memoryBlocks) = {}
  <2>1. memoryBlocks = <<Block(0, PoolSize, FALSE)>>
    BY DEF Init
  <2>2. ~Block(0, PoolSize, FALSE).isUsed
    BY DEF Block
  <2> PICK b : b = Block(0, PoolSize, FALSE)
    OBVIOUS
  <2>3. DOMAIN <<b>> = 1 .. 1 /\ <<b>>[1] = b
    OBVIOUS
  <2>4. \A i \in DOMAIN memoryBlocks : i = 1
    BY <2>1, <2>3
  <2>5. \A i \in DOMAIN memoryBlocks : ~memoryBlocks[i].isUsed
    BY <2>1, <2>2, <2>3, <2>4
  <2> QED  BY <2>5 DEF HandedOut
<1>8. Accounts(Claims, Places, HandedOut(memoryBlocks))
  BY <1>6, <1>7 DEF Accounts
<1> QED  BY <1>1, <1>5, <1>8 DEF OwnInv

LEMMA StepOwned ==
  ASSUME ReallocMayFail = FALSE, 0 \notin Sizes, OwnInv, NEW t \in Threads, Step(t)
  PROVE  StillOwned
<1>1. ASSUME NEW k \in Slots, NEW size \in Sizes, held[t][k] = Empty,
             Start(t, "mem_alloc", k, size, "alloc_lock")
      PROVE  StillOwned
  BY <1>1, Start_Owned, PoolAssumption
<1>2. ASSUME NEW k \in Slots, Start(t, "mem_free", k, 0, "free_lock")
      PROVE  StillOwned
  BY <1>2, Start_Owned
<1>3. ASSUME NEW k \in Slots, NEW size \in Sizes, Start(t, "mem_resize", k, size, "resize_lock")
      PROVE  StillOwned
  BY <1>3, Start_Owned, PoolAssumption
<1>4. CASE CallAlloc(t) \/ CallFree(t) \/ CallResize(t)
  BY <1>1, <1>2, <1>3, <1>4 DEF CallAlloc, CallFree, CallResize
<1>5. CASE fill(t)
  BY <1>5, fill_Owned
<1>6. CASE Lock(t)
  BY <1>6, Lock_Owned
<1>7. CASE alloc_body(t)
  BY <1>7, alloc_body_Owned
<1>8. CASE alloc_undo(t)
  BY <1>8 DEF alloc_undo, OwnInv, IInv, JobFits
<1>9. CASE alloc_unlock(t)
  BY <1>9, alloc_unlock_Owned
<1>10. CASE free_body(t)
  BY <1>10, free_body_Owned
<1>11. CASE free_unlock(t)
  BY <1>11, free_unlock_Owned
<1>12. CASE resize_body(t)
  BY <1>12, resize_body_Owned
<1>13. CASE resize_move(t)
  BY <1>13, resize_move_Owned
<1>14. CASE resize_unlock(t)
  BY <1>14, resize_unlock_Owned
<1> QED
  BY <1>4, <1>5, <1>6, <1>7, <1>8, <1>9, <1>10, <1>11, <1>12, <1>13, <1>14 DEF Step

(* The used blocks are at every moment divided among the threads' slots and *)
(* calls: each is claimed once, and nobody claims what is not handed out.   *)
(* A block of no bytes has no entry of its own to be claimed.               *)
THEOREM BlocksHaveOneOwner ==
  ASSUME ReallocMayFail = FALSE, 0 \notin Sizes
  PROVE  Spec => []OwnInv
<1>1. Init => OwnInv
  BY InitOwned
<1>2. OwnInv /\ [Next]_vars => OwnInv'
  <2> SUFFICES ASSUME OwnInv, [Next]_vars PROVE OwnInv'
    OBVIOUS
  <2>1. CASE Next
    <3> PICK t \in Threads : Step(t)
      BY <2>1 DEF Next
    <3>1. IInv'
      BY StepSound DEF OwnInv
    <3>2. StillOwned
      BY StepOwned
    <3> QED  BY <3>1, <3>2 DEF OwnInv, StillOwned, Knows
  <2>2. CASE UNCHANGED vars
    <3>1. UNCHANGED <<memoryBlocks, pc, job, held>>
      BY <2>2 DEF vars
    <3>2. IInv'
      BY <2>2 DEF vars, OwnInv, IInv, TypeOK, JobFits, CopyFits, ReadsInPool,
                  LockCountsNesting, Nesting
    <3>3. Claims' = Claims
      BY <3>1 DEF Claims
    <3> QED  BY <3>1, <3>2, <3>3 DEF OwnInv, Knows
  <2> QED  BY <2>1, <2>2
<1> QED  BY <1>1, <1>2, PTL DEF Spec

(* "Uses one global lock to secure all functions that modefy the global    *)
(* memoryblocks array" (header of memory_manager.c): what a thread has in a *)
(* slot is a used block of exactly the size it asked for, whatever calls    *)
(* the other threads are in the middle of.                                  *)
THEOREM SlotsHoldTheirBlocks ==
  ASSUME ReallocMayFail = FALSE, 0 \notin Sizes
  PROVE  Spec => []OwnersKeepBlocks
<1>1. OwnInv => OwnersKeepBlocks
  <2> SUFFICES ASSUME OwnInv, NEW t \in Threads, NEW k \in Slots, held[t][k] # Empty
               PROVE  \E i \in DOMAIN memoryBlocks :
                         memoryBlocks[i] = Block(held[t][k].ptr, held[t][k].size, TRUE)
    BY DEF OwnersKeepBlocks
  <2> PICK x : x = Block(held[t][k].ptr, held[t][k].size, TRUE)
    OBVIOUS
  <2>1. held[t][k].ptr # NULL
    BY DEF OwnInv, Knows, KnowsIn
  <2>2. ClaimIn(pc[t], job[t], held[t], k, "slot") = {x} /\ "slot" \in Kinds
    BY <2>1 DEF ClaimIn, Handed, Kinds
  <2>3. x \in HandedOut(memoryBlocks)
    BY ONLY OwnInv, t \in Threads, k \in Slots, <2>2, ClaimedBlock
  <2> QED  BY <2>3 DEF HandedOut
<1> QED  BY <1>1, BlocksHaveOneOwner, PTL

(* A slot's block, seen from the slot and from the array. *)
LEMMA SlotBlocks ==
  ASSUME OwnInv, \A t \in Threads : pc[t] \in {"idle", "fill"},
         NEW x \in HandedOut(memoryBlocks)
  PROVE  \E s \in InSlots : x = Block(held[s[1]][s[2]].ptr, held[s[1]][s[2]].size, TRUE)
<1> PICK p \in Places : x \in Claims[p]
  BY DEF OwnInv, Accounts
<1> PICK t, k, w : t = p[1] /\ k = p[2] /\ w = p[3]
  OBVIOUS
<1>1. t \in Threads /\ k \in Slots /\ w \in Kinds /\ x \in ClaimIn(pc[t], job[t], held[t], k, w)
  BY DEF Places, Claims
<1>2. job[t].ret = NULL
  BY <1>1 DEF OwnInv, Knows, KnowsIn
<1>3. ~KeepsOld(pc[t], job[t])
  BY <1>1 DEF KeepsOld
<1>4. x \in Handed(held[t][k].ptr, held[t][k].size)
  BY <1>1, <1>2, <1>3 DEF ClaimIn, Handed
<1>5. held[t][k].ptr # NULL /\ x = Block(held[t][k].ptr, held[t][k].size, TRUE)
  BY <1>4 DEF Handed
<1> PICK s : s = <<t, k>>
  OBVIOUS
<1>6. s \in InSlots /\ s[1] = t /\ s[2] = k
  BY <1>1, <1>5 DEF InSlots, Empty
<1> QED  BY <1>5, <1>6

LEMMA SlotInArray ==
  ASSUME OwnInv, NEW s \in InSlots, NEW x,
         x = Block(held[s[1]][s[2]].ptr, held[s[1]][s[2]].size, TRUE)
  PROVE  /\ x \in HandedOut(memoryBlocks) /\ x.startAdress = held[s[1]][s[2]].ptr
         /\ \E p \in Places : p = <<s[1], s[2], "slot">> /\ x \in Claims[p]
<1> PICK t, k : t = s[1] /\ k = s[2]
  OBVIOUS
<1>1. t \in Threads /\ k \in Slots /\ held[t][k] # Empty
  BY DEF InSlots
<1>2. held[t][k].ptr # NULL
  BY <1>1 DEF OwnInv, Knows, KnowsIn
<1> PICK p : p = <<t, k, "slot">>
  OBVIOUS
<1>3. p \in Places /\ Claims[p] = {x}
  BY <1>1, <1>2 DEF Places, Kinds, Claims, ClaimIn, Handed
<1>4. x \in HandedOut(memoryBlocks)
  BY <1>3 DEF OwnInv, Accounts
<1>5. x.startAdress = held[t][k].ptr
  BY DEF Block
<1> QED  BY <1>3, <1>4, <1>5

(* No call, interleaved with whatever others, drops a block or hands one    *)
(* out twice: between calls the used blocks are those in the slots.         *)
THEOREM EveryBlockAccountedFor ==
  ASSUME ReallocMayFail = FALSE, 0 \notin Sizes
  PROVE  Spec => []NoBlockLost
<1>1. OwnInv => NoBlockLost
  <2> SUFFICES ASSUME OwnInv, \A t \in Threads : pc[t] \in {"idle", "fill"}
               PROVE  /\ {held[s[1]][s[2]].ptr : s \in InSlots} =
                           {memoryBlocks[i].startAdress :
                              i \in {j \in DOMAIN memoryBlocks : memoryBlocks[j].isUsed}}
                      /\ \A s, r \in InSlots :
                            held[s[1]][s[2]].ptr = held[r[1]][r[2]].ptr => s = r
    BY DEF NoBlockLost
  <2>1. ASSUME NEW s \in InSlots
        PROVE  \E i \in {j \in DOMAIN memoryBlocks : memoryBlocks[j].isUsed} :
                  memoryBlocks[i].startAdress = held[s[1]][s[2]].ptr
    <3> PICK x : x = Block(held[s[1]][s[2]].ptr, held[s[1]][s[2]].size, TRUE)
      OBVIOUS
    <3>1. x \in HandedOut(memoryBlocks) /\ x.startAdress = held[s[1]][s[2]].ptr
      BY SlotInArray
    <3> QED  BY <3>1 DEF HandedOut
  <2>2. ASSUME NEW i \in {j \in DOMAIN memoryBlocks : memoryBlocks[j].isUsed}
        PROVE  \E s \in InSlots : memoryBlocks[i].startAdress = held[s[1]][s[2]].ptr
    <3> PICK x : x = memoryBlocks[i]
      OBVIOUS
    <3>1. x \in HandedOut(memoryBlocks)
      BY DEF HandedOut
    <3> PICK s \in InSlots : x = Block(held[s[1]][s[2]].ptr, held[s[1]][s[2]].size, TRUE)
      BY <3>1, SlotBlocks
    <3> QED  BY DEF Block
  <2>3. ASSUME NEW s \in InSlots, NEW r \in InSlots,
               held[s[1]][s[2]].ptr = held[r[1]][r[2]].ptr
        PROVE  s = r
    <3> PICK x, y : /\ x = Block(held[s[1]][s[2]].ptr, held[s[1]][s[2]].size, TRUE)
                    /\ y = Block(held[r[1]][r[2]].ptr, held[r[1]][r[2]].size, TRUE)
      OBVIOUS
    <3>1. /\ x \in HandedOut(memoryBlocks) /\ x.startAdress = held[s[1]][s[2]].ptr
          /\ \E p \in Places : p = <<s[1], s[2], "slot">> /\ x \in Claims[p]
      BY SlotInArray
    <3>2. /\ y \in HandedOut(memoryBlocks) /\ y.startAdress = held[r[1]][r[2]].ptr
          /\ \E p \in Places : p = <<r[1], r[2], "slot">> /\ y \in Claims[p]
      BY SlotInArray
    <3>3. WellFormed(memoryBlocks, PoolSize) /\ PoolSize \in Nat
      BY PoolAssumption DEF OwnInv, IInv
    <3>4. x = y
      BY <2>3, <3>1, <3>2, <3>3, UsedBlocksApart
    <3>5. <<s[1], s[2], "slot">> = <<r[1], r[2], "slot">>
      BY <3>1, <3>2, <3>4 DEF OwnInv, Accounts
    <3> QED  BY <3>5 DEF InSlots
  <2> QED  BY <2>1, <2>2, <2>3
<1> QED  BY <1>1, BlocksHaveOneOwner, PTL

-----------------------------------------------------------------------------
(* What the threads have written.  After mem_free, mem_resize still has the  *)
(* block its bytes are to come from, although anybody may be given it: until *)
(* memmove nobody is, as the thread does not let go of the lock.             *)
Freed(label, j) ==
  /\ j.op = "mem_resize" /\ j.way \in {"growing", "shrinking"}
  /\ label \in {"free_unlock", "alloc_lock", "alloc_body", "alloc_unlock", "resize_move"}

(* The labels at which the new block has the bytes it is to have. *)
Copies(label, j) == label = "resize_unlock" \/ (label \in InFree /\ j.way = "elsewhere")

Kept(j) == IF j.was.filled < j.size THEN j.was.filled ELSE j.size

(* The addresses at which the thread is to find its own bytes. *)
WrittenIn(label, j, h, k) ==
  Reach(h[k].ptr, h[k].filled) \cup
  (IF j.slot = k /\ (KeepsOld(label, j) \/ Freed(label, j))
   THEN Reach(j.was.ptr, j.was.filled) ELSE {}) \cup
  (IF j.slot = k /\ Copies(label, j) THEN Reach(j.ret, Kept(j)) ELSE {})

Written(t, k) == WrittenIn(pc[t], job[t], held[t], k)

(* How the sizes a thread works with are related; it fills what it has. *)
SizesAgree(label, j, h) ==
  /\ label = "fill" => h[j.slot].ptr # NULL
  /\ \A k \in Slots : h[k].filled <= h[k].size
  /\ j.was.filled <= j.was.size
  /\ j.op = "mem_resize" /\ label \in InAlloc \cup InFree \cup {"resize_move"} =>
       /\ j.old = j.was.size
       /\ IF j.way = "shrinking" THEN j.size <= j.old ELSE j.old <= j.size

(* No block but the one mem_alloc answered with touches the freed one. *)
FreedIsFree(label, j, U) ==
  Freed(label, j) =>
    \A b \in U : \/ b.startAdress = j.ret
                 \/ b.startAdress + b.size <= j.was.ptr
                 \/ j.was.ptr + j.was.size <= b.startAdress

ContentInv ==
  /\ OwnInv
  /\ \A t \in Threads : /\ SizesAgree(pc[t], job[t], held[t])
                        /\ FreedIsFree(pc[t], job[t], HandedOut(memoryBlocks))
  /\ \A t \in Threads, k \in Slots : \A a \in Written(t, k) : bytes[a] = <<t, k>>

(* What a step is to show. *)
StillWritten ==
  \A u \in Threads :
    /\ SizesAgree(pc'[u], job'[u], held'[u])
    /\ FreedIsFree(pc'[u], job'[u], HandedOut(memoryBlocks'))
    /\ \A k \in Slots : \A a \in WrittenIn(pc'[u], job'[u], held'[u], k) : bytes'[a] = <<u, k>>

(* The claims of two places are to bytes apart. *)
LEMMA ClaimsApart ==
  ASSUME OwnInv, NEW t \in Threads, NEW k \in Slots, NEW w \in Kinds, NEW x,
         ClaimIn(pc[t], job[t], held[t], k, w) = {x},
         NEW u \in Threads, NEW i \in Slots, NEW v \in Kinds, NEW y,
         ClaimIn(pc[u], job[u], held[u], i, v) = {y},
         <<u, i, v>> # <<t, k, w>>
  PROVE  /\ x.startAdress \in Nat /\ x.size \in Nat /\ x.startAdress + x.size <= PoolSize
         /\ y.startAdress \in Nat /\ y.size \in Nat /\ y.startAdress + y.size <= PoolSize
         /\ x.startAdress # y.startAdress
         /\ \/ x.startAdress + x.size <= y.startAdress
            \/ y.startAdress + y.size <= x.startAdress
<1> PICK p, q : p = <<t, k, w>> /\ q = <<u, i, v>>
  OBVIOUS
<1>1. p \in Places /\ q \in Places /\ p # q /\ Claims[p] = {x} /\ Claims[q] = {y}
  BY DEF Places, Claims
<1>2. x \in HandedOut(memoryBlocks) /\ y \in HandedOut(memoryBlocks) /\ x # y
  BY <1>1 DEF OwnInv, Accounts
<1>3. WellFormed(memoryBlocks, PoolSize) /\ PoolSize \in Nat
  BY PoolAssumption DEF OwnInv, IInv
<1>4. x.startAdress # y.startAdress
  BY <1>2, <1>3, UsedBlocksApart
<1>5. /\ x.startAdress \in Nat /\ x.size \in Nat /\ x.startAdress + x.size <= PoolSize
      /\ \/ x.startAdress + x.size <= y.startAdress
         \/ y.startAdress + y.size <= x.startAdress
  BY <1>2, <1>3, UsedBlocksDisjoint
<1>6. y.startAdress \in Nat /\ y.size \in Nat /\ y.startAdress + y.size <= PoolSize
  BY <1>2, <1>3, UsedBlocksDisjoint
<1> QED  BY <1>4, <1>5, <1>6

LEMMA Addresses ==
  ASSUME NEW ptr \in Nat \cup {NULL}, NEW n \in Nat, NEW a \in Reach(ptr, n)
  PROVE  ptr # NULL /\ ptr \in Nat /\ a \in Nat /\ ptr <= a /\ a < ptr + n
<1>1. ptr # NULL
  BY DEF Reach
<1>2. ptr \in Nat /\ a \in ptr .. ptr + n - 1
  BY <1>1 DEF Reach
<1> QED  BY <1>1, <1>2

(* No thread finds its bytes in a block another slot has a claim to. *)
LEMMA WrittenApart ==
  ASSUME ContentInv, NEW t \in Threads, NEW k \in Slots, NEW w \in Kinds, NEW x,
         ClaimIn(pc[t], job[t], held[t], k, w) = {x},
         NEW u \in Threads, NEW i \in Slots, <<u, i>> # <<t, k>>,
         NEW a \in Written(u, i)
  PROVE  a \in Offsets /\ ~(x.startAdress <= a /\ a < x.startAdress + x.size)
<1> PICK L, c, H : L = pc[u] /\ c = job[u] /\ H = held[u]
  OBVIOUS
<1> PICK b : b = H[i]
  OBVIOUS
<1>1. /\ OwnInv /\ TypeOK /\ PoolSize \in Nat /\ JobFits(u) /\ CopyFits(u)
      /\ SizesAgree(L, c, H) /\ FreedIsFree(L, c, HandedOut(memoryBlocks))
  BY PoolAssumption DEF ContentInv, OwnInv, IInv
<1>2. c \in JobType /\ b \in SlotType
  BY <1>1 DEF TypeOK
<1>3. /\ b.ptr \in Nat \cup {NULL} /\ b.size \in Nat /\ b.filled \in Nat
      /\ c.was.ptr \in Nat \cup {NULL} /\ c.was.size \in Nat /\ c.was.filled \in Nat
      /\ c.ret \in Nat \cup {NULL} /\ c.size \in Nat /\ c.old \in Nat
  BY <1>2 DEF JobType, SlotType
<1>4. b.filled <= b.size /\ c.was.filled <= c.was.size
  BY <1>1 DEF SizesAgree
<1>5. \A v \in Kinds : <<u, i, v>> # <<t, k, w>>
  OBVIOUS
<1>6. "slot" \in Kinds /\ "was" \in Kinds /\ "new" \in Kinds
  BY DEF Kinds
<1>7. ASSUME NEW ptr \in Nat, NEW size \in Nat, NEW v \in Kinds,
             ClaimIn(L, c, H, i, v) = {Block(ptr, size, TRUE)},
             NEW n \in Nat, n <= size, a \in Nat, ptr <= a, a < ptr + n
      PROVE  a \in Offsets /\ ~(x.startAdress <= a /\ a < x.startAdress + x.size)
  <2> PICK y : y = Block(ptr, size, TRUE)
    OBVIOUS
  <2>1. y.startAdress = ptr /\ y.size = size
    BY DEF Block
  <2>2. ClaimIn(pc[u], job[u], held[u], i, v) = {y} /\ <<u, i, v>> # <<t, k, w>>
    BY <1>5, <1>7
  <2>3. /\ x.startAdress \in Nat /\ x.size \in Nat
        /\ y.startAdress + y.size <= PoolSize
        /\ \/ x.startAdress + x.size <= y.startAdress
           \/ y.startAdress + y.size <= x.startAdress
    BY ONLY <1>1, <2>2, ClaimsApart, t \in Threads, k \in Slots, w \in Kinds,
            u \in Threads, i \in Slots, v \in Kinds,
            ClaimIn(pc[t], job[t], held[t], k, w) = {x}
  <2>4. ptr \in Nat /\ size \in Nat /\ n \in Nat /\ n <= size /\ a \in Nat
        /\ ptr <= a /\ a < ptr + n
    BY <1>7
  <2>5. a < PoolSize /\ (a < x.startAdress \/ x.startAdress + x.size <= a)
    BY ONLY <1>1, <2>1, <2>3, <2>4
  <2>6. a \in Offsets
    BY ONLY <1>1, <2>4, <2>5 DEF Offsets
  <2>7. ~(x.startAdress <= a /\ a < x.startAdress + x.size)
    BY ONLY <2>3, <2>4, <2>5
  <2> QED  BY <2>6, <2>7
<1>8. CASE a \in Reach(b.ptr, b.filled)
  <2>1. b.ptr # NULL /\ b.ptr \in Nat /\ a \in Nat /\ b.ptr <= a /\ a < b.ptr + b.filled
    BY <1>3, <1>8, Addresses
  <2>2. ClaimIn(L, c, H, i, "slot") = {Block(b.ptr, b.size, TRUE)}
    BY <2>1 DEF ClaimIn, Handed
  <2> QED  BY <1>3, <1>4, <1>6, <1>7, <2>1, <2>2
<1>9. CASE c.slot = i /\ KeepsOld(L, c) /\ a \in Reach(c.was.ptr, c.was.filled)
  <2>1. /\ c.was.ptr # NULL /\ c.was.ptr \in Nat /\ a \in Nat
        /\ c.was.ptr <= a /\ a < c.was.ptr + c.was.filled
    BY <1>3, <1>9, Addresses
  <2>2. ClaimIn(L, c, H, i, "was") = {Block(c.was.ptr, c.was.size, TRUE)}
    BY <1>9, <2>1 DEF ClaimIn, Handed
  <2> QED  BY <1>3, <1>4, <1>6, <1>7, <2>1, <2>2
<1>10. CASE c.slot = i /\ Copies(L, c) /\ a \in Reach(c.ret, Kept(c))
  <2>1. Kept(c) \in Nat /\ Kept(c) <= c.size
    BY <1>3 DEF Kept
  <2>2. /\ c.ret # NULL /\ c.ret \in Nat /\ a \in Nat
        /\ c.ret <= a /\ a < c.ret + Kept(c)
    BY <1>3, <1>10, <2>1, Addresses
  <2>3. ClaimIn(L, c, H, i, "new") = {Block(c.ret, c.size, TRUE)}
    BY <1>10, <2>2 DEF ClaimIn, Handed
  <2> QED  BY <1>3, <1>6, <1>7, <2>1, <2>2, <2>3
<1>11. CASE c.slot = i /\ Freed(L, c) /\ a \in Reach(c.was.ptr, c.was.filled)
  <2>1. /\ c.was.ptr # NULL /\ c.was.ptr \in Nat /\ a \in Nat
        /\ c.was.ptr <= a /\ a < c.was.ptr + c.was.filled
    BY <1>3, <1>11, Addresses
  <2>2. c.op = "mem_resize" /\ L \in InAlloc \cup InFree \cup {"resize_move"}
    BY <1>11 DEF Freed, InAlloc, InFree
  <2>3. c.old = c.was.size /\ c.was.ptr + c.old <= PoolSize
    BY <1>1, <2>2 DEF SizesAgree, CopyFits, ReadsInPool
  <2>4. x \in HandedOut(memoryBlocks)
    BY ONLY <1>1, t \in Threads, k \in Slots, w \in Kinds, ClaimedBlock,
            ClaimIn(pc[t], job[t], held[t], k, w) = {x}
  <2>5. x.startAdress # c.ret
    <3> SUFFICES ASSUME x.startAdress = c.ret PROVE FALSE
      OBVIOUS
    <3> PICK y : y = Block(c.ret, c.size, TRUE)
      OBVIOUS
    <3>1. x.startAdress \in Nat /\ WellFormed(memoryBlocks, PoolSize)
      BY <1>1, <2>4, UsedBlocksDisjoint DEF OwnInv, IInv
    <3>2. c.ret # NULL /\ y.startAdress = x.startAdress
      BY <3>1, NullAssumption DEF Block
    <3>3. ClaimIn(pc[u], job[u], held[u], i, "new") = {y}
      BY <1>11, <3>2 DEF ClaimIn, Handed
    <3>4. x.startAdress # y.startAdress
      BY ONLY <1>1, <1>5, <1>6, <3>3, ClaimsApart, t \in Threads, k \in Slots, w \in Kinds,
              u \in Threads, i \in Slots, ClaimIn(pc[t], job[t], held[t], k, w) = {x}
    <3> QED  BY <3>2, <3>4
  <2>6. /\ x.startAdress \in Nat /\ x.size \in Nat
        /\ \/ x.startAdress + x.size <= c.was.ptr
           \/ c.was.ptr + c.was.size <= x.startAdress
    <3>1. WellFormed(memoryBlocks, PoolSize)
      BY <1>1 DEF OwnInv, IInv
    <3>2. x.startAdress \in Nat /\ x.size \in Nat
      BY <1>1, <2>4, <3>1, UsedBlocksDisjoint
    <3> QED  BY <1>1, <1>11, <2>4, <2>5, <3>2 DEF FreedIsFree
  <2>7. a < PoolSize /\ (a < x.startAdress \/ x.startAdress + x.size <= a)
    BY ONLY <1>1, <1>3, <1>4, <2>1, <2>3, <2>6
  <2>8. a \in Offsets
    BY ONLY <1>1, <2>1, <2>7 DEF Offsets
  <2>9. ~(x.startAdress <= a /\ a < x.startAdress + x.size)
    BY ONLY <2>1, <2>6, <2>7
  <2> QED  BY <2>8, <2>9
<1> QED  BY <1>8, <1>9, <1>10, <1>11 DEF Written, WrittenIn

(* The other threads while thread t steps.  Their freed blocks stay free: a *)
(* thread that has one has the lock, without which nobody changes the array. *)
LEMMA OthersWritten ==
  ASSUME ContentInv, NEW t \in Threads, NEW label, NEW j, NEW h, StepOf(t, label, j, h),
         UNCHANGED memoryBlocks \/ owner = t, NEW u \in Threads, u # t
  PROVE  /\ SizesAgree(pc'[u], job'[u], held'[u])
         /\ FreedIsFree(pc'[u], job'[u], HandedOut(memoryBlocks'))
         /\ \A k \in Slots : WrittenIn(pc'[u], job'[u], held'[u], k) = Written(u, k)
<1>1. TypeOK /\ LockCountsNesting
  BY DEF ContentInv, OwnInv, IInv
<1>2. pc'[u] = pc[u] /\ job'[u] = job[u] /\ held'[u] = held[u]
  BY <1>1 DEF TypeOK, StepOf
<1>3. SizesAgree(pc[u], job[u], held[u]) /\ FreedIsFree(pc[u], job[u], HandedOut(memoryBlocks))
  BY DEF ContentInv
<1>4. Freed(pc[u], job[u]) => UNCHANGED memoryBlocks
  <2> SUFFICES ASSUME Freed(pc[u], job[u]), owner = t PROVE FALSE
    OBVIOUS
  <2>1. Nesting(u) # 0
    BY DEF Freed, Nesting
  <2> QED  BY <1>1, <2>1 DEF LockCountsNesting
<1>5. FreedIsFree(pc[u], job[u], HandedOut(memoryBlocks'))
  BY <1>3, <1>4 DEF FreedIsFree
<1> QED  BY <1>2, <1>3, <1>5 DEF Written

(* A step that writes no byte. *)
LEMMA BytesStay ==
  ASSUME ContentInv, NEW t \in Threads, NEW label, NEW j, NEW h, StepOf(t, label, j, h),
         UNCHANGED bytes, UNCHANGED memoryBlocks \/ owner = t,
         SizesAgree(label, j, h), FreedIsFree(label, j, HandedOut(memoryBlocks')),
         \A k \in Slots : WrittenIn(label, j, h, k) \subseteq Written(t, k)
  PROVE  StillWritten
<1> SUFFICES ASSUME NEW u \in Threads
             PROVE  /\ SizesAgree(pc'[u], job'[u], held'[u])
                    /\ FreedIsFree(pc'[u], job'[u], HandedOut(memoryBlocks'))
                    /\ \A k \in Slots : \A a \in WrittenIn(pc'[u], job'[u], held'[u], k) :
                          bytes'[a] = <<u, k>>
  BY DEF StillWritten
<1>1. \A k \in Slots : \A a \in Written(u, k) : bytes[a] = <<u, k>>
  BY DEF ContentInv
<1>2. CASE u = t
  <2>1. pc'[u] = label /\ job'[u] = j /\ held'[u] = h
    BY <1>2 DEF StepOf, ContentInv, OwnInv, IInv, TypeOK
  <2> QED  BY <1>1, <1>2, <2>1
<1>3. CASE u # t
  <2>1. /\ SizesAgree(pc'[u], job'[u], held'[u])
        /\ FreedIsFree(pc'[u], job'[u], HandedOut(memoryBlocks'))
        /\ \A k \in Slots : WrittenIn(pc'[u], job'[u], held'[u], k) = Written(u, k)
    BY <1>3, OthersWritten
  <2> QED  BY <1>1, <2>1
<1> QED  BY <1>2, <1>3

(* A step that writes in a block slot k of thread t has a claim to. *)
LEMMA BytesSet ==
  ASSUME ContentInv, NEW t \in Threads, NEW label, NEW j, NEW h, StepOf(t, label, j, h),
         NEW k \in Slots, NEW w \in Kinds, NEW x,
         ClaimIn(pc[t], job[t], held[t], k, w) = {x}, UNCHANGED memoryBlocks,
         \A a \in Offsets : ~(x.startAdress <= a /\ a < x.startAdress + x.size)
                              => bytes'[a] = bytes[a],
         SizesAgree(label, j, h), FreedIsFree(label, j, HandedOut(memoryBlocks)),
         \A i \in Slots : i # k => WrittenIn(label, j, h, i) \subseteq Written(t, i),
         \A a \in WrittenIn(label, j, h, k) : bytes'[a] = <<t, k>>
  PROVE  StillWritten
<1>0. ASSUME NEW u \in Threads, NEW i \in Slots, <<u, i>> # <<t, k>>, NEW a \in Written(u, i)
      PROVE  bytes'[a] = <<u, i>>
  <2>1. a \in Offsets /\ ~(x.startAdress <= a /\ a < x.startAdress + x.size)
    BY <1>0, WrittenApart
  <2>2. bytes[a] = <<u, i>>
    BY <1>0 DEF ContentInv
  <2> QED  BY <2>1, <2>2
<1> SUFFICES ASSUME NEW u \in Threads
             PROVE  /\ SizesAgree(pc'[u], job'[u], held'[u])
                    /\ FreedIsFree(pc'[u], job'[u], HandedOut(memoryBlocks'))
                    /\ \A i \in Slots : \A a \in WrittenIn(pc'[u], job'[u], held'[u], i) :
                          bytes'[a] = <<u, i>>
  BY DEF StillWritten
<1>1. CASE u = t
  <2>1. pc'[u] = label /\ job'[u] = j /\ held'[u] = h
    BY <1>1 DEF StepOf, ContentInv, OwnInv, IInv, TypeOK
  <2>2. SizesAgree(pc'[u], job'[u], held'[u]) /\ FreedIsFree(pc'[u], job'[u], HandedOut(memoryBlocks'))
    BY <2>1
  <2>3. ASSUME NEW i \in Slots, NEW a \in WrittenIn(label, j, h, i) PROVE bytes'[a] = <<t, i>>
    <3>1. CASE i = k
      BY <2>3, <3>1
    <3>2. CASE i # k
      <4>1. a \in Written(t, i) /\ <<t, i>> # <<t, k>>
        BY <2>3, <3>2
      <4> QED  BY <1>0, <4>1
    <3> QED  BY <3>1, <3>2
  <2> QED  BY <1>1, <2>1, <2>2, <2>3
<1>2. CASE u # t
  <2>1. /\ SizesAgree(pc'[u], job'[u], held'[u])
        /\ FreedIsFree(pc'[u], job'[u], HandedOut(memoryBlocks'))
        /\ \A i \in Slots : WrittenIn(pc'[u], job'[u], held'[u], i) = Written(u, i)
    BY <1>2, OthersWritten
  <2> QED  BY <1>0, <1>2, <2>1
<1> QED  BY <1>1, <1>2

(* A step within a call that writes no byte. *)
LEMMA CallKeepsBytes ==
  ASSUME ContentInv, NEW t \in Threads, NEW label, NEW j,
         pc' = [pc EXCEPT ![t] = label], job' = [job EXCEPT ![t] = j],
         UNCHANGED <<held, bytes>>, UNCHANGED memoryBlocks \/ owner = t,
         j.slot = job[t].slot, j.was = job[t].was, j.size = job[t].size,
         SizesAgree(label, j, held[t]), FreedIsFree(label, j, HandedOut(memoryBlocks')),
         KeepsOld(label, j) \/ Freed(label, j) => KeepsOld(pc[t], job[t]) \/ Freed(pc[t], job[t]),
         Copies(label, j) =>
            \/ j.ret = NULL
            \/ j.ret = job[t].ret /\ Copies(pc[t], job[t])
            \/ j.ret = j.was.ptr /\ (KeepsOld(pc[t], job[t]) \/ Freed(pc[t], job[t]))
  PROVE  StillWritten
<1> PICK H, c : H = held[t] /\ c = job[t]
  OBVIOUS
<1>1. TypeOK
  BY DEF ContentInv, OwnInv, IInv
<1>2. StepOf(t, label, j, H)
  BY <1>1, SlotsUnchanged DEF StepOf
<1>3. Kept(j) = Kept(c)
  BY DEF Kept
<1>4. Reach(NULL, Kept(j)) = {}
  BY DEF Reach
<1>5. Reach(c.was.ptr, Kept(c)) \subseteq Reach(c.was.ptr, c.was.filled)
  <2>1. c.was.filled \in Nat /\ c.size \in Nat /\ c.was.ptr \in Nat \cup {NULL}
    BY <1>1 DEF TypeOK, JobType, SlotType
  <2>2. Kept(c) \in Nat /\ Kept(c) <= c.was.filled
    BY <2>1 DEF Kept
  <2> QED  BY ONLY <2>1, <2>2 DEF Reach
<1>6. \A k \in Slots : WrittenIn(label, j, H, k) \subseteq WrittenIn(pc[t], c, H, k)
  BY <1>3, <1>4, <1>5 DEF WrittenIn
<1> QED  BY <1>2, <1>6, BytesStay DEF Written

(* A call returns. *)
LEMMA Return_Written ==
  ASSUME ContentInv, NEW t \in Threads, Return(t), UNCHANGED <<memoryBlocks, bytes>>,
         pc[t] \in {"alloc_unlock", "free_unlock", "resize_unlock"},
         job[t].op # "mem_free" /\ job[t].ret = NULL
           => KeepsOld(pc[t], job[t]) \/ job[t].was.ptr = NULL,
         job[t].ret # NULL => Copies(pc[t], job[t]) \/ job[t].was = Empty
  PROVE  StillWritten
<1> PICK L, H, c, k : L = pc[t] /\ H = held[t] /\ c = job[t] /\ k = c.slot
  OBVIOUS
<1> PICK b : b = IF c.op = "mem_free" THEN Empty
                 ELSE IF c.ret = NULL THEN c.was
                 ELSE [ptr |-> c.ret, size |-> c.size, filled |-> Kept(c)]
  OBVIOUS
<1> PICK h : h = [H EXCEPT ![k] = b]
  OBVIOUS
<1> PICK j : j = Job("none", k, Empty, 0)
  OBVIOUS
<1> PICK label : label = IF b = Empty THEN "idle" ELSE "fill"
  OBVIOUS
<1>1. TypeOK /\ JobFits(t) /\ KnowsIn(L, c, H) /\ SizesAgree(L, c, H)
  BY DEF ContentInv, OwnInv, IInv, Knows
<1>2. StepOf(t, label, j, h)
  BY DEF StepOf, Return, Goto, Kept
<1>3. H \in [Slots -> SlotType] /\ k \in Slots /\ c \in JobType
  BY <1>1 DEF TypeOK, JobFits
<1>4. Empty.ptr = NULL /\ Empty.size = 0 /\ Empty.filled = 0
  BY DEF Empty
<1>5. /\ c.op = "mem_free" => b = Empty /\ c.ret = NULL
      /\ c.op # "mem_free" /\ c.ret = NULL => b = c.was
      /\ c.ret # NULL => b.ptr = c.ret /\ b.size = c.size /\ b.filled = Kept(c)
  BY <1>1 DEF KnowsIn
<1>6. b.ptr = NULL => b = Empty
  BY <1>1, <1>5 DEF KnowsIn
<1>7. \A i \in Slots : h[i] = IF i = k THEN b ELSE H[i]
  BY <1>3
<1>8. j.slot = k /\ j.op = "none" /\ j.was = Empty
  BY DEF Job
<1>9. label = "fill" => h[j.slot].ptr # NULL
  BY <1>3, <1>6, <1>7, <1>8
<1>10. Kept(c) <= c.size /\ (c.was = Empty => Kept(c) = 0)
  <2>1. c.size \in Nat /\ c.was.filled \in Nat
    BY <1>3 DEF JobType, SlotType
  <2> QED  BY ONLY <1>4, <2>1 DEF Kept
<1>11. b.filled <= b.size
  <2>1. Empty.filled <= Empty.size
    BY <1>4
  <2>2. c.was.filled <= c.was.size
    BY <1>1 DEF SizesAgree
  <2> QED  BY <1>5, <1>10, <2>1, <2>2
<1>12. SizesAgree(label, j, h)
  <2>1. Empty.filled <= Empty.size
    BY <1>4
  <2>2. \A i \in Slots : h[i].filled <= h[i].size
    BY <1>1, <1>7, <1>11 DEF SizesAgree
  <2> QED  BY <1>8, <1>9, <2>1, <2>2 DEF SizesAgree
<1>13. ~KeepsOld(label, j) /\ ~Freed(label, j) /\ ~Copies(label, j)
  BY DEF KeepsOld, Freed, Copies, InFree
<1>14. FreedIsFree(label, j, HandedOut(memoryBlocks'))
  BY <1>13 DEF FreedIsFree
<1>15. Reach(b.ptr, b.filled) \subseteq WrittenIn(L, c, H, k)
  <2>1. Reach(Empty.ptr, Empty.filled) = {}
    BY <1>4 DEF Reach
  <2>2. CASE c.ret # NULL
    <3>1. c.was = Empty => Reach(c.ret, Kept(c)) = {}
      <4>1. c.ret \in Nat
        BY <1>3, <2>2 DEF JobType
      <4> QED  BY <1>10, <4>1 DEF Reach
    <3> QED  BY <1>5, <2>2, <3>1 DEF WrittenIn
  <2>3. CASE c.ret = NULL /\ c.op # "mem_free"
    <3>1. c.was.ptr = NULL => Reach(c.was.ptr, c.was.filled) = {}
      BY DEF Reach
    <3> QED  BY <1>5, <2>3, <3>1 DEF WrittenIn
  <2>4. CASE c.op = "mem_free"
    BY <1>5, <2>1, <2>4
  <2> QED  BY <2>2, <2>3, <2>4
<1>16. \A i \in Slots : WrittenIn(label, j, h, i) \subseteq Written(t, i)
  <2>1. \A i \in Slots : WrittenIn(label, j, h, i) = Reach(h[i].ptr, h[i].filled)
    BY <1>13 DEF WrittenIn
  <2>2. \A i \in Slots : Reach(H[i].ptr, H[i].filled) \subseteq WrittenIn(L, c, H, i)
    BY DEF WrittenIn
  <2> QED  BY <1>7, <1>15, <2>1, <2>2 DEF Written
<1> QED  BY <1>2, <1>12, <1>14, <1>16, BytesStay

LEMMA Start_Written ==
  ASSUME ContentInv, NEW t \in Threads, NEW k \in Slots, NEW size, NEW op, NEW label,
         label \in {"alloc_lock", "free_lock", "resize_lock"},
         op = "mem_resize" <=> label = "resize_lock",
         Start(t, op, k, size, label)
  PROVE  StillWritten
<1> PICK H : H = held[t]
  OBVIOUS
<1> PICK j, h : j = Job(op, k, H[k], size) /\ h = [H EXCEPT ![k] = Empty]
  OBVIOUS
<1>1. TypeOK /\ pc[t] = "idle" /\ SizesAgree("idle", job[t], H)
  BY DEF ContentInv, OwnInv, IInv, Start
<1>2. StepOf(t, label, j, h) /\ UNCHANGED <<memoryBlocks, bytes>>
  BY DEF Start, Goto, StepOf
<1>3. j.op = op /\ j.slot = k /\ j.was = H[k] /\ j.way = "none"
  BY DEF Job
<1>4. H \in [Slots -> SlotType] /\ \A i \in Slots : h[i] = IF i = k THEN Empty ELSE H[i]
  BY <1>1 DEF TypeOK
<1>5. SizesAgree(label, j, h)
  <2>1. Empty.filled <= Empty.size
    BY DEF Empty
  <2>2. /\ \A i \in Slots : h[i].filled <= h[i].size
        /\ H[k].filled <= H[k].size
    BY <1>1, <1>4, <2>1 DEF SizesAgree
  <2> QED  BY ONLY <1>3, <2>2, label \in {"alloc_lock", "free_lock", "resize_lock"},
                   op = "mem_resize" <=> label = "resize_lock" DEF SizesAgree, InAlloc, InFree
<1>6. ~Freed(label, j) /\ ~Copies(label, j)
  BY <1>3 DEF Freed, Copies
<1>7. FreedIsFree(label, j, HandedOut(memoryBlocks'))
  BY <1>6 DEF FreedIsFree
<1>8. Reach(Empty.ptr, Empty.filled) = {}
  BY DEF Empty, Reach
<1>9. \A i \in Slots : WrittenIn(label, j, h, i) \subseteq Reach(H[i].ptr, H[i].filled)
  BY <1>3, <1>4, <1>6, <1>8 DEF WrittenIn
<1>10. \A i \in Slots : WrittenIn(label, j, h, i) \subseteq Written(t, i)
  BY <1>9 DEF Written, WrittenIn
<1> QED  BY <1>2, <1>5, <1>7, <1>10, BytesStay

LEMMA fill_Written ==
  ASSUME ContentInv, NEW t \in Threads, fill(t)
  PROVE  StillWritten
<1> PICK H, k : H = held[t] /\ k = job[t].slot
  OBVIOUS
<1> PICK b : b = H[k]
  OBVIOUS
<1> PICK c : c = [b EXCEPT !.filled = b.size]
  OBVIOUS
<1> PICK h : h = [H EXCEPT ![k] = c]
  OBVIOUS
<1> PICK x : x = Block(b.ptr, b.size, TRUE)
  OBVIOUS
<1>1. TypeOK /\ JobFits(t) /\ pc[t] = "fill" /\ SizesAgree("fill", job[t], H)
      /\ UNCHANGED memoryBlocks /\ PoolSize \in Nat /\ OwnInv
  BY PoolAssumption DEF ContentInv, OwnInv, IInv, fill
<1>2. H \in [Slots -> SlotType] /\ k \in Slots
  BY <1>1 DEF TypeOK, JobFits
<1>3. b \in SlotType /\ b.ptr # NULL
  BY <1>1, <1>2 DEF SizesAgree
<1>4. b.ptr \in Nat /\ b.size \in Nat /\ c.ptr = b.ptr /\ c.size = b.size /\ c.filled = b.size
  BY <1>3 DEF SlotType
<1>5. StepOf(t, "idle", NoJob, h)
  <2>1. held' = [held EXCEPT ![t] = [held[t] EXCEPT ![k] = c]]
    BY DEF fill
  <2>2. held' = [held EXCEPT ![t] = h]
    BY <2>1
  <2> QED  BY <2>2 DEF fill, Goto, StepOf
<1>6. x.startAdress = b.ptr /\ x.size = b.size
  BY DEF Block
<1>7. ClaimIn(pc[t], job[t], held[t], k, "slot") = {x} /\ "slot" \in Kinds
  BY <1>3 DEF ClaimIn, Handed, Kinds
<1>8. \A i \in Slots : h[i] = IF i = k THEN c ELSE H[i]
  BY <1>2
<1>9. bytes' = [a \in Offsets |->
                  IF b.ptr <= a /\ a < b.ptr + b.size THEN <<t, k>> ELSE bytes[a]]
  BY DEF fill
<1>10. SizesAgree("idle", NoJob, h)
  <2>1. NoJob.op = "none" /\ NoJob.was.filled <= NoJob.was.size
    BY DEF NoJob, Job, Empty
  <2>2. \A i \in Slots : h[i].filled <= h[i].size
    <3>1. c.filled <= c.size
      BY <1>4
    <3> QED  BY <1>1, <1>8, <3>1 DEF SizesAgree
  <2> QED  BY <2>1, <2>2 DEF SizesAgree
<1>11. NoJob.op = "none"
  BY DEF NoJob, Job
<1>12. ~KeepsOld("idle", NoJob) /\ ~Freed("idle", NoJob) /\ ~Copies("idle", NoJob)
  BY DEF KeepsOld, Freed, Copies, InFree
<1>13. FreedIsFree("idle", NoJob, HandedOut(memoryBlocks))
  BY <1>12 DEF FreedIsFree
<1>14. \A i \in Slots : WrittenIn("idle", NoJob, h, i) = Reach(h[i].ptr, h[i].filled)
  BY <1>12 DEF WrittenIn
<1>15. \A i \in Slots : i # k => WrittenIn("idle", NoJob, h, i) \subseteq Written(t, i)
  BY <1>8, <1>14 DEF Written, WrittenIn
<1>16. \A a \in Offsets : ~(x.startAdress <= a /\ a < x.startAdress + x.size)
                            => bytes'[a] = bytes[a]
  BY <1>6, <1>9
<1>17. \A a \in WrittenIn("idle", NoJob, h, k) : bytes'[a] = <<t, k>>
  <2>0. WrittenIn("idle", NoJob, h, k) = Reach(b.ptr, b.size)
    <3>1. h[k] = c
      BY <1>2, <1>8
    <3> QED  BY <1>2, <1>4, <1>14, <3>1
  <2> SUFFICES ASSUME NEW a \in Reach(b.ptr, b.size) PROVE bytes'[a] = <<t, k>>
    BY <2>0
  <2>1. a \in Nat /\ b.ptr <= a /\ a < b.ptr + b.size
    BY <1>4, Addresses
  <2>2. x \in HandedOut(memoryBlocks)
    BY ONLY <1>1, <1>2, <1>7, ClaimedBlock, t \in Threads
  <2>3. b.ptr + b.size <= PoolSize
    <3>1. WellFormed(memoryBlocks, PoolSize)
      BY <1>1 DEF OwnInv, IInv
    <3>2. x.startAdress + x.size <= PoolSize
      BY <1>1, <2>2, <3>1, UsedBlocksDisjoint
    <3> QED  BY <1>6, <3>2
  <2>4. a \in Offsets
    BY <1>1, <1>4, <2>1, <2>3 DEF Offsets
  <2> QED  BY <1>9, <2>1, <2>4
<1> QED
  BY ONLY ContentInv, t \in Threads, <1>1, <1>2, <1>5, <1>7, <1>10, <1>13, <1>15, <1>16, <1>17,
          BytesSet

LEMMA Lock_Written ==
  ASSUME ContentInv, NEW t \in Threads, Lock(t)
  PROVE  StillWritten
<1> PICK L, j, label : L = pc[t] /\ j = job[t] /\ label = Acquire[L]
  OBVIOUS
<1>1. /\ TypeOK /\ SizesAgree(L, j, held[t])
      /\ FreedIsFree(L, j, HandedOut(memoryBlocks))
  BY DEF ContentInv, OwnInv, IInv
<1>2. /\ L \in {"alloc_lock", "free_lock", "resize_lock"}
      /\ label = IF L = "alloc_lock" THEN "alloc_body"
                 ELSE IF L = "free_lock" THEN "free_body" ELSE "resize_body"
  BY DEF Lock, Acquire
<1>3. /\ pc' = [pc EXCEPT ![t] = label] /\ UNCHANGED <<job, held, memoryBlocks, bytes>>
  BY DEF Lock, Goto
<1>4. job' = [job EXCEPT ![t] = j]
  BY <1>1, <1>3, JobUnchanged
<1>5. SizesAgree(label, j, held[t])
  BY <1>1, <1>2 DEF SizesAgree, InAlloc, InFree
<1>6. /\ Freed(label, j) <=> Freed(L, j)
      /\ KeepsOld(label, j) <=> KeepsOld(L, j)
      /\ Copies(label, j) <=> Copies(L, j)
  BY <1>2 DEF KeepsOld, Freed, Copies, InFree
<1>7. FreedIsFree(label, j, HandedOut(memoryBlocks'))
  BY <1>1, <1>3, <1>6 DEF FreedIsFree
<1>8. UNCHANGED <<held, bytes>> /\ UNCHANGED memoryBlocks
  BY <1>3
<1> QED  BY <1>3, <1>4, <1>5, <1>6, <1>7, <1>8, CallKeepsBytes

(* A thread inside one of the three bodies has the lock. *)
LEMMA BodyHasLock ==
  ASSUME LockCountsNesting, NEW t \in Threads,
         pc[t] \in {"alloc_body", "free_body"} \/ (pc[t] = "resize_body" /\ job[t].op = "mem_resize")
  PROVE  owner = t
<1>1. Nesting(t) # 0
  BY DEF Nesting
<1> QED  BY <1>1 DEF LockCountsNesting

LEMMA alloc_body_Written ==
  ASSUME ContentInv, ReallocMayFail = FALSE, NEW t \in Threads, alloc_body(t)
  PROVE  StillWritten
<1> PICK c, bs, size : c = job[t] /\ bs = memoryBlocks /\ size = job[t].size
  OBVIOUS
<1> PICK U : U = HandedOut(memoryBlocks)
  OBVIOUS
<1>1. /\ TypeOK /\ JobFits(t) /\ bs \in Seq(BlockType) /\ SizesAgree(pc[t], c, held[t])
      /\ FreedIsFree(pc[t], c, U) /\ KnowsIn(pc[t], c, held[t]) /\ LockCountsNesting
  BY DEF ContentInv, OwnInv, IInv, TypeOK, Knows
<1>2. pc[t] = "alloc_body" /\ UNCHANGED <<held, bytes>> /\ owner = t
  BY <1>1, BodyHasLock DEF alloc_body
<1>3. c \in JobType /\ size \in Nat /\ c.op \in {"mem_alloc", "mem_resize"}
  BY <1>1, <1>2 DEF TypeOK, JobFits, JobType, InAlloc
<1>4. size # 0 /\ c.ret = NULL
  BY <1>1, <1>2, <1>3 DEF KnowsIn
<1>5. ASSUME NEW ret, Answer(t, ret, "alloc_unlock"),
             \A b \in HandedOut(memoryBlocks') : b \in U \/ b.startAdress = ret
      PROVE  StillWritten
  <2> PICK j : j = [c EXCEPT !.ret = ret]
    OBVIOUS
  <2>1. pc' = [pc EXCEPT ![t] = "alloc_unlock"] /\ job' = [job EXCEPT ![t] = [job[t] EXCEPT !.ret = ret]]
    BY <1>5 DEF Answer, Goto
  <2>2. job' = [job EXCEPT ![t] = j]
    BY <2>1
  <2>3. /\ j.op = c.op /\ j.slot = c.slot /\ j.was = c.was /\ j.size = c.size
        /\ j.way = c.way /\ j.ret = ret /\ j.old = c.old
    BY <1>3 DEF JobType
  <2>4. /\ Freed("alloc_unlock", j) <=> Freed(pc[t], c)
        /\ KeepsOld("alloc_unlock", j) <=> KeepsOld(pc[t], c)
        /\ ~Copies("alloc_unlock", j)
    BY <1>2, <2>3 DEF Freed, KeepsOld, Copies, InFree
  <2>5. SizesAgree("alloc_unlock", j, held[t])
    BY <1>1, <1>2, <2>3 DEF SizesAgree, InAlloc, InFree
  <2>6. \A b \in U : b.startAdress # c.ret
    <3>1. \A b \in HandedOut(memoryBlocks) : b.startAdress \in Nat
      BY <1>1, UsedBlocksTyped
    <3> QED  BY <1>4, <3>1, NullAssumption
  <2>7. FreedIsFree("alloc_unlock", j, HandedOut(memoryBlocks'))
    BY <1>1, <1>5, <2>3, <2>4, <2>6 DEF FreedIsFree
  <2>8. j.slot = job[t].slot /\ j.was = job[t].was /\ j.size = job[t].size
    BY <2>3
  <2> QED  BY <1>2, <2>1, <2>2, <2>4, <2>5, <2>7, <2>8, CallKeepsBytes
<1>6. \/ Answer(t, NULL, "alloc_unlock") /\ UNCHANGED memoryBlocks
      \/ \E i \in FirstFit(bs, size) :
            memoryBlocks' = Carve(bs, i, size) /\ Answer(t, bs[i].startAdress, "alloc_unlock")
  BY <1>4, ReallocMayFail = FALSE DEF alloc_body
<1>7. CASE Answer(t, NULL, "alloc_unlock") /\ UNCHANGED memoryBlocks
  BY <1>5, <1>7
<1>8. ASSUME NEW i \in FirstFit(bs, size),
             memoryBlocks' = Carve(bs, i, size), Answer(t, bs[i].startAdress, "alloc_unlock")
      PROVE  StillWritten
  <2> PICK x : x = Block(bs[i].startAdress, size, TRUE)
    OBVIOUS
  <2>1. HandedOut(memoryBlocks') = U \cup {x}
    BY <1>1, <1>3, <1>8, CarveUsed
  <2>2. x.startAdress = bs[i].startAdress
    BY DEF Block
  <2> QED  BY <1>5, <1>8, <2>1, <2>2
<1> QED  BY <1>6, <1>7, <1>8

LEMMA alloc_unlock_Written ==
  ASSUME ContentInv, NEW t \in Threads, alloc_unlock(t)
  PROVE  StillWritten
<1> PICK c : c = job[t]
  OBVIOUS
<1>1. /\ TypeOK /\ JobFits(t) /\ pc[t] = "alloc_unlock" /\ UNCHANGED <<memoryBlocks, bytes>>
      /\ SizesAgree(pc[t], c, held[t]) /\ FreedIsFree(pc[t], c, HandedOut(memoryBlocks))
      /\ KnowsIn(pc[t], c, held[t])
  BY DEF ContentInv, OwnInv, IInv, Knows, alloc_unlock
<1>2. CASE c.op = "mem_alloc"
  <2>1. c.was = Empty /\ c.was.ptr = NULL
    BY <1>1, <1>2 DEF KnowsIn, Empty
  <2>2. Return(t)
    BY <1>2 DEF alloc_unlock
  <2> QED  BY <1>1, <2>1, <2>2, Return_Written
<1>3. CASE c.op # "mem_alloc"
  <2>1. pc' = [pc EXCEPT ![t] = "resize_move"] /\ UNCHANGED <<job, held, memoryBlocks, bytes>>
    BY <1>3 DEF alloc_unlock, Goto
  <2>2. job' = [job EXCEPT ![t] = c]
    BY <1>1, <2>1, JobUnchanged
  <2>3. SizesAgree("resize_move", c, held[t])
    BY <1>1 DEF SizesAgree, InAlloc, InFree
  <2>4. /\ Freed("resize_move", c) <=> Freed(pc[t], c)
        /\ KeepsOld("resize_move", c) <=> KeepsOld(pc[t], c)
        /\ ~Copies("resize_move", c)
    BY <1>1 DEF Freed, KeepsOld, Copies, InFree
  <2>5. FreedIsFree("resize_move", c, HandedOut(memoryBlocks'))
    BY <1>1, <2>1, <2>4 DEF FreedIsFree
  <2>6. UNCHANGED <<held, bytes>> /\ UNCHANGED memoryBlocks
    BY <2>1
  <2> QED  BY <2>1, <2>2, <2>3, <2>4, <2>5, <2>6, CallKeepsBytes
<1> QED  BY <1>2, <1>3

LEMMA free_body_Written ==
  ASSUME ContentInv, NEW t \in Threads, free_body(t)
  PROVE  StillWritten
<1> PICK c, p, k : c = job[t] /\ p = job[t].was.ptr /\ k = job[t].slot
  OBVIOUS
<1> PICK U, V : U = HandedOut(memoryBlocks) /\ V = HandedOut(memoryBlocks')
  OBVIOUS
<1>1. /\ OwnInv /\ TypeOK /\ JobFits(t) /\ CopyFits(t) /\ LockCountsNesting
      /\ WellFormed(memoryBlocks, PoolSize) /\ PoolSize \in Nat
      /\ SizesAgree(pc[t], c, held[t]) /\ KnowsIn(pc[t], c, held[t])
  BY PoolAssumption DEF ContentInv, OwnInv, IInv, Knows
<1>2. /\ pc[t] = "free_body" /\ pc' = [pc EXCEPT ![t] = "free_unlock"]
      /\ UNCHANGED <<job, held, bytes>> /\ owner = t
  BY <1>1, BodyHasLock DEF free_body, Goto
<1>3. job' = [job EXCEPT ![t] = c]
  BY <1>1, <1>2, JobUnchanged
<1>4. k \in Slots /\ c.slot = k
  BY <1>1, <1>2 DEF JobFits
<1>5. V = {b \in U : b.startAdress # p}
  BY <1>1, AfterFreeUsed DEF free_body
<1>6. KeepsOld(pc[t], c) /\ ~KeepsOld("free_unlock", c)
      /\ (Copies("free_unlock", c) <=> Copies(pc[t], c))
  BY <1>2 DEF KeepsOld, Copies, InFree
<1>7. SizesAgree("free_unlock", c, held[t])
  BY <1>1, <1>2 DEF SizesAgree, InAlloc, InFree
<1>8. FreedIsFree("free_unlock", c, V)
  <2> SUFFICES ASSUME Freed("free_unlock", c), NEW b \in V
               PROVE  \/ b.startAdress + b.size <= p
                      \/ p + c.was.size <= b.startAdress
    BY DEF FreedIsFree
  <2> PICK x : x = Block(p, c.was.size, TRUE)
    OBVIOUS
  <2>1. p \in Nat /\ p # NULL
    BY <1>1, <1>2, NullAssumption DEF CopyFits, ReadsInPool, Freed, InFree
  <2>2. ClaimIn(pc[t], job[t], held[t], k, "was") = {x} /\ "was" \in Kinds
    BY <1>4, <1>6, <2>1 DEF ClaimIn, Handed, Kinds
  <2>3. x \in U
    <3>1. x \in HandedOut(memoryBlocks)
      BY ONLY <1>1, <1>4, <2>2, ClaimedBlock, t \in Threads
    <3> QED  BY <3>1
  <2>4. x.startAdress = p /\ x.size = c.was.size
    BY DEF Block
  <2>5. b \in U /\ b # x
    BY <1>5, <2>4
  <2> QED  BY <1>1, <2>3, <2>4, <2>5, UsedBlocksDisjoint
<1>9. FreedIsFree("free_unlock", c, HandedOut(memoryBlocks'))
  BY <1>8
<1>10. UNCHANGED <<held, bytes>>
  BY <1>2
<1> QED  BY <1>2, <1>3, <1>6, <1>7, <1>9, <1>10, CallKeepsBytes

LEMMA free_unlock_Written ==
  ASSUME ContentInv, NEW t \in Threads, free_unlock(t)
  PROVE  StillWritten
<1> PICK c : c = job[t]
  OBVIOUS
<1>1. /\ TypeOK /\ JobFits(t) /\ pc[t] = "free_unlock" /\ UNCHANGED <<memoryBlocks, bytes>>
      /\ SizesAgree(pc[t], c, held[t]) /\ FreedIsFree(pc[t], c, HandedOut(memoryBlocks))
      /\ KnowsIn(pc[t], c, held[t])
  BY DEF ContentInv, OwnInv, IInv, Knows, free_unlock
<1>2. CASE c.op = "mem_free"
  <2>1. Return(t) /\ c.ret = NULL
    BY <1>1, <1>2 DEF free_unlock, KnowsIn
  <2> QED  BY <1>1, <1>2, <2>1, Return_Written
<1>3. CASE c.op # "mem_free"
  <2> PICK label : label = IF c.way = "elsewhere" THEN "resize_unlock" ELSE "alloc_lock"
    OBVIOUS
  <2>1. pc' = [pc EXCEPT ![t] = label] /\ UNCHANGED <<job, held, memoryBlocks, bytes>>
    BY <1>3 DEF free_unlock, Goto
  <2>2. job' = [job EXCEPT ![t] = c]
    BY <1>1, <2>1, JobUnchanged
  <2>3. /\ c.op = "mem_resize" /\ c.way \in {"growing", "shrinking", "elsewhere"}
        /\ (c.way = "elsewhere" <=> c.ret # NULL)
    BY <1>1, <1>3 DEF JobFits, KnowsIn, InFree
  <2>4. SizesAgree(label, c, held[t])
    BY <1>1 DEF SizesAgree, InAlloc, InFree
  <2>5. /\ Freed(label, c) <=> Freed(pc[t], c)
        /\ ~KeepsOld(label, c)
        /\ Copies(label, c) => Copies(pc[t], c)
    BY <1>1, <2>3 DEF Freed, KeepsOld, Copies, InFree
  <2>6. FreedIsFree(label, c, HandedOut(memoryBlocks'))
    BY <1>1, <2>1, <2>5 DEF FreedIsFree
  <2>7. UNCHANGED <<held, bytes>> /\ UNCHANGED memoryBlocks
    BY <2>1
  <2> QED  BY <2>1, <2>2, <2>4, <2>5, <2>6, <2>7, CallKeepsBytes
<1> QED  BY <1>2, <1>3

LEMMA resize_unlock_Written ==
  ASSUME ContentInv, NEW t \in Threads, resize_unlock(t)
  PROVE  StillWritten
<1>1. pc[t] = "resize_unlock" /\ UNCHANGED <<memoryBlocks, bytes>> /\ Return(t)
  BY DEF resize_unlock
<1>2. Copies(pc[t], job[t]) /\ (job[t].ret = NULL => KeepsOld(pc[t], job[t]))
  BY <1>1 DEF KeepsOld, Copies
<1> QED  BY <1>1, <1>2, Return_Written

LEMMA resize_body_Written ==
  ASSUME ContentInv, NEW t \in Threads, resize_body(t)
  PROVE  StillWritten
<1> PICK c, k, bs, p, size :
         /\ c = job[t] /\ k = job[t].slot /\ bs = memoryBlocks
         /\ p = job[t].was.ptr /\ size = job[t].size
  OBVIOUS
<1>1. /\ OwnInv /\ TypeOK /\ JobFits(t) /\ LockCountsNesting
      /\ WellFormed(bs, PoolSize) /\ bs \in Seq(BlockType) /\ PoolSize \in Nat
      /\ SizesAgree(pc[t], c, held[t])
  BY PoolAssumption DEF ContentInv, OwnInv, IInv, TypeOK
<1>2. pc[t] = "resize_body" /\ UNCHANGED <<held, bytes>>
  BY DEF resize_body
<1>3. c \in JobType /\ size \in Nat /\ k \in Slots /\ c.op = "mem_resize" /\ owner = t
  BY <1>1, <1>2, BodyHasLock DEF TypeOK, JobFits, JobType, InResize
<1>4. KeepsOld(pc[t], job[t])
  BY <1>2 DEF KeepsOld
<1>5. ASSUME NEW way, NEW old, NEW ret \in {NULL, p},
             NEW label \in {"resize_unlock", "free_lock", "alloc_lock"},
             Take(t, way, old, ret, label),
             label = "alloc_lock" <=> way = "elsewhere",
             label # "resize_unlock" =>
               old = c.was.size /\ IF way = "shrinking" THEN size <= old ELSE old <= size
      PROVE  StillWritten
  <2> PICK j : j = [c EXCEPT !.way = way, !.old = old, !.ret = ret]
    OBVIOUS
  <2>1. pc' = [pc EXCEPT ![t] = label] /\ job' = [job EXCEPT ![t] = j]
    BY <1>5 DEF Take, Goto
  <2>2. /\ j.op = c.op /\ j.slot = c.slot /\ j.was = c.was /\ j.size = c.size
        /\ j.way = way /\ j.ret = ret /\ j.old = old
    BY <1>3 DEF JobType
  <2>3. ~Freed(label, j) /\ (Copies(label, j) => label = "resize_unlock")
    BY <1>5, <2>2 DEF Freed, Copies, InFree
  <2>4. FreedIsFree(label, j, HandedOut(memoryBlocks'))
    BY <2>3 DEF FreedIsFree
  <2>5. label # "fill" /\ (label = "resize_unlock" => label \notin InAlloc \cup InFree \cup {"resize_move"})
    BY <1>5 DEF InAlloc, InFree
  <2>6. (\A i \in Slots : held[t][i].filled <= held[t][i].size) /\ c.was.filled <= c.was.size
    BY <1>1 DEF SizesAgree
  <2>7. SizesAgree(label, j, held[t])
    <3>1. label \in InAlloc \cup InFree \cup {"resize_move"} =>
            j.old = j.was.size /\ IF j.way = "shrinking" THEN j.size <= j.old ELSE j.old <= j.size
      BY <1>5, <2>2, <2>5
    <3> QED  BY ONLY <2>2, <2>5, <2>6, <3>1 DEF SizesAgree
  <2>8. j.ret = NULL \/ j.ret = j.was.ptr
    BY <1>5, <2>2
  <2>9. UNCHANGED memoryBlocks \/ owner = t
    BY <1>3
  <2>10. j.slot = job[t].slot /\ j.was = job[t].was /\ j.size = job[t].size
    BY <2>2
  <2>11. UNCHANGED <<held, bytes>>
    BY <1>2
  <2> QED
    BY ONLY ContentInv, t \in Threads, <1>4, <2>1, <2>4, <2>7, <2>8, <2>9, <2>10, <2>11,
            CallKeepsBytes
<1>6. ASSUME NEW i \in LastAt(bs, p)
      PROVE  bs[i].size = c.was.size /\ bs[i].size \in Nat
  <2>1. i \in DOMAIN bs /\ bs[i].startAdress = p /\ p \in Nat /\ p # NULL /\ bs[i].size \in Nat
    BY <1>1, BlocksTyped, NullAssumption DEF LastAt
  <2> PICK x : x = Block(p, c.was.size, TRUE)
    OBVIOUS
  <2>2. ClaimIn(pc[t], job[t], held[t], k, "was") = {x} /\ "was" \in Kinds
    BY <1>4, <2>1 DEF ClaimIn, Handed, Kinds
  <2>3. x \in HandedOut(memoryBlocks)
    BY ONLY <1>1, <1>3, <2>2, ClaimedBlock, t \in Threads
  <2> PICK m \in DOMAIN bs : bs[m] = x
    BY <2>3 DEF HandedOut
  <2>4. bs[m].startAdress = bs[i].startAdress /\ bs[m].size = c.was.size
    BY <2>1 DEF Block
  <2>5. m = i
    BY <1>1, <2>1, <2>4, OneBlockPerAddress
  <2> QED  BY <2>1, <2>4, <2>5
<1>7. \/ Take(t, "in place", 0, NULL, "resize_unlock")
      \/ Take(t, "in place", 0, p, "resize_unlock")
      \/ \E i \in LastAt(bs, p) :
            \/ Take(t, "growing", bs[i].size, NULL, "free_lock") /\ bs[i].size < size
            \/ Take(t, "elsewhere", bs[i].size, NULL, "alloc_lock") /\ bs[i].size < size
            \/ Take(t, "shrinking", bs[i].size, NULL, "free_lock") /\ size < bs[i].size
  BY DEF resize_body
<1>8. CASE \E ret \in {NULL, p} : Take(t, "in place", 0, ret, "resize_unlock")
  BY <1>5, <1>8
<1>9. ASSUME NEW i \in LastAt(bs, p),
             \/ Take(t, "growing", bs[i].size, NULL, "free_lock") /\ bs[i].size < size
             \/ Take(t, "elsewhere", bs[i].size, NULL, "alloc_lock") /\ bs[i].size < size
             \/ Take(t, "shrinking", bs[i].size, NULL, "free_lock") /\ size < bs[i].size
      PROVE  StillWritten
  <2> PICK old : old = bs[i].size
    OBVIOUS
  <2>1. old = c.was.size /\ old \in Nat
    BY <1>6, <1>9
  <2>2. (old < size => old <= size) /\ (size < old => size <= old)
    BY <1>3, <2>1
  <2>3. CASE Take(t, "growing", old, NULL, "free_lock") /\ old < size
    BY <1>5, <2>1, <2>2, <2>3
  <2>4. CASE Take(t, "elsewhere", old, NULL, "alloc_lock") /\ old < size
    BY <1>5, <2>1, <2>2, <2>4
  <2>5. CASE Take(t, "shrinking", old, NULL, "free_lock") /\ size < old
    BY <1>5, <2>1, <2>2, <2>5
  <2> QED  BY <1>9, <2>3, <2>4, <2>5
<1> QED  BY <1>7, <1>8, <1>9

LEMMA resize_move_Written ==
  ASSUME ContentInv, NEW t \in Threads, resize_move(t)
  PROVE  StillWritten
<1> PICK c, k, p : c = job[t] /\ k = job[t].slot /\ p = job[t].was.ptr
  OBVIOUS
<1>1. /\ OwnInv /\ TypeOK /\ JobFits(t) /\ CopyFits(t) /\ PoolSize \in Nat
      /\ SizesAgree(pc[t], c, held[t]) /\ FreedIsFree(pc[t], c, HandedOut(memoryBlocks))
      /\ KnowsIn(pc[t], c, held[t])
  BY PoolAssumption DEF ContentInv, OwnInv, IInv, Knows
<1>2. pc[t] = "resize_move" /\ UNCHANGED <<held, memoryBlocks>>
  BY DEF resize_move
<1>3. c \in JobType /\ k \in Slots /\ c.slot = k /\ c.op = "mem_resize"
  BY <1>1, <1>2 DEF TypeOK, JobFits, InResize
<1>4. p \in Nat /\ p # NULL /\ p + c.old <= PoolSize
  BY <1>1, <1>2, <1>3, NullAssumption DEF CopyFits, ReadsInPool
<1>5. c.way \in {"growing", "shrinking", "elsewhere"}
  BY <1>1, <1>2, <1>3 DEF KnowsIn
<1>6. KeepsOld(pc[t], c) \/ Freed(pc[t], c)
  BY <1>2, <1>3, <1>5 DEF KeepsOld, Freed
<1>7. c.old = c.was.size /\ IF c.way = "shrinking" THEN c.size <= c.old ELSE c.old <= c.size
  BY <1>1, <1>2, <1>3 DEF SizesAgree
<1>8. ASSUME NEW j, NEW label \in {"resize_unlock", "free_lock"},
             j.op = c.op, j.was = c.was, j.size = c.size, j.way = c.way, j.old = c.old,
             label = "free_lock" => c.way = "elsewhere"
      PROVE  SizesAgree(label, j, held[t]) /\ FreedIsFree(label, j, HandedOut(memoryBlocks))
             /\ ~Freed(label, j)
  <2>1. label # "fill"
    BY <1>8
  <2>2. (\A i \in Slots : held[t][i].filled <= held[t][i].size) /\ c.was.filled <= c.was.size
    BY <1>1 DEF SizesAgree
  <2>3. ~Freed(label, j)
    BY <1>8 DEF Freed
  <2> QED  BY <1>7, <1>8, <2>1, <2>2, <2>3 DEF SizesAgree, FreedIsFree
<1>9. CASE (c.ret = NULL \/ c.ret = p) /\ Goto(t, "resize_unlock") /\ UNCHANGED <<job, bytes>>
  <2>1. job' = [job EXCEPT ![t] = c] /\ pc' = [pc EXCEPT ![t] = "resize_unlock"]
    BY <1>1, <1>9, JobUnchanged DEF Goto
  <2>2. SizesAgree("resize_unlock", c, held[t]) /\ FreedIsFree("resize_unlock", c, HandedOut(memoryBlocks'))
    BY <1>2, <1>8
  <2>3. UNCHANGED <<held, bytes>> /\ UNCHANGED memoryBlocks
    BY <1>2, <1>9
  <2> QED  BY <1>6, <1>9, <2>1, <2>2, <2>3, CallKeepsBytes
<1>10. CASE UNCHANGED <<pc, job, bytes>>
  <2>1. UNCHANGED <<held, memoryBlocks, pc, job, bytes>>
    BY <1>2, <1>10
  <2> QED  BY <2>1 DEF StillWritten, ContentInv, Written
<1>11. CASE /\ c.ret \notin {NULL, p}
            /\ bytes' = [a \in Offsets |->
                           IF c.ret <= a /\ a < c.ret + Copied(c)
                           THEN bytes[a - c.ret + p] ELSE bytes[a]]
            /\ job' = [job EXCEPT ![t].moved = Copied(c)]
            /\ Goto(t, AfterCopying(c))
  <2> PICK label, j, H, x, r, n :
         /\ label = AfterCopying(c) /\ j = [c EXCEPT !.moved = Copied(c)] /\ H = held[t]
         /\ x = Block(c.ret, c.size, TRUE) /\ r = c.ret /\ n = Copied(c)
    OBVIOUS
  <2>1. pc' = [pc EXCEPT ![t] = label] /\ job' = [job EXCEPT ![t] = j]
    BY <1>11 DEF Goto
  <2>2. /\ j.op = c.op /\ j.slot = c.slot /\ j.was = c.was /\ j.size = c.size
        /\ j.way = c.way /\ j.ret = c.ret /\ j.old = c.old
    BY <1>3 DEF JobType
  <2>3. label = IF c.way = "elsewhere" THEN "free_lock" ELSE "resize_unlock"
    BY DEF AfterCopying
  <2>4. StepOf(t, label, j, H)
    BY <1>1, <1>2, <2>1, SlotsUnchanged DEF StepOf
  <2>5. /\ SizesAgree(label, j, H) /\ FreedIsFree(label, j, HandedOut(memoryBlocks))
        /\ ~Freed(label, j)
    BY <1>8, <2>2, <2>3
  <2>6. r \in Nat /\ r # NULL /\ r # p /\ c.size \in Nat /\ c.old \in Nat /\ c.was.filled \in Nat
    BY <1>3, <1>11 DEF JobType, SlotType
  <2>7. x.startAdress = r /\ x.size = c.size
    BY DEF Block
  <2>8. ClaimIn(pc[t], job[t], held[t], k, "new") = {x} /\ "new" \in Kinds /\ "was" \in Kinds
    BY <2>6 DEF ClaimIn, Handed, Kinds
  <2>9. n = (IF c.way = "shrinking" THEN c.size ELSE c.old) /\ n <= c.size /\ n \in Nat
    BY <1>7, <2>6 DEF Copied
  <2>10. Kept(c) <= n /\ Kept(c) <= c.was.filled /\ Kept(c) \in Nat
    <3>1. c.was.filled <= c.was.size
      BY <1>1 DEF SizesAgree
    <3>2. n = c.size \/ n = c.old
      BY <2>9
    <3> QED  BY ONLY <1>7, <2>6, <3>1, <3>2 DEF Kept
  <2>11. bytes' = [a \in Offsets |->
                     IF r <= a /\ a < r + n THEN bytes[a - r + p] ELSE bytes[a]]
    BY <1>11
  <2>12. \A a \in Offsets : ~(r <= a /\ a < r + c.size) => bytes'[a] = bytes[a]
    <3> SUFFICES ASSUME NEW a \in Offsets, ~(r <= a /\ a < r + c.size) PROVE bytes'[a] = bytes[a]
      OBVIOUS
    <3>1. ~(r <= a /\ a < r + n)
      BY ONLY <2>6, <2>9, ~(r <= a /\ a < r + c.size), a \in Offsets, <1>1 DEF Offsets
    <3> QED  BY <2>11, <3>1
  <2>13. \A a \in Offsets : ~(x.startAdress <= a /\ a < x.startAdress + x.size)
                              => bytes'[a] = bytes[a]
    BY <2>7, <2>12
  <2>14. \A i \in Slots : i # k => WrittenIn(label, j, H, i) \subseteq Written(t, i)
    BY <1>3, <2>2 DEF Written, WrittenIn
  <2>15. r + c.size <= PoolSize
    <3>1. x \in HandedOut(memoryBlocks)
      BY ONLY <1>1, <1>3, <2>8, ClaimedBlock, t \in Threads
    <3>2. WellFormed(memoryBlocks, PoolSize)
      BY <1>1 DEF OwnInv, IInv
    <3>3. x.startAdress + x.size <= PoolSize
      BY <1>1, <3>1, <3>2, UsedBlocksDisjoint
    <3> QED  BY <2>7, <3>3
  <2>16. \A a \in Reach(p, c.was.filled) : bytes[a] = <<t, k>>
    BY <1>3, <1>6 DEF ContentInv, Written, WrittenIn
  <2>17. ASSUME NEW a \in Reach(r, Kept(c)) PROVE bytes'[a] = <<t, k>>
    <3>1. a \in Nat /\ r <= a /\ a < r + Kept(c)
      BY <2>6, <2>10, Addresses
    <3>2. a \in Offsets
      BY ONLY <1>1, <2>6, <2>9, <2>10, <2>15, <3>1 DEF Offsets
    <3>3. r <= a /\ a < r + n
      BY ONLY <2>6, <2>9, <2>10, <3>1
    <3>4. a - r + p \in Reach(p, c.was.filled)
      BY ONLY <1>4, <2>6, <2>10, <3>1 DEF Reach
    <3> QED  BY <2>11, <2>16, <3>2, <3>3, <3>4
  <2>18. ASSUME KeepsOld(label, j), NEW a \in Reach(p, c.was.filled) PROVE bytes'[a] = <<t, k>>
    <3> PICK y : y = Block(p, c.was.size, TRUE)
      OBVIOUS
    <3>1. c.way = "elsewhere"
      BY <2>2, <2>3, <2>6, <2>18 DEF KeepsOld
    <3>2. ClaimIn(pc[t], job[t], held[t], k, "was") = {y}
      BY <1>2, <1>4, <3>1 DEF ClaimIn, Handed, KeepsOld
    <3>3. y.startAdress = p /\ y.size = c.was.size
      BY DEF Block
    <3>4. <<t, k, "was">> # <<t, k, "new">>
      OBVIOUS
    <3>5. /\ y.startAdress + y.size <= PoolSize
          /\ \/ x.startAdress + x.size <= y.startAdress
             \/ y.startAdress + y.size <= x.startAdress
      BY ONLY <1>1, <1>3, <2>8, <3>2, <3>4, ClaimsApart, t \in Threads
    <3>6. a \in Nat /\ p <= a /\ a < p + c.was.filled
      BY <1>4, <2>6, <2>18, Addresses
    <3>7. c.was.filled <= c.was.size
      BY <1>1 DEF SizesAgree
    <3>8. c.was.size \in Nat
      BY <1>7, <2>6
    <3>9. a < PoolSize /\ ~(r <= a /\ a < r + c.size)
      BY ONLY <1>1, <1>4, <2>6, <2>7, <3>3, <3>5, <3>6, <3>7, <3>8
    <3>10. a \in Offsets
      BY ONLY <1>1, <3>6, <3>9 DEF Offsets
    <3> QED  BY <2>12, <2>16, <2>18, <3>9, <3>10
  <2>19. \A a \in WrittenIn(label, j, H, k) : bytes'[a] = <<t, k>>
    <3>1. Reach(H[k].ptr, H[k].filled) = {}
      BY <1>1, <1>2, <1>3 DEF KnowsIn, Empty, Reach
    <3>2. Kept(j) = Kept(c)
      BY <2>2 DEF Kept
    <3>3. \A a \in WrittenIn(label, j, H, k) :
             a \in Reach(r, Kept(c)) \/ (KeepsOld(label, j) /\ a \in Reach(p, c.was.filled))
      BY <2>2, <2>5, <3>1, <3>2 DEF WrittenIn
    <3> QED  BY <2>17, <2>18, <3>3
  <2> QED
    BY ONLY ContentInv, t \in Threads, <1>2, <1>3, <2>4, <2>5, <2>8, <2>13, <2>14, <2>19, BytesSet
<1> QED  BY <1>9, <1>10, <1>11 DEF resize_move

-----------------------------------------------------------------------------
LEMMA InitContent == Init => ContentInv
<1> SUFFICES ASSUME Init PROVE ContentInv
  OBVIOUS
<1>1. \A t \in Threads : pc[t] = "idle" /\ job[t] = NoJob
  BY DEF Init
<1>2. \A t \in Threads, k \in Slots : held[t][k] = Empty
  BY DEF Init
<1>3. ~KeepsOld("idle", NoJob) /\ ~Freed("idle", NoJob) /\ ~Copies("idle", NoJob)
  BY DEF KeepsOld, Freed, Copies, InFree
<1>4. NoJob.op = "none" /\ NoJob.was.filled <= NoJob.was.size /\ Empty.filled <= Empty.size
  BY DEF NoJob, Job, Empty
<1>5. Reach(Empty.ptr, Empty.filled) = {}
  BY DEF Empty, Reach
<1>6. \A t \in Threads : /\ SizesAgree(pc[t], job[t], held[t])
                         /\ FreedIsFree(pc[t], job[t], HandedOut(memoryBlocks))
  BY <1>1, <1>2, <1>3, <1>4 DEF SizesAgree, FreedIsFree
<1>7. \A t \in Threads, k \in Slots : Written(t, k) = {}
  BY <1>1, <1>2, <1>3, <1>5 DEF Written, WrittenIn
<1> QED  BY <1>6, <1>7, InitOwned DEF ContentInv

LEMMA StepWritten ==
  ASSUME ReallocMayFail = FALSE, ContentInv, NEW t \in Threads, Step(t)
  PROVE  StillWritten
<1>1. CASE CallAlloc(t) \/ CallFree(t) \/ CallResize(t)
  <2>1. \E k \in Slots, size \in Sizes \cup {0} :
          \/ Start(t, "mem_alloc", k, size, "alloc_lock")
          \/ Start(t, "mem_free", k, size, "free_lock")
          \/ Start(t, "mem_resize", k, size, "resize_lock")
    BY <1>1 DEF CallAlloc, CallFree, CallResize
  <2> QED  BY <2>1, Start_Written
<1>2. CASE fill(t)
  BY <1>2, fill_Written
<1>3. CASE Lock(t)
  BY <1>3, Lock_Written
<1>4. CASE alloc_body(t)
  BY <1>4, alloc_body_Written
<1>5. CASE alloc_undo(t)
  BY <1>5 DEF alloc_undo, ContentInv, OwnInv, IInv, JobFits
<1>6. CASE alloc_unlock(t)
  BY <1>6, alloc_unlock_Written
<1>7. CASE free_body(t)
  BY <1>7, free_body_Written
<1>8. CASE free_unlock(t)
  BY <1>8, free_unlock_Written
<1>9. CASE resize_body(t)
  BY <1>9, resize_body_Written
<1>10. CASE resize_move(t)
  BY <1>10, resize_move_Written
<1>11. CASE resize_unlock(t)
  BY <1>11, resize_unlock_Written
<1> QED
  BY <1>1, <1>2, <1>3, <1>4, <1>5, <1>6, <1>7, <1>8, <1>9, <1>10, <1>11 DEF Step

(* What sanityCheck of the tests looks for: a thread finds in its blocks    *)
(* what it wrote, after memmove too.  mem_resize frees the block it is about *)
(* to read from, so the argument needs more than the owners: until memmove   *)
(* the freed bytes are in nobody's block but the caller's new one.           *)
THEOREM BytesSurvive ==
  ASSUME ReallocMayFail = FALSE, 0 \notin Sizes
  PROVE  Spec => []ContentIntact
<1>1. Init => ContentInv
  BY InitContent
<1>2. ContentInv /\ [Next]_vars => ContentInv'
  <2> SUFFICES ASSUME ContentInv, [Next]_vars PROVE ContentInv'
    OBVIOUS
  <2>1. CASE Next
    <3> PICK t \in Threads : Step(t)
      BY <2>1 DEF Next
    <3>1. IInv'
      BY StepSound DEF ContentInv, OwnInv
    <3>2. StillOwned
      BY StepOwned DEF ContentInv
    <3>3. OwnInv'
      BY <3>1, <3>2 DEF OwnInv, StillOwned, Knows
    <3>4. StillWritten
      BY StepWritten
    <3> QED  BY <3>3, <3>4 DEF ContentInv, StillWritten, Written
  <2>2. CASE UNCHANGED vars
    <3>1. UNCHANGED <<memoryBlocks, pc, job, held, bytes>>
      BY <2>2 DEF vars
    <3>2. IInv'
      BY <2>2 DEF vars, ContentInv, OwnInv, IInv, TypeOK, JobFits, CopyFits, ReadsInPool,
                  LockCountsNesting, Nesting
    <3>3. Claims' = Claims
      BY <3>1 DEF Claims
    <3>4. OwnInv'
      BY <3>1, <3>2, <3>3 DEF ContentInv, OwnInv, Knows
    <3> QED  BY <3>1, <3>4 DEF ContentInv, Written
  <2> QED  BY <2>1, <2>2
<1>3. ContentInv => ContentIntact
  BY DEF ContentInv, ContentIntact, Written, WrittenIn
<1> QED  BY <1>1, <1>2, <1>3, PTL DEF Spec


-----------------------------------------------------------------------------
(* All operations are atomic.  Each call is followed from the moment it      *)
(* takes the lock: what it has done so far is said in terms of the array     *)
(* "bs" it found then, which is "settled", and of the one there is "now".    *)

(* What mem_alloc, called on the array bs, leaves behind and answers. *)
Given(bs, size, now, ret) ==
  \/ size = 0 /\ now = bs /\ ret = 0
  \/ size > 0 /\ FirstFit(bs, size) = {} /\ now = bs /\ ret = NULL
  \/ /\ size > 0
     /\ \E i \in FirstFit(bs, size) : now = Carve(bs, i, size) /\ ret = bs[i].startAdress

(* mem_resize has given back a block that stays, or never found it. *)
InPlace(j, bs, now) ==
  \/ LastAt(bs, j.was.ptr) = {} /\ now = bs /\ j.ret = NULL
  \/ \E i \in LastAt(bs, j.was.ptr) :
        /\ j.ret = j.was.ptr
        /\ \/ bs[i].size = j.size /\ now = bs
           \/ /\ bs[i].size < j.size /\ CanGrowRight(bs, i, j.size)
              /\ now = GrowRight(bs, i, j.size)

(* It has chosen one of the ways that need a new block. *)
Chosen(j, bs) ==
  \E i \in LastAt(bs, j.was.ptr) :
     /\ j.old = bs[i].size
     /\ \/ j.way = "shrinking" /\ j.size < j.old
        \/ /\ j.way = "growing" /\ j.size <= Available(bs, i)
           /\ j.old < j.size /\ ~CanGrowRight(bs, i, j.size)
        \/ /\ j.way = "elsewhere" /\ Available(bs, i) < j.size
           /\ j.old < j.size /\ ~CanGrowRight(bs, i, j.size)

(* How far it has come with a way that frees the old block first ... *)
FreesFirst(label, j, bs, now) ==
  /\ label \in {"free_lock", "free_body"} => now = bs
  /\ label \in {"free_unlock", "alloc_lock", "alloc_body"} => now = AfterFree(bs, j.was.ptr)
  /\ label \in {"alloc_unlock", "resize_move", "resize_unlock"} =>
        Given(AfterFree(bs, j.was.ptr), j.size, now, j.ret)
  /\ label = "resize_unlock" => j.ret # NULL
  /\ j.moved = IF label = "resize_unlock" /\ j.ret # j.was.ptr THEN Copied(j) ELSE 0

(* ... and with the one that frees it last. *)
FreesLast(label, j, bs, now) ==
  /\ label \in {"alloc_lock", "alloc_body"} => now = bs
  /\ label \in {"alloc_unlock", "resize_move", "free_lock", "free_body"} =>
        Given(bs, j.size, now, j.ret)
  /\ label \in {"free_lock", "free_body", "free_unlock"} => j.ret # NULL
  /\ label = "free_unlock" \/ (label = "resize_unlock" /\ j.ret # NULL) =>
        \E got : Given(bs, j.size, got, j.ret) /\ now = AfterFree(got, j.was.ptr)
  /\ label = "resize_unlock" /\ j.ret = NULL => Given(bs, j.size, now, j.ret)
  /\ j.moved = IF label \in InFree \/ (label = "resize_unlock" /\ j.ret # NULL)
               THEN j.old ELSE 0

(* What a call has done to the array so far, since it took the lock. *)
SoFar(label, j, bs, now) ==
  /\ label \in {"alloc_body", "free_body"} /\ j.op # "mem_resize" => now = bs
  /\ label = "resize_body" => now = bs
  /\ label = "alloc_unlock" /\ j.op = "mem_alloc" => Given(bs, j.size, now, j.ret)
  /\ label = "free_unlock" /\ j.op = "mem_free" => now = AfterFree(bs, j.was.ptr)
  /\ j.op = "mem_resize" /\ label # "resize_body" =>
        \/ j.way = "in place" /\ label = "resize_unlock" /\ InPlace(j, bs, now) /\ j.moved = 0
        \/ /\ j.way \in {"growing", "shrinking"} /\ Chosen(j, bs)
           /\ FreesFirst(label, j, bs, now)
        \/ j.way = "elsewhere" /\ Chosen(j, bs) /\ FreesLast(label, j, bs, now)

(* What a thread has called. *)
Asked(label, j) ==
  /\ j.was.ptr \in Offsets \cup {NULL}
  /\ j.op = "mem_alloc" => j.was.ptr = NULL /\ j.size \in Sizes /\ j.moved = 0
  /\ j.op = "mem_free" => j.size = 0 /\ j.ret = NULL /\ j.moved = 0
  /\ j.op = "mem_resize" => j.size \in Sizes
  /\ label \in {"resize_lock", "resize_body"} => j.moved = 0

AtomInv ==
  /\ WellFormed(settled, PoolSize)
  /\ owner = NULL => memoryBlocks = settled
  /\ owner # NULL => depth # 0
  /\ \A t \in Threads : owner = t => SoFar(pc[t], job[t], settled, memoryBlocks)
  /\ \A t \in Threads : Asked(pc[t], job[t])
  /\ \A t \in Threads, k \in Slots : held[t][k].ptr \in Offsets \cup {NULL}
  /\ ~crashed

-----------------------------------------------------------------------------
(* What mem_alloc gives. *)

LEMMA GivenInPool ==
  ASSUME NEW bs, WellFormed(bs, PoolSize), NEW size \in Nat, NEW now, NEW ret,
         Given(bs, size, now, ret)
  PROVE  WellFormed(now, PoolSize) /\ ret \in Offsets \cup {NULL}
<1>1. PoolSize \in Nat \ {0}
  BY PoolAssumption
<1>2. 0 \in Offsets
  BY <1>1 DEF Offsets
<1>3. CASE now = bs /\ (ret = 0 \/ ret = NULL)
  BY <1>2, <1>3
<1>4. ASSUME size > 0, NEW i \in FirstFit(bs, size), now = Carve(bs, i, size),
             ret = bs[i].startAdress
      PROVE  WellFormed(now, PoolSize) /\ ret \in Offsets
  <2>1. size \in Nat \ {0} /\ PoolSize \in Nat
    BY <1>1, <1>4
  <2>2. WellFormed(now, PoolSize)
    BY ONLY <1>4, <2>1, WellFormed(bs, PoolSize), CarveWellFormed
  <2>3. i \in DOMAIN bs /\ size <= bs[i].size
    BY DEF FirstFit, Fits
  <2>4. /\ bs[i].startAdress \in Nat /\ bs[i].size \in Nat
        /\ bs[i].startAdress + bs[i].size <= PoolSize
    BY <2>1, <2>3, BlockInPool DEF WellFormed
  <2> QED  BY <1>4, <2>1, <2>2, <2>3, <2>4 DEF Offsets
<1> QED  BY <1>3, <1>4 DEF Given

(* "We know that the mem_alloc will work" (mem_resize). *)
LEMMA BlockGotBack ==
  ASSUME NEW bs, WellFormed(bs, PoolSize), NEW j \in JobType, Chosen(j, bs),
         j.way \in {"growing", "shrinking"}, NEW now, NEW ret,
         Given(AfterFree(bs, j.was.ptr), j.size, now, ret)
  PROVE  ret # NULL
<1> PICK p : p = j.was.ptr
  OBVIOUS
<1> PICK size : size = j.size
  OBVIOUS
<1>1. PoolSize \in Nat /\ size \in Nat
  BY PoolAssumption DEF JobType
<1>2. PICK i \in LastAt(bs, p) :
        \/ j.way = "shrinking" /\ size < bs[i].size
        \/ j.way = "growing" /\ size <= Available(bs, i)
  BY DEF Chosen
<1>3. i \in DOMAIN bs /\ p = bs[i].startAdress
  BY DEF LastAt
<1>4. bs[i].size <= Available(bs, i) /\ Available(bs, i) \in Nat /\ bs[i].size \in Nat
  <2>1. bs \in Seq(BlockType)
    BY DEF WellFormed, Layout
  <2> QED  BY <1>1, <1>3, <2>1, AvailableCounts, BlocksTyped
<1>5. size <= Available(bs, i)
  <2>1. size < bs[i].size \/ size <= Available(bs, i)
    BY <1>2
  <2> QED  BY ONLY <1>1, <1>4, <2>1
<1>6. size > 0 => FirstFit(AfterFree(bs, p), size) # {}
  <2> SUFFICES ASSUME size > 0 PROVE FirstFit(AfterFree(bs, p), size) # {}
    OBVIOUS
  <2>1. size \in Nat \ {0} /\ WellFormed(bs, PoolSize)
    BY <1>1
  <2> QED  BY ONLY <1>1, <1>3, <1>5, <2>1, FreedRoomIsFound
<1>7. \A k \in FirstFit(AfterFree(bs, p), size) : AfterFree(bs, p)[k].startAdress \in Nat
  <2> PICK freed : freed = AfterFree(bs, p)
    OBVIOUS
  <2>1. WellFormed(freed, PoolSize)
    BY <1>1, AfterFreeWellFormed
  <2>2. freed \in Seq(BlockType)
    BY <2>1 DEF WellFormed, Layout
  <2> QED  BY <2>2, BlocksTyped DEF FirstFit
<1>8. NULL \notin Nat /\ NULL # 0
  BY NullAssumption
<1> QED  BY <1>6, <1>7, <1>8 DEF Given

(* A larger block is another block. *)
LEMMA ElsewhereIsAway ==
  ASSUME NEW bs, WellFormed(bs, PoolSize), NEW j \in JobType, Chosen(j, bs),
         j.way = "elsewhere", NEW now, NEW ret, Given(bs, j.size, now, ret)
  PROVE  ret # j.was.ptr
<1> PICK p : p = j.was.ptr
  OBVIOUS
<1> PICK size : size = j.size
  OBVIOUS
<1>1. PoolSize \in Nat /\ size \in Nat /\ bs \in Seq(BlockType)
  BY PoolAssumption DEF JobType, WellFormed, Layout
<1>2. PICK i \in LastAt(bs, p) : bs[i].size < size
  BY DEF Chosen
<1>3. i \in DOMAIN bs /\ p = bs[i].startAdress
  BY DEF LastAt
<1>4. p \in Nat /\ bs[i].size \in Nat /\ size # 0
  <2>1. bs[i].startAdress \in Nat /\ bs[i].size \in Nat
    BY <1>1, <1>3, BlocksTyped
  <2>2. size # 0
    BY ONLY <1>1, <1>2, <2>1
  <2> QED  BY <1>3, <2>1, <2>2
<1>5. p # NULL
  BY <1>4, NullAssumption
<1>6. ASSUME NEW k \in FirstFit(bs, size) PROVE bs[k].startAdress # p
  <2>1. k \in DOMAIN bs /\ size <= bs[k].size
    BY DEF FirstFit, Fits
  <2>2. bs[k].size \in Nat
    BY <1>1, <2>1, BlocksTyped
  <2>3. k # i
    BY <1>1, <1>2, <1>4, <2>1, <2>2
  <2> QED  BY <1>1, <1>3, <2>1, <2>3, OneBlockPerAddress
<1> QED  BY <1>4, <1>5, <1>6 DEF Given

-----------------------------------------------------------------------------
(* How a call goes on. *)

(* A job that differs from j in what has been answered or copied only. *)
SameCall(j, k) ==
  k.op = j.op /\ k.was = j.was /\ k.size = j.size /\ k.way = j.way /\ k.old = j.old

LEMMA SameCallChosen ==
  ASSUME NEW j, NEW k, SameCall(j, k), NEW bs
  PROVE  Chosen(j, bs) <=> Chosen(k, bs)
BY DEF SameCall, Chosen

(* The lock. *)
LEMMA SoFarLocked ==
  ASSUME NEW j, NEW bs, NEW now,
         NEW from \in {"alloc_lock", "free_lock"}, j.op = "mem_resize",
         SoFar(from, j, bs, now),
         NEW label, label = IF from = "alloc_lock" THEN "alloc_body" ELSE "free_body"
  PROVE  SoFar(label, j, bs, now)
<1>1. CASE from = "alloc_lock"
  BY <1>1 DEF SoFar, FreesFirst, FreesLast, InFree
<1>2. CASE from = "free_lock"
  BY <1>2 DEF SoFar, FreesFirst, FreesLast, InFree
<1> QED  BY <1>1, <1>2

(* mem_alloc. *)
LEMMA SoFarAnswered ==
  ASSUME NEW j, NEW k, SameCall(j, k), k.moved = j.moved, NEW bs, NEW now, NEW then,
         j.op \in {"mem_alloc", "mem_resize"},
         SoFar("alloc_body", j, bs, now), Given(now, j.size, then, k.ret)
  PROVE  SoFar("alloc_unlock", k, bs, then)
<1>1. CASE j.op = "mem_alloc"
  BY <1>1 DEF SoFar, SameCall
<1>2. CASE j.op = "mem_resize"
  <2>1. CASE j.way \in {"growing", "shrinking"} /\ Chosen(j, bs) /\ FreesFirst("alloc_body", j, bs, now)
    <3>1. FreesFirst("alloc_unlock", k, bs, then)
      BY <2>1 DEF FreesFirst, SameCall
    <3> QED  BY <1>2, <2>1, <3>1, SameCallChosen DEF SoFar, SameCall
  <2>2. CASE j.way = "elsewhere" /\ Chosen(j, bs) /\ FreesLast("alloc_body", j, bs, now)
    <3>1. FreesLast("alloc_unlock", k, bs, then)
      BY <2>2 DEF FreesLast, SameCall, InFree
    <3> QED  BY <1>2, <2>2, <3>1, SameCallChosen DEF SoFar, SameCall
  <2> QED  BY <1>2, <2>1, <2>2 DEF SoFar
<1> QED  BY <1>1, <1>2

LEMMA SoFarAllocated ==
  ASSUME NEW j, j.op = "mem_resize", NEW bs, NEW now, SoFar("alloc_unlock", j, bs, now)
  PROVE  SoFar("resize_move", j, bs, now)
BY DEF SoFar, FreesFirst, FreesLast, InFree

(* mem_free. *)
LEMMA SoFarFreed ==
  ASSUME NEW j, j.op \in {"mem_free", "mem_resize"}, NEW bs, NEW now,
         SoFar("free_body", j, bs, now)
  PROVE  SoFar("free_unlock", j, bs, AfterFree(now, j.was.ptr))
<1>1. CASE j.op = "mem_free"
  BY <1>1 DEF SoFar
<1>2. CASE j.op = "mem_resize"
  <2>1. CASE j.way \in {"growing", "shrinking"} /\ Chosen(j, bs) /\ FreesFirst("free_body", j, bs, now)
    <3>1. FreesFirst("free_unlock", j, bs, AfterFree(now, j.was.ptr))
      BY <2>1 DEF FreesFirst
    <3> QED  BY <1>2, <2>1, <3>1 DEF SoFar
  <2>2. CASE j.way = "elsewhere" /\ Chosen(j, bs) /\ FreesLast("free_body", j, bs, now)
    <3>1. FreesLast("free_unlock", j, bs, AfterFree(now, j.was.ptr))
      BY <2>2 DEF FreesLast, InFree
    <3> QED  BY <1>2, <2>2, <3>1 DEF SoFar
  <2> QED  BY <1>2, <2>1, <2>2 DEF SoFar
<1> QED  BY <1>1, <1>2

LEMMA SoFarGivenBack ==
  ASSUME NEW j, j.op = "mem_resize", NEW bs, NEW now, SoFar("free_unlock", j, bs, now),
         NEW label, label = IF j.way = "elsewhere" THEN "resize_unlock" ELSE "alloc_lock"
  PROVE  SoFar(label, j, bs, now)
<1>1. CASE j.way = "elsewhere"
  BY <1>1 DEF SoFar, FreesLast, InFree
<1>2. CASE j.way # "elsewhere"
  BY <1>2 DEF SoFar, FreesFirst
<1> QED  BY <1>1, <1>2

(* mem_resize. *)
LEMMA SoFarMoved ==
  ASSUME NEW bs, WellFormed(bs, PoolSize), NEW j \in JobType, j.op = "mem_resize", NEW now,
         SoFar("resize_move", j, bs, now)
  PROVE  /\ j.ret = NULL => j.way = "elsewhere" /\ SoFar("resize_unlock", j, bs, now)
         /\ j.ret = j.was.ptr /\ j.ret # NULL => SoFar("resize_unlock", j, bs, now)
         /\ j.ret \notin {NULL, j.was.ptr} =>
               \A k : SameCall(j, k) /\ k.ret = j.ret /\ k.moved = Copied(j) =>
                         SoFar(AfterCopying(j), k, bs, now)
<1>1. CASE j.way \in {"growing", "shrinking"} /\ Chosen(j, bs) /\ FreesFirst("resize_move", j, bs, now)
  <2>1. Given(AfterFree(bs, j.was.ptr), j.size, now, j.ret) /\ j.moved = 0
    BY <1>1 DEF FreesFirst
  <2>2. j.ret # NULL
    BY <1>1, <2>1, BlockGotBack
  <2>3. ASSUME j.ret = j.was.ptr PROVE SoFar("resize_unlock", j, bs, now)
    <3>1. FreesFirst("resize_unlock", j, bs, now)
      BY <2>1, <2>2, <2>3 DEF FreesFirst
    <3> QED  BY <1>1, <3>1 DEF SoFar
  <2>4. ASSUME j.ret # j.was.ptr, NEW k, SameCall(j, k), k.ret = j.ret, k.moved = Copied(j)
        PROVE  SoFar(AfterCopying(j), k, bs, now)
    <3>1. AfterCopying(j) = "resize_unlock"
      BY <1>1 DEF AfterCopying
    <3>2. Copied(k) = Copied(j)
      BY <2>4 DEF SameCall, Copied
    <3>3. FreesFirst("resize_unlock", k, bs, now)
      BY <2>1, <2>2, <2>4, <3>2 DEF FreesFirst, SameCall
    <3>4. Chosen(k, bs) /\ k.way \in {"growing", "shrinking"} /\ k.op = "mem_resize"
      BY <1>1, <2>4, SameCallChosen DEF SameCall
    <3>5. SoFar("resize_unlock", k, bs, now)
      BY <3>3, <3>4 DEF SoFar
    <3> QED  BY <3>1, <3>5
  <2> QED  BY <2>2, <2>3, <2>4
<1>2. CASE j.way = "elsewhere" /\ Chosen(j, bs) /\ FreesLast("resize_move", j, bs, now)
  <2>1. Given(bs, j.size, now, j.ret) /\ j.moved = 0
    BY <1>2 DEF FreesLast, InFree
  <2>2. j.ret # j.was.ptr
    BY <1>2, <2>1, ElsewhereIsAway
  <2>3. ASSUME j.ret = NULL PROVE SoFar("resize_unlock", j, bs, now)
    <3>1. FreesLast("resize_unlock", j, bs, now)
      BY <2>1, <2>3 DEF FreesLast, InFree
    <3> QED  BY <1>2, <3>1 DEF SoFar
  <2>4. ASSUME j.ret # NULL, NEW k, SameCall(j, k), k.ret = j.ret, k.moved = Copied(j)
        PROVE  SoFar(AfterCopying(j), k, bs, now)
    <3>1. AfterCopying(j) = "free_lock"
      BY <1>2 DEF AfterCopying
    <3>2. k.moved = k.old
      BY <1>2, <2>4 DEF SameCall, Copied
    <3>3. FreesLast("free_lock", k, bs, now)
      BY <2>1, <2>4, <3>2 DEF FreesLast, SameCall, InFree
    <3>4. Chosen(k, bs) /\ k.way = "elsewhere" /\ k.op = "mem_resize"
      BY <1>2, <2>4, SameCallChosen DEF SameCall
    <3>5. SoFar("free_lock", k, bs, now)
      BY <3>3, <3>4 DEF SoFar
    <3> QED  BY <3>1, <3>5
  <2> QED  BY <1>2, <2>2, <2>3, <2>4
<1> QED  BY <1>1, <1>2 DEF SoFar

-----------------------------------------------------------------------------
(* A step of one thread. *)

LEMMA AtomStep ==
  ASSUME TypeOK, AtomInv, NEW t \in Threads,
         NEW label, pc' = [pc EXCEPT ![t] = label],
         NEW j, job' = [job EXCEPT ![t] = j],
         WellFormed(settled', PoolSize),
         owner' = NULL => memoryBlocks' = settled',
         owner' # NULL => depth' # 0,
         owner' = t => SoFar(label, j, settled', memoryBlocks'),
         \A u \in Threads \ {t} :
            owner' = u => owner = u /\ UNCHANGED <<settled, memoryBlocks>>,
         Asked(label, j),
         \A u \in Threads, k \in Slots : held'[u][k].ptr \in Offsets \cup {NULL},
         UNCHANGED crashed
  PROVE  AtomInv'
<1>1. pc'[t] = label /\ job'[t] = j
  BY DEF TypeOK
<1>2. \A u \in Threads \ {t} : pc'[u] = pc[u] /\ job'[u] = job[u]
  BY DEF TypeOK
<1>3. ASSUME NEW u \in Threads, owner' = u
      PROVE  SoFar(pc'[u], job'[u], settled', memoryBlocks')
  <2>1. CASE u = t
    BY <1>1, <1>3, <2>1
  <2>2. CASE u # t
    <3>1. SoFar(pc[u], job[u], settled, memoryBlocks) /\ UNCHANGED <<settled, memoryBlocks>>
      BY <1>3, <2>2 DEF AtomInv
    <3> QED  BY <1>2, <2>2, <3>1
  <2> QED  BY <2>1, <2>2
<1>4. \A u \in Threads : Asked(pc'[u], job'[u])
  BY <1>1, <1>2 DEF AtomInv
<1>5. ~crashed'
  BY DEF AtomInv
<1> QED  BY <1>3, <1>4, <1>5 DEF AtomInv

(* What is to be shown of each step: the invariant stays, and unless a call *)
(* has become complete, nothing has happened for the others.                *)
NothingHappens == UNCHANGED <<settled, done, crashed>>

LEMMA Start_Atomic ==
  ASSUME IInv, AtomInv, NEW t \in Threads, CallAlloc(t) \/ CallFree(t) \/ CallResize(t)
  PROVE  AtomInv' /\ NothingHappens
<1>1. TypeOK /\ LockCountsNesting /\ JobFits(t)
  BY DEF IInv
<1>2. PICK op \in {"mem_alloc", "mem_free", "mem_resize"}, k \in Slots, size \in Sizes \cup {0}, label \in Labels :
        /\ Start(t, op, k, size, label)
        /\ label = IF op = "mem_alloc" THEN "alloc_lock"
                   ELSE IF op = "mem_free" THEN "free_lock" ELSE "resize_lock"
        /\ op = "mem_alloc" => held[t][k] = Empty
        /\ IF op = "mem_free" THEN size = 0 ELSE size \in Sizes
  BY DEF CallAlloc, CallFree, CallResize, Labels
<1> PICK j : j = Job(op, k, held[t][k], size)
  OBVIOUS
<1>3. /\ pc[t] = "idle" /\ pc' = [pc EXCEPT ![t] = label] /\ job' = [job EXCEPT ![t] = j]
      /\ held' = [held EXCEPT ![t][k] = Empty]
      /\ UNCHANGED <<memoryBlocks, owner, depth, bytes, crashed, settled, done>>
  BY <1>2 DEF Start, Goto
<1>4. Nesting(t) = 0
  BY <1>1, <1>3 DEF Nesting, JobFits
<1>5. owner # t
  BY <1>1, <1>4, NullAssumption DEF LockCountsNesting, AtomInv
<1>6. /\ j.op = op /\ j.was = held[t][k] /\ j.size = size /\ j.ret = NULL /\ j.moved = 0
  BY DEF Job
<1>7. Empty.ptr = NULL
  BY DEF Empty
<1>8. held[t][k].ptr \in Offsets \cup {NULL}
  BY DEF AtomInv
<1>9. Asked(label, j)
  BY <1>2, <1>6, <1>7, <1>8 DEF Asked
<1>10. \A u \in Threads, i \in Slots : held'[u][i].ptr \in Offsets \cup {NULL}
  <2> SUFFICES ASSUME NEW u \in Threads, NEW i \in Slots
               PROVE  held'[u][i].ptr \in Offsets \cup {NULL}
    OBVIOUS
  <2>1. held'[u][i] \in {Empty, held[u][i]}
    BY <1>1, <1>3 DEF TypeOK
  <2> QED  BY <1>7, <2>1 DEF AtomInv
<1>11. /\ WellFormed(settled', PoolSize) /\ (owner' = NULL => memoryBlocks' = settled')
       /\ (owner' # NULL => depth' # 0) /\ owner' # t
       /\ \A u \in Threads \ {t} : owner' = u => owner = u /\ UNCHANGED <<settled, memoryBlocks>>
  BY <1>3, <1>5 DEF AtomInv
<1>12. UNCHANGED crashed /\ NothingHappens
  BY <1>3 DEF NothingHappens
<1> QED  BY ONLY <1>1, <1>3, <1>9, <1>10, <1>11, <1>12, AtomInv, t \in Threads, AtomStep

LEMMA fill_Atomic ==
  ASSUME IInv, AtomInv, NEW t \in Threads, fill(t)
  PROVE  AtomInv' /\ NothingHappens
<1>1. TypeOK /\ LockCountsNesting /\ JobFits(t)
  BY DEF IInv
<1> PICK k : k = job[t].slot
  OBVIOUS
<1>2. /\ pc[t] = "fill" /\ pc' = [pc EXCEPT ![t] = "idle"] /\ job' = [job EXCEPT ![t] = NoJob]
      /\ held' = [held EXCEPT ![t][k].filled = held[t][k].size]
      /\ UNCHANGED <<memoryBlocks, owner, depth, crashed, settled, done>>
  BY DEF fill, Goto
<1>3. k \in Slots
  BY <1>1, <1>2 DEF JobFits
<1>4. Nesting(t) = 0
  BY <1>1, <1>2 DEF Nesting, JobFits
<1>5. owner # t
  BY <1>1, <1>4, NullAssumption DEF LockCountsNesting, AtomInv
<1>6. Asked("idle", NoJob)
  BY DEF Asked, NoJob, Job, Empty
<1>7. \A u \in Threads, i \in Slots : held'[u][i].ptr \in Offsets \cup {NULL}
  <2> SUFFICES ASSUME NEW u \in Threads, NEW i \in Slots
               PROVE  held'[u][i].ptr \in Offsets \cup {NULL}
    OBVIOUS
  <2>1. held'[u][i].ptr = held[u][i].ptr
    BY <1>1, <1>2 DEF TypeOK, SlotType
  <2> QED  BY <2>1 DEF AtomInv
<1>8. /\ WellFormed(settled', PoolSize) /\ (owner' = NULL => memoryBlocks' = settled')
      /\ (owner' # NULL => depth' # 0) /\ owner' # t
      /\ \A u \in Threads \ {t} : owner' = u => owner = u /\ UNCHANGED <<settled, memoryBlocks>>
  BY <1>2, <1>5 DEF AtomInv
<1>9. UNCHANGED crashed /\ NothingHappens
  BY <1>2 DEF NothingHappens
<1> QED  BY ONLY <1>1, <1>2, <1>6, <1>7, <1>8, <1>9, AtomInv, t \in Threads, AtomStep

(* A step with the lock taken. *)
LEMMA InsideStep ==
  ASSUME TypeOK, AtomInv, NEW t \in Threads, owner = t,
         NEW label, pc' = [pc EXCEPT ![t] = label],
         NEW j, job' = [job EXCEPT ![t] = j],
         owner' = t, depth' # 0, UNCHANGED <<settled, held, crashed>>,
         SoFar(label, j, settled, memoryBlocks'), Asked(label, j)
  PROVE  AtomInv'
<1>1. /\ WellFormed(settled', PoolSize) /\ owner' = t /\ owner' # NULL /\ depth' # 0
      /\ SoFar(label, j, settled', memoryBlocks')
      /\ \A u \in Threads, k \in Slots : held'[u][k].ptr \in Offsets \cup {NULL}
  BY NullAssumption DEF AtomInv
<1> QED  BY <1>1, AtomStep

LEMMA Lock_Atomic ==
  ASSUME IInv, AtomInv, NEW t \in Threads, Lock(t)
  PROVE  AtomInv' /\ NothingHappens
<1> PICK L, j, label : L = pc[t] /\ j = job[t] /\ label = Acquire[L]
  OBVIOUS
<1>1. TypeOK /\ JobFits(t) /\ LockCountsNesting /\ Asked(L, j)
  BY DEF IInv, AtomInv
<1>2. /\ L \in {"alloc_lock", "free_lock", "resize_lock"}
      /\ label = IF L = "alloc_lock" THEN "alloc_body"
                 ELSE IF L = "free_lock" THEN "free_body" ELSE "resize_body"
  BY DEF Lock, Acquire
<1>3. /\ pc' = [pc EXCEPT ![t] = label] /\ owner \in {t, NULL} /\ owner' = t /\ depth' = depth + 1
      /\ UNCHANGED <<memoryBlocks, job, held, crashed, settled, done>>
  BY DEF Lock, Goto
<1>4. job' = [job EXCEPT ![t] = j]
  BY <1>1, <1>3, JobUnchanged
<1>5. Asked(label, j)
  BY <1>1, <1>2 DEF Asked
<1>6. SoFar(label, j, settled, memoryBlocks)
  <2>1. CASE owner = t
    <3>1. Nesting(t) # 0
      <4>1. owner # NULL
        BY <2>1, NullAssumption
      <4>2. depth # 0
        BY <4>1 DEF AtomInv
      <4> QED  BY <1>1, <2>1, <4>2 DEF LockCountsNesting
    <3>2. j.op = "mem_resize" /\ L # "resize_lock"
      BY <1>2, <3>1 DEF Nesting
    <3>3. SoFar(L, j, settled, memoryBlocks)
      BY <2>1 DEF AtomInv
    <3> QED  BY <1>2, <3>2, <3>3, SoFarLocked
  <2>2. CASE owner = NULL
    <3>1. memoryBlocks = settled
      BY <2>2 DEF AtomInv
    <3>2. Nesting(t) = 0
      BY <1>1, <2>2, NullAssumption DEF LockCountsNesting
    <3>3. L = "resize_lock" \/ j.op # "mem_resize"
      BY <1>2, <3>2 DEF Nesting
    <3>4. j.op = "mem_resize" => label = "resize_body"
      BY <1>2, <3>3
    <3>5. label \notin {"alloc_unlock", "free_unlock"}
      BY <1>2
    <3> QED  BY <3>1, <3>4, <3>5 DEF SoFar
  <2> QED  BY <1>3, <2>1, <2>2
<1>7. depth' # 0
  <2>1. depth \in 0 .. 2
    BY <1>1 DEF TypeOK
  <2> QED  BY <1>3, <2>1
<1>8. /\ WellFormed(settled', PoolSize)
      /\ (owner' = NULL => memoryBlocks' = settled') /\ (owner' # NULL => depth' # 0)
      /\ (owner' = t => SoFar(label, j, settled', memoryBlocks'))
      /\ \A u \in Threads, k \in Slots : held'[u][k].ptr \in Offsets \cup {NULL}
      /\ UNCHANGED crashed /\ NothingHappens
  BY <1>3, <1>6, <1>7, NullAssumption DEF AtomInv, NothingHappens
<1>9. \A u \in Threads \ {t} : owner' = u => owner = u /\ UNCHANGED <<settled, memoryBlocks>>
  BY <1>3
<1> QED
  BY ONLY <1>1, <1>3, <1>4, <1>5, <1>8, <1>9, AtomInv, t \in Threads, AtomStep

LEMMA alloc_body_Atomic ==
  ASSUME IInv, AtomInv, ReallocMayFail = FALSE, NEW t \in Threads, alloc_body(t)
  PROVE  AtomInv' /\ NothingHappens
<1> PICK j, bs, size : j = job[t] /\ bs = memoryBlocks /\ size = job[t].size
  OBVIOUS
<1>1. TypeOK /\ JobFits(t) /\ LockCountsNesting /\ Asked(pc[t], j) /\ j \in JobType
  BY DEF IInv, AtomInv, TypeOK
<1>2. /\ pc[t] = "alloc_body" /\ UNCHANGED <<held, crashed, done>> /\ owner = t
  BY <1>1, BodyHasLock DEF alloc_body
<1>3. j.op \in {"mem_alloc", "mem_resize"}
  BY <1>1, <1>2 DEF JobFits, InAlloc
<1>4. SoFar("alloc_body", j, settled, bs)
  BY <1>2 DEF AtomInv
<1>5. PICK ret : /\ Answer(t, ret, "alloc_unlock") /\ Given(bs, size, memoryBlocks', ret)
                 /\ UNCHANGED <<owner, depth, settled>>
  BY ReallocMayFail = FALSE DEF alloc_body, Given
<1> PICK k : k = [j EXCEPT !.ret = ret]
  OBVIOUS
<1>6. pc' = [pc EXCEPT ![t] = "alloc_unlock"] /\ job' = [job EXCEPT ![t] = k]
  <2>1. pc' = [pc EXCEPT ![t] = "alloc_unlock"] /\ job' = [job EXCEPT ![t] = [job[t] EXCEPT !.ret = ret]]
    BY <1>5 DEF Answer, Goto
  <2> QED  BY <2>1
<1>7. SameCall(j, k) /\ k.ret = ret /\ k.moved = j.moved
  BY <1>1 DEF JobType, SameCall
<1>8. SoFar("alloc_unlock", k, settled, memoryBlocks')
  <2> PICK then : then = memoryBlocks'
    OBVIOUS
  <2>1. Given(bs, j.size, then, k.ret)
    BY <1>5, <1>7
  <2>2. SoFar("alloc_unlock", k, settled, then)
    BY ONLY <1>3, <1>4, <1>7, <2>1, SoFarAnswered
  <2> QED  BY <2>2
<1>9. Asked("alloc_unlock", k)
  BY <1>1, <1>3, <1>7 DEF Asked, SameCall
<1>10. owner' = t /\ depth' # 0
  <2>1. owner # NULL
    BY <1>2, NullAssumption
  <2> QED  BY <1>2, <1>5, <2>1 DEF AtomInv
<1>11. UNCHANGED <<settled, held, crashed>> /\ NothingHappens
  BY <1>2, <1>5 DEF NothingHappens
<1> QED
  BY ONLY <1>1, <1>2, <1>6, <1>8, <1>9, <1>10, <1>11, AtomInv, t \in Threads, InsideStep

LEMMA free_body_Atomic ==
  ASSUME IInv, AtomInv, NEW t \in Threads, free_body(t)
  PROVE  AtomInv' /\ NothingHappens
<1> PICK j, bs : j = job[t] /\ bs = memoryBlocks
  OBVIOUS
<1>1. TypeOK /\ JobFits(t) /\ LockCountsNesting /\ Asked(pc[t], j)
  BY DEF IInv, AtomInv
<1>2. /\ pc[t] = "free_body" /\ owner = t /\ pc' = [pc EXCEPT ![t] = "free_unlock"]
      /\ memoryBlocks' = AfterFree(bs, j.was.ptr)
      /\ UNCHANGED <<owner, depth, job, held, crashed, settled, done>>
  BY <1>1, BodyHasLock DEF free_body, Goto
<1>3. j.op \in {"mem_free", "mem_resize"}
  BY <1>1, <1>2 DEF JobFits, InFree
<1>4. SoFar("free_body", j, settled, bs)
  BY <1>2 DEF AtomInv
<1>5. job' = [job EXCEPT ![t] = j]
  BY <1>1, <1>2, JobUnchanged
<1>6. SoFar("free_unlock", j, settled, memoryBlocks')
  BY <1>2, <1>3, <1>4, SoFarFreed
<1>7. Asked("free_unlock", j)
  BY <1>1 DEF Asked
<1>8. owner' = t /\ depth' # 0
  <2>1. owner # NULL
    BY <1>2, NullAssumption
  <2> QED  BY <1>2, <2>1 DEF AtomInv
<1>9. UNCHANGED <<settled, held, crashed>> /\ NothingHappens
  BY <1>2 DEF NothingHappens
<1> QED
  BY ONLY <1>1, <1>2, <1>5, <1>6, <1>7, <1>8, <1>9, AtomInv, t \in Threads, InsideStep

LEMMA resize_move_Atomic ==
  ASSUME IInv, AtomInv, NEW t \in Threads, resize_move(t)
  PROVE  AtomInv' /\ NothingHappens
<1> PICK j, bs, p : j = job[t] /\ bs = memoryBlocks /\ p = job[t].was.ptr
  OBVIOUS
<1>1. TypeOK /\ JobFits(t) /\ LockCountsNesting /\ Asked(pc[t], j) /\ j \in JobType
  BY DEF IInv, AtomInv, TypeOK
<1>2. /\ pc[t] = "resize_move" /\ UNCHANGED <<memoryBlocks, owner, depth, held, settled, done>>
  BY DEF resize_move
<1>3. j.op = "mem_resize"
  BY <1>1, <1>2 DEF JobFits, InResize
<1>4. owner = t
  <2>1. Nesting(t) # 0
    BY <1>2, <1>3 DEF Nesting
  <2> QED  BY <1>1, <2>1 DEF LockCountsNesting
<1>5. SoFar("resize_move", j, settled, bs) /\ WellFormed(settled, PoolSize)
  BY <1>2, <1>4 DEF AtomInv
<1>6. /\ j.ret = NULL => j.way = "elsewhere" /\ SoFar("resize_unlock", j, settled, bs)
      /\ j.ret = p /\ j.ret # NULL => SoFar("resize_unlock", j, settled, bs)
      /\ j.ret \notin {NULL, p} =>
            \A k : SameCall(j, k) /\ k.ret = j.ret /\ k.moved = Copied(j) =>
                      SoFar(AfterCopying(j), k, settled, bs)
  BY <1>1, <1>3, <1>5, SoFarMoved
<1>7. owner' = t /\ depth' # 0
  <2>1. owner # NULL
    BY <1>4, NullAssumption
  <2> QED  BY <1>2, <1>4, <2>1 DEF AtomInv
<1>8. ASSUME NEW label, Goto(t, label), NEW k, job' = [job EXCEPT ![t] = k], UNCHANGED crashed,
             SoFar(label, k, settled, bs), SameCall(j, k), label \notin {"resize_lock", "resize_body"}
      PROVE  AtomInv' /\ NothingHappens
  <2>1. Asked(label, k)
    BY <1>1, <1>3, <1>8 DEF Asked, SameCall
  <2>2. UNCHANGED <<settled, held, crashed>> /\ NothingHappens /\ SoFar(label, k, settled, memoryBlocks')
        /\ pc' = [pc EXCEPT ![t] = label]
    BY <1>2, <1>8 DEF NothingHappens, Goto
  <2> QED
    BY ONLY <1>1, <1>4, <1>7, <1>8, <2>1, <2>2, AtomInv, t \in Threads, InsideStep
<1>9. CASE UNCHANGED <<job, crashed>> /\ Goto(t, "resize_unlock") /\ SoFar("resize_unlock", j, settled, bs)
  <2>1. job' = [job EXCEPT ![t] = j]
    BY <1>1, <1>9, JobUnchanged
  <2>2. SameCall(j, j)
    BY DEF SameCall
  <2> QED  BY <1>8, <1>9, <2>1, <2>2
<1>10. CASE /\ j.ret \notin {NULL, p} /\ job' = [job EXCEPT ![t].moved = Copied(j)]
            /\ Goto(t, AfterCopying(j)) /\ UNCHANGED crashed
  <2> PICK k : k = [j EXCEPT !.moved = Copied(j)]
    OBVIOUS
  <2>1. job' = [job EXCEPT ![t] = k]
    BY <1>10
  <2>2. SameCall(j, k) /\ k.ret = j.ret /\ k.moved = Copied(j)
    BY <1>1 DEF JobType, SameCall
  <2>3. SoFar(AfterCopying(j), k, settled, bs)
    BY <1>6, <1>10, <2>2
  <2>4. AfterCopying(j) \notin {"resize_lock", "resize_body"}
    BY DEF AfterCopying
  <2> QED  BY <1>8, <1>10, <2>1, <2>2, <2>3, <2>4
<1>11. \/ j.ret = NULL /\ Goto(t, "resize_unlock") /\ UNCHANGED <<job, crashed>>
       \/ j.ret = NULL /\ j.way # "elsewhere"
       \/ j.ret = p /\ Goto(t, "resize_unlock") /\ UNCHANGED <<job, crashed>>
       \/ /\ j.ret \notin {NULL, p} /\ job' = [job EXCEPT ![t].moved = Copied(j)]
          /\ Goto(t, AfterCopying(j)) /\ UNCHANGED crashed
  BY DEF resize_move
<1> QED  BY <1>6, <1>9, <1>10, <1>11

LEMMA resize_body_Atomic ==
  ASSUME IInv, AtomInv, NEW t \in Threads, resize_body(t)
  PROVE  AtomInv' /\ NothingHappens
<1> PICK j, bs, p, size : j = job[t] /\ bs = memoryBlocks /\ p = job[t].was.ptr /\ size = job[t].size
  OBVIOUS
<1> PICK now : now = memoryBlocks'
  OBVIOUS
<1>1. TypeOK /\ JobFits(t) /\ LockCountsNesting /\ Asked(pc[t], j) /\ j \in JobType
  BY DEF IInv, AtomInv, TypeOK
<1>2. /\ pc[t] = "resize_body" /\ UNCHANGED <<owner, depth, held, crashed, settled, done>>
  BY DEF resize_body
<1>3. j.op = "mem_resize" /\ owner = t
  BY <1>1, <1>2, BodyHasLock DEF JobFits, InResize
<1>4. settled = bs /\ j.moved = 0
  BY <1>1, <1>2, <1>3 DEF AtomInv, SoFar, Asked
<1>5. owner' = t /\ depth' # 0
  <2>1. owner # NULL
    BY <1>3, NullAssumption
  <2> QED  BY <1>2, <1>3, <2>1 DEF AtomInv
<1>6. ASSUME NEW way, NEW old, NEW ret, NEW label \in {"resize_unlock", "free_lock", "alloc_lock"},
             Take(t, way, old, ret, label),
             SoFar(label, [j EXCEPT !.way = way, !.old = old, !.ret = ret], bs, now)
      PROVE  AtomInv' /\ NothingHappens
  <2> PICK k : k = [j EXCEPT !.way = way, !.old = old, !.ret = ret]
    OBVIOUS
  <2>1. pc' = [pc EXCEPT ![t] = label] /\ job' = [job EXCEPT ![t] = k]
    BY <1>6 DEF Take, Goto
  <2>2. /\ k.op = j.op /\ k.was = j.was /\ k.size = j.size /\ k.moved = j.moved
        /\ k.way = way /\ k.ret = ret /\ k.old = old
    BY <1>1 DEF JobType
  <2>3. Asked(label, k)
    BY <1>1, <1>3, <1>4, <2>2 DEF Asked
  <2>4. SoFar(label, k, settled, memoryBlocks')
    BY <1>4, <1>6
  <2>5. UNCHANGED <<settled, held, crashed>> /\ NothingHappens
    BY <1>2 DEF NothingHappens
  <2> QED
    BY ONLY <1>1, <1>3, <1>5, <2>1, <2>3, <2>4, <2>5, AtomInv, t \in Threads, InsideStep
<1>7. CASE LastAt(bs, p) = {} /\ Take(t, "in place", 0, NULL, "resize_unlock") /\ now = bs
  <2>1. ASSUME NEW k, k.op = "mem_resize", k.was.ptr = p, k.moved = 0, k.way = "in place", k.ret = NULL
        PROVE  SoFar("resize_unlock", k, bs, now)
    BY <1>7, <2>1 DEF SoFar, InPlace
  <2> PICK k : k = [j EXCEPT !.way = "in place", !.old = 0, !.ret = NULL]
    OBVIOUS
  <2>2. /\ k.op = j.op /\ k.was = j.was /\ k.size = j.size /\ k.moved = j.moved
        /\ k.way = "in place" /\ k.ret = NULL /\ k.old = 0
    BY <1>1 DEF JobType
  <2>3. SoFar("resize_unlock", k, bs, now)
    BY <1>3, <1>4, <2>1, <2>2
  <2> QED  BY <1>6, <1>7, <2>3
<1>8. ASSUME NEW i \in LastAt(bs, p), Take(t, "in place", 0, p, "resize_unlock"),
             \/ bs[i].size = size /\ now = bs
             \/ /\ bs[i].size < size /\ CanGrowRight(bs, i, size)
                /\ now = GrowRight(bs, i, size)
      PROVE  AtomInv' /\ NothingHappens
  <2>1. ASSUME NEW k, k.op = "mem_resize", k.was.ptr = p, k.size = size, k.moved = 0,
               k.way = "in place", k.ret = p
        PROVE  SoFar("resize_unlock", k, bs, now)
    <3>1. InPlace(k, bs, now)
      BY <1>8, <2>1 DEF InPlace
    <3> QED  BY <2>1, <3>1 DEF SoFar
  <2> PICK k : k = [j EXCEPT !.way = "in place", !.old = 0, !.ret = p]
    OBVIOUS
  <2>2. /\ k.op = j.op /\ k.was = j.was /\ k.size = j.size /\ k.moved = j.moved
        /\ k.way = "in place" /\ k.ret = p /\ k.old = 0
    BY <1>1 DEF JobType
  <2>3. SoFar("resize_unlock", k, bs, now)
    BY <1>3, <1>4, <2>1, <2>2
  <2> QED  BY <1>6, <1>8, <2>3
<1>9. ASSUME NEW i \in LastAt(bs, p), NEW way \in {"growing", "shrinking"},
             Take(t, way, bs[i].size, NULL, "free_lock"), now = bs,
             \/ way = "shrinking" /\ size < bs[i].size
             \/ /\ way = "growing" /\ size <= Available(bs, i)
                /\ bs[i].size < size /\ ~CanGrowRight(bs, i, size)
      PROVE  AtomInv' /\ NothingHappens
  <2>1. ASSUME NEW k, k.op = "mem_resize", k.was.ptr = p, k.size = size, k.moved = 0,
               k.way = way, k.old = bs[i].size
        PROVE  SoFar("free_lock", k, bs, now)
    <3>1. Chosen(k, bs)
      BY <1>9, <2>1 DEF Chosen
    <3>2. FreesFirst("free_lock", k, bs, now)
      BY <1>9, <2>1 DEF FreesFirst
    <3> QED  BY <2>1, <3>1, <3>2 DEF SoFar
  <2> PICK k : k = [j EXCEPT !.way = way, !.old = bs[i].size, !.ret = NULL]
    OBVIOUS
  <2>2. /\ k.op = j.op /\ k.was = j.was /\ k.size = j.size /\ k.moved = j.moved
        /\ k.way = way /\ k.ret = NULL /\ k.old = bs[i].size
    BY <1>1 DEF JobType
  <2>3. SoFar("free_lock", k, bs, now)
    BY <1>3, <1>4, <2>1, <2>2
  <2> QED  BY <1>6, <1>9, <2>3
<1>10. ASSUME NEW i \in LastAt(bs, p), Take(t, "elsewhere", bs[i].size, NULL, "alloc_lock"),
              now = bs, Available(bs, i) < size, bs[i].size < size, ~CanGrowRight(bs, i, size)
       PROVE  AtomInv' /\ NothingHappens
  <2>1. ASSUME NEW k, k.op = "mem_resize", k.was.ptr = p, k.size = size, k.moved = 0,
               k.way = "elsewhere", k.old = bs[i].size
        PROVE  SoFar("alloc_lock", k, bs, now)
    <3>1. Chosen(k, bs)
      BY <1>10, <2>1 DEF Chosen
    <3>2. FreesLast("alloc_lock", k, bs, now)
      BY <1>10, <2>1 DEF FreesLast, InFree
    <3> QED  BY <2>1, <3>1, <3>2 DEF SoFar
  <2> PICK k : k = [j EXCEPT !.way = "elsewhere", !.old = bs[i].size, !.ret = NULL]
    OBVIOUS
  <2>2. /\ k.op = j.op /\ k.was = j.was /\ k.size = j.size /\ k.moved = j.moved
        /\ k.way = "elsewhere" /\ k.ret = NULL /\ k.old = bs[i].size
    BY <1>1 DEF JobType
  <2>3. SoFar("alloc_lock", k, bs, now)
    BY <1>3, <1>4, <2>1, <2>2
  <2> QED  BY <1>6, <1>10, <2>3
<1>11. \/ LastAt(bs, p) = {} /\ Take(t, "in place", 0, NULL, "resize_unlock") /\ now = bs
       \/ \E i \in LastAt(bs, p) :
             \/ bs[i].size = size /\ Take(t, "in place", 0, p, "resize_unlock") /\ now = bs
             \/ /\ bs[i].size < size /\ CanGrowRight(bs, i, size)
                /\ now = GrowRight(bs, i, size)
                /\ Take(t, "in place", 0, p, "resize_unlock")
             \/ /\ bs[i].size < size /\ ~CanGrowRight(bs, i, size) /\ size <= Available(bs, i)
                /\ Take(t, "growing", bs[i].size, NULL, "free_lock") /\ now = bs
             \/ /\ bs[i].size < size /\ ~CanGrowRight(bs, i, size) /\ Available(bs, i) < size
                /\ Take(t, "elsewhere", bs[i].size, NULL, "alloc_lock") /\ now = bs
             \/ size < bs[i].size /\ Take(t, "shrinking", bs[i].size, NULL, "free_lock") /\ now = bs
  BY DEF resize_body
<1> QED  BY <1>7, <1>8, <1>9, <1>10, <1>11

-----------------------------------------------------------------------------
(* The sequential manager makes the whole call at once, with the same       *)
(* operators.                                                               *)

LEMMA SameSearches ==
  ASSUME NEW bs, NEW p, NEW size
  PROVE  /\ Serial!FirstAt(bs, p) = FirstAt(bs, p)
         /\ Serial!LastAt(bs, p) = LastAt(bs, p)
         /\ Serial!FirstFit(bs, size) = FirstFit(bs, size)
BY DEF Serial!FirstAt, FirstAt, Serial!LastAt, LastAt, Serial!FirstFit, FirstFit, Serial!Fits, Fits

LEMMA SameUpdates ==
  ASSUME NEW bs, NEW i, NEW size
  PROVE  /\ Serial!Carve(bs, i, size) = Carve(bs, i, size)
         /\ Serial!Release(bs, i) = Release(bs, i)
         /\ Serial!CanGrowRight(bs, i, size) = CanGrowRight(bs, i, size)
         /\ Serial!GrowRight(bs, i, size) = GrowRight(bs, i, size)
         /\ Serial!Available(bs, i) = Available(bs, i)
<1>1. \A x, y, z : Serial!Block(x, y, z) = Block(x, y, z)
  BY DEF Serial!Block, Block
<1>2. \A x, y, z : Serial!InsertAt(x, y, z) = InsertAt(x, y, z)
  BY DEF Serial!InsertAt, InsertAt
<1>3. \A x, y : Serial!RemoveAt(x, y) = RemoveAt(x, y)
  BY DEF Serial!RemoveAt, RemoveAt
<1>4. \A x, y : Serial!FreeBefore(x, y) = FreeBefore(x, y) /\ Serial!FreeAfter(x, y) = FreeAfter(x, y)
  BY DEF Serial!FreeBefore, FreeBefore, Serial!FreeAfter, FreeAfter
<1>5. \A x, y : Serial!Absorb(x, y) = Absorb(x, y)
  BY <1>1, <1>3 DEF Serial!Absorb, Absorb
<1>6. \A x, y : Serial!JoinLeft(x, y) = JoinLeft(x, y) /\ Serial!JoinRight(x, y) = JoinRight(x, y)
  BY <1>4, <1>5 DEF Serial!JoinLeft, JoinLeft, Serial!JoinRight, JoinRight
<1>7. \A x, y : Serial!Unmark(x, y) = Unmark(x, y)
  BY <1>1 DEF Serial!Unmark, Unmark
<1>8. Serial!Carve(bs, i, size) = Carve(bs, i, size)
  BY <1>1, <1>2 DEF Serial!Carve, Carve
<1>9. Serial!Release(bs, i) = Release(bs, i)
  BY <1>4, <1>6, <1>7 DEF Serial!Release, Release
<1>10. Serial!CanGrowRight(bs, i, size) = CanGrowRight(bs, i, size)
  BY <1>4 DEF Serial!CanGrowRight, CanGrowRight
<1>11. Serial!GrowRight(bs, i, size) = GrowRight(bs, i, size)
  BY <1>1, <1>3 DEF Serial!GrowRight, GrowRight
<1>12. Serial!Available(bs, i) = Available(bs, i)
  BY <1>4 DEF Serial!Available, Available
<1> QED  BY <1>8, <1>9, <1>10, <1>11, <1>12

LEMMA SameFree ==
  ASSUME NEW bs, NEW p
  PROVE  Serial!AfterFree(bs, p) = AfterFree(bs, p)
<1>1. \A i : Serial!Release(bs, i) = Release(bs, i)
  BY SameUpdates
<1> QED  BY <1>1, SameSearches DEF Serial!AfterFree, AfterFree

(* The call that has been completed, and its effect on "settled". *)
Completed(op, p, size, ret, moved) ==
  done' = [op |-> op, ptr |-> p, size |-> size, ret |-> ret, moved |-> moved, heap |-> "granted"]

LEMMA GivenIsAllocated ==
  ASSUME NEW bs, NEW size \in Nat, NEW now, NEW ret, Given(bs, size, now, ret)
  PROVE  Serial!Outcome(now, ret, "granted") \in Serial!AllocOutcomes(bs, size)
<1>1. CASE size = 0
  BY <1>1 DEF Given, Serial!AllocOutcomes, Serial!Outcome
<1>2. CASE size > 0 /\ FirstFit(bs, size) = {} /\ now = bs /\ ret = NULL
  BY <1>2, SameSearches DEF Serial!AllocOutcomes, Serial!Outcome
<1>3. ASSUME size > 0, NEW i \in FirstFit(bs, size), now = Carve(bs, i, size), ret = bs[i].startAdress
      PROVE  Serial!Outcome(now, ret, "granted") \in Serial!AllocOutcomes(bs, size)
  <2>1. Serial!FirstFit(bs, size) = FirstFit(bs, size) /\ Serial!Carve(bs, i, size) = Carve(bs, i, size)
    BY SameSearches, SameUpdates
  <2>2. i \in Serial!FirstFit(bs, size) /\ size # 0 /\ now = Serial!Carve(bs, i, size)
    BY <1>3, <2>1
  <2> QED  BY <1>3, <2>2 DEF Serial!AllocOutcomes
<1> QED  BY <1>1, <1>2, <1>3 DEF Given

LEMMA SerialAlloc ==
  ASSUME NEW size \in Sizes, NEW ret, Given(settled, size, settled', ret),
         Completed("mem_alloc", NULL, size, ret, 0), ~crashed, UNCHANGED crashed
  PROVE  Serial!Next
<1> PICK now, bs : now = settled' /\ bs = settled
  OBVIOUS
<1> PICK out : out = Serial!Outcome(now, ret, "granted")
  OBVIOUS
<1>1. size \in Nat
  BY PoolAssumption
<1>2. out \in Serial!AllocOutcomes(bs, size)
  BY <1>1, GivenIsAllocated
<1>3. out.blocks = now /\ out.ptr = ret /\ out.heap = "granted"
  BY DEF Serial!Outcome
<1>4. Serial!mem_alloc(size)
  BY <1>2, <1>3 DEF Serial!mem_alloc, Serial!Did, Completed
<1> QED  BY <1>4 DEF Serial!Next

LEMMA SerialFree ==
  ASSUME NEW p \in Offsets \cup {NULL}, settled' = AfterFree(settled, p),
         Completed("mem_free", p, 0, NULL, 0), ~crashed, UNCHANGED crashed
  PROVE  Serial!Next
<1>1. Serial!mem_free(p)
  BY SameFree DEF Serial!mem_free, Serial!Did, Completed
<1> QED  BY <1>1 DEF Serial!Next

(* mem_resize, by the way it took. *)
LEMMA SerialResize ==
  ASSUME NEW p \in Offsets \cup {NULL}, NEW size \in Sizes,
         \/ Serial!ResizeUnknown(p, size)
         \/ \E i \in LastAt(settled, p) :
               \/ Serial!ResizeSame(i, p, size)
               \/ Serial!ResizeInPlace(i, p, size)
               \/ Serial!ResizeByFreeing(i, p, size)
               \/ Serial!ResizeElsewhere(i, p, size),
         ~crashed
  PROVE  Serial!Next
<1>1. Serial!LastAt(settled, p) = LastAt(settled, p)
  BY SameSearches
<1>2. Serial!mem_resize(p, size)
  BY <1>1 DEF Serial!mem_resize
<1> QED  BY <1>2 DEF Serial!Next

LEMMA SerialInPlace ==
  ASSUME NEW j, j.was.ptr \in Offsets \cup {NULL}, j.size \in Sizes, InPlace(j, settled, settled'),
         Completed("mem_resize", j.was.ptr, j.size, j.ret, 0), ~crashed, UNCHANGED crashed
  PROVE  Serial!Next
<1> PICK p, size, bs, now : p = j.was.ptr /\ size = j.size /\ bs = settled /\ now = settled'
  OBVIOUS
<1>1. CASE LastAt(bs, p) = {} /\ now = bs /\ j.ret = NULL
  <2>1. Serial!LastAt(settled, p) = {}
    BY <1>1, SameSearches
  <2>2. Serial!ResizeUnknown(p, size)
    BY <1>1, <2>1 DEF Serial!ResizeUnknown, Serial!Did, Completed
  <2> QED  BY <2>2, SerialResize
<1>2. ASSUME NEW i \in LastAt(bs, p), j.ret = p, bs[i].size = size, now = bs
      PROVE  Serial!Next
  <2>1. Serial!ResizeSame(i, p, size)
    BY <1>2 DEF Serial!ResizeSame, Serial!Did, Completed
  <2> QED  BY <2>1, SerialResize
<1>3. ASSUME NEW i \in LastAt(bs, p), j.ret = p, bs[i].size < size, CanGrowRight(bs, i, size),
             now = GrowRight(bs, i, size)
      PROVE  Serial!Next
  <2>1. Serial!CanGrowRight(bs, i, size) /\ now = Serial!GrowRight(bs, i, size)
    BY <1>3, SameUpdates
  <2>2. Serial!ResizeInPlace(i, p, size)
    BY <1>3, <2>1 DEF Serial!ResizeInPlace, Serial!Grows, Serial!Did, Completed
  <2> QED  BY <2>2, SerialResize
<1> QED  BY <1>1, <1>2, <1>3 DEF InPlace

LEMMA SerialByFreeing ==
  ASSUME NEW j, j.was.ptr \in Offsets \cup {NULL}, j.size \in Sizes, Chosen(j, settled),
         j.way \in {"growing", "shrinking"}, FreesFirst("resize_unlock", j, settled, settled'),
         settled \in Seq(BlockType),
         Completed("mem_resize", j.was.ptr, j.size, j.ret, j.moved), crashed = FALSE, UNCHANGED crashed
  PROVE  Serial!Next
<1> PICK p, size, bs, now, ret : p = j.was.ptr /\ size = j.size /\ bs = settled /\ now = settled' /\ ret = j.ret
  OBVIOUS
<1>1. size \in Nat
  BY PoolAssumption
<1>2. Given(AfterFree(bs, p), size, now, ret) /\ ret # NULL
      /\ j.moved = IF ret # p THEN Copied(j) ELSE 0
  BY DEF FreesFirst
<1> PICK out : out = Serial!Outcome(now, ret, "granted")
  OBVIOUS
<1>3. out \in Serial!AllocOutcomes(Serial!AfterFree(bs, p), size)
  BY <1>1, <1>2, GivenIsAllocated, SameFree
<1>4. out.blocks = now /\ out.ptr = ret /\ out.heap = "granted"
  BY DEF Serial!Outcome
<1>5. PICK i \in LastAt(bs, p) :
        /\ j.old = bs[i].size
        /\ \/ j.way = "shrinking" /\ size < j.old
           \/ j.way = "growing" /\ size <= Available(bs, i) /\ j.old < size /\ ~CanGrowRight(bs, i, size)
  BY DEF Chosen
<1>6. i \in DOMAIN bs /\ bs[i].size \in Nat
  <2>1. i \in DOMAIN bs
    BY DEF LastAt
  <2> QED  BY <2>1, BlocksTyped
<1>7. /\ \/ /\ Serial!Grows(i, size)
            /\ ~Serial!CanGrowRight(bs, i, size)
            /\ size <= Serial!Available(bs, i)
         \/ Serial!Shrinks(i, size)
      /\ j.way = "shrinking" <=> Serial!Shrinks(i, size)
  <2>1. Serial!Grows(i, size) = (bs[i].size < size) /\ Serial!Shrinks(i, size) = (size < bs[i].size)
    BY DEF Serial!Grows, Serial!Shrinks
  <2>2. CASE j.way = "shrinking"
    BY <1>5, <2>1, <2>2
  <2>3. CASE j.way = "growing"
    <3>1. bs[i].size < size /\ size <= Available(bs, i) /\ ~CanGrowRight(bs, i, size)
      BY <1>5, <2>3
    <3>2. ~(size < bs[i].size)
      BY ONLY <1>1, <1>6, <3>1
    <3> QED  BY <2>1, <2>3, <3>1, <3>2, SameUpdates
  <2> QED  BY <2>2, <2>3
<1>8. Copied(j) = IF Serial!Shrinks(i, size) THEN size ELSE bs[i].size
  BY <1>5, <1>7 DEF Copied
<1>9. Serial!ResizeByFreeing(i, p, size)
  <2> PICK copied : copied = IF Serial!Shrinks(i, size) THEN size ELSE bs[i].size
    OBVIOUS
  <2>1. crashed' = (out.ptr = NULL)
    <3>1. out.ptr # NULL /\ crashed' = FALSE
      BY <1>2, <1>4
    <3> QED  BY <3>1
  <2>2. Serial!Did("mem_resize", p, size, out.ptr, IF out.ptr \in {p, NULL} THEN 0 ELSE copied, out.heap)
    BY <1>2, <1>4, <1>8 DEF Serial!Did, Completed
  <2> QED  BY <1>3, <1>4, <1>7, <2>1, <2>2 DEF Serial!ResizeByFreeing
<1> QED  BY <1>9, SerialResize

LEMMA SerialElsewhere ==
  ASSUME NEW j, j.was.ptr \in Offsets \cup {NULL}, j.size \in Sizes, Chosen(j, settled),
         j.way = "elsewhere", FreesLast("resize_unlock", j, settled, settled'),
         Completed("mem_resize", j.was.ptr, j.size, j.ret, j.moved), ~crashed, UNCHANGED crashed
  PROVE  Serial!Next
<1> PICK p, size, bs, now, ret : p = j.was.ptr /\ size = j.size /\ bs = settled /\ now = settled' /\ ret = j.ret
  OBVIOUS
<1>1. size \in Nat
  BY PoolAssumption
<1>2. PICK got : /\ Given(bs, size, got, ret)
                 /\ now = IF ret = NULL THEN got ELSE AfterFree(got, p)
  <2>1. CASE ret = NULL
    BY <2>1 DEF FreesLast
  <2>2. CASE ret # NULL
    BY <2>2 DEF FreesLast
  <2> QED  BY <2>1, <2>2
<1>3. PICK i \in LastAt(bs, p) :
        j.old = bs[i].size /\ Available(bs, i) < size /\ bs[i].size < size /\ ~CanGrowRight(bs, i, size)
  BY DEF Chosen
<1>4. j.moved = IF ret = NULL THEN 0 ELSE bs[i].size
  BY <1>3 DEF FreesLast, InFree
<1> PICK out : out = Serial!Outcome(got, ret, "granted")
  OBVIOUS
<1>5. out \in Serial!AllocOutcomes(bs, size)
  BY <1>1, <1>2, GivenIsAllocated
<1>6. out.blocks = got /\ out.ptr = ret /\ out.heap = "granted"
  BY DEF Serial!Outcome
<1>7. now = IF ret = NULL THEN got ELSE Serial!AfterFree(got, p)
  BY <1>2, SameFree
<1>8. Serial!Grows(i, size) /\ ~Serial!CanGrowRight(bs, i, size) /\ Serial!Available(bs, i) < size
  BY <1>3, SameUpdates DEF Serial!Grows
<1>9. Serial!ResizeElsewhere(i, p, size)
  <2>1. Serial!Did("mem_resize", p, size, out.ptr, IF out.ptr = NULL THEN 0 ELSE bs[i].size, out.heap)
    BY <1>4, <1>6 DEF Serial!Did, Completed
  <2>2. now = IF out.ptr = NULL THEN out.blocks ELSE Serial!AfterFree(out.blocks, p)
    BY <1>6, <1>7
  <2> QED  BY <1>5, <1>8, <2>1, <2>2 DEF Serial!ResizeElsewhere
<1> QED  BY <1>9, SerialResize

-----------------------------------------------------------------------------
(* The unlocks. *)

(* An inner one: the call goes on. *)
LEMMA InnerUnlock_Atomic ==
  ASSUME IInv, AtomInv, NEW t \in Threads, Unlock(t, memoryBlocks), Nesting(t) = 2,
         NEW label, label \notin {"resize_lock", "resize_body"},
         pc' = [pc EXCEPT ![t] = label], job[t].op = "mem_resize",
         UNCHANGED <<memoryBlocks, job, held, crashed, done>>,
         SoFar(pc[t], job[t], settled, memoryBlocks) => SoFar(label, job[t], settled, memoryBlocks)
  PROVE  AtomInv' /\ NothingHappens
<1> PICK j : j = job[t]
  OBVIOUS
<1>1. TypeOK /\ LockCountsNesting /\ Asked(pc[t], j)
  BY DEF IInv, AtomInv
<1>2. owner = t /\ depth = 2
  BY <1>1 DEF LockCountsNesting
<1>3. owner' = t /\ depth' # 0 /\ settled' = settled
  BY <1>2 DEF Unlock
<1>4. SoFar(label, j, settled, memoryBlocks')
  BY <1>2 DEF AtomInv
<1>5. Asked(label, j)
  BY <1>1 DEF Asked
<1>6. job' = [job EXCEPT ![t] = j]
  BY <1>1, JobUnchanged
<1>7. UNCHANGED <<settled, held, crashed>> /\ NothingHappens
  BY <1>3 DEF NothingHappens
<1> QED
  BY ONLY <1>1, <1>2, <1>3, <1>4, <1>5, <1>6, <1>7, AtomInv, t \in Threads,
          pc' = [pc EXCEPT ![t] = label], InsideStep

(* The last one: the call returns. *)
LEMMA LastUnlock_Atomic ==
  ASSUME IInv, AtomInv, NEW t \in Threads, pc[t] # "idle", Nesting(t) = 1,
         Unlock(t, memoryBlocks), Return(t), UNCHANGED <<memoryBlocks, crashed>>,
         owner = t => job[t].ret \in Offsets \cup {NULL}
  PROVE  AtomInv' /\ owner = t /\ settled' = memoryBlocks
<1> PICK k : k = job[t].slot
  OBVIOUS
<1> DEFINE j == job[t]
           n == IF j.was.filled < j.size THEN j.was.filled ELSE j.size
           b == IF j.op = "mem_free" THEN Empty
                ELSE IF j.ret = NULL THEN j.was
                ELSE [ptr |-> j.ret, size |-> j.size, filled |-> n]
           next == Job("none", j.slot, Empty, 0)
           label == IF b = Empty THEN "idle" ELSE "fill"
<1>1. TypeOK /\ JobFits(t) /\ LockCountsNesting /\ Asked(pc[t], j) /\ WellFormed(memoryBlocks, PoolSize)
  BY DEF IInv, AtomInv
<1>2. owner = t /\ depth = 1
  BY <1>1 DEF LockCountsNesting
<1>3. owner' = NULL /\ depth' = 0 /\ settled' = memoryBlocks
  BY <1>2 DEF Unlock
<1>4. /\ held' = [held EXCEPT ![t][k] = b]
      /\ job' = [job EXCEPT ![t] = next]
      /\ pc' = [pc EXCEPT ![t] = label]
  BY DEF Return, Goto
<1>5. b.ptr \in Offsets \cup {NULL}
  <2>1. Empty.ptr = NULL
    BY DEF Empty
  <2>2. j.was.ptr \in Offsets \cup {NULL} /\ j.ret \in Offsets \cup {NULL}
    BY <1>1, <1>2 DEF Asked
  <2> QED  BY <2>1, <2>2
<1>6. \A u \in Threads, i \in Slots : held'[u][i].ptr \in Offsets \cup {NULL}
  <2> HIDE DEF b
  <2> SUFFICES ASSUME NEW u \in Threads, NEW i \in Slots
               PROVE  held'[u][i].ptr \in Offsets \cup {NULL}
    OBVIOUS
  <2>1. held'[u][i] \in {b, held[u][i]}
    BY <1>1, <1>4 DEF TypeOK
  <2> QED  BY <1>5, <2>1 DEF AtomInv
<1>7. Asked(label, next)
  BY DEF Asked, Job, Empty
<1> HIDE DEF label, next
<1>8. /\ WellFormed(settled', PoolSize) /\ (owner' = NULL => memoryBlocks' = settled')
      /\ (owner' # NULL => depth' # 0) /\ (owner' = t => SoFar(label, next, settled', memoryBlocks'))
      /\ (\A u \in Threads \ {t} : owner' = u => owner = u /\ UNCHANGED <<settled, memoryBlocks>>)
      /\ UNCHANGED crashed
  <2>1. owner' # t /\ \A u \in Threads : owner' # u
    BY <1>3, NullAssumption
  <2> QED  BY <1>1, <1>3, <2>1
<1>9. AtomInv'
  BY ONLY <1>1, <1>4, <1>6, <1>7, <1>8, AtomInv, t \in Threads, AtomStep
<1> QED  BY <1>2, <1>3, <1>9

OneCall == [Serial!Next]_<<settled, done, crashed>>

LEMMA alloc_unlock_Atomic ==
  ASSUME IInv, AtomInv, NEW t \in Threads, alloc_unlock(t)
  PROVE  AtomInv' /\ OneCall
<1> PICK j, bs : j = job[t] /\ bs = memoryBlocks
  OBVIOUS
<1>1. TypeOK /\ JobFits(t) /\ LockCountsNesting /\ Asked(pc[t], j) /\ j \in JobType /\ ~crashed
      /\ WellFormed(settled, PoolSize)
  BY DEF IInv, AtomInv, TypeOK
<1>2. pc[t] = "alloc_unlock" /\ Unlock(t, memoryBlocks) /\ UNCHANGED <<memoryBlocks, crashed>>
  BY DEF alloc_unlock
<1>3. j.op \in {"mem_alloc", "mem_resize"}
  BY <1>1, <1>2 DEF JobFits, InAlloc
<1>4. CASE j.op = "mem_alloc"
  <2>1. Nesting(t) = 1 /\ pc[t] # "idle" /\ Return(t)
    BY <1>2, <1>4 DEF Nesting, alloc_unlock
  <2>2. owner = t => Given(settled, j.size, bs, j.ret)
    BY <1>2, <1>4 DEF AtomInv, SoFar
  <2>3. j.size \in Sizes /\ j.size \in Nat /\ j.was.ptr = NULL /\ j.moved = 0
    BY <1>1, <1>4, PoolAssumption DEF Asked
  <2>4. owner = t => j.ret \in Offsets \cup {NULL}
    BY <1>1, <2>2, <2>3, GivenInPool
  <2>5. AtomInv' /\ owner = t /\ settled' = memoryBlocks
    BY <1>2, <2>1, <2>4, LastUnlock_Atomic
  <2>6. Given(settled, j.size, settled', j.ret)
    BY <2>2, <2>5
  <2>7. Completed("mem_alloc", NULL, j.size, j.ret, 0)
    BY <1>4, <2>1, <2>3 DEF Return, Completed
  <2>8. Serial!Next
    BY <1>1, <1>2, <2>3, <2>6, <2>7, SerialAlloc
  <2> QED  BY <2>5, <2>8 DEF OneCall
<1>5. CASE j.op = "mem_resize"
  <2>1. Nesting(t) = 2 /\ Goto(t, "resize_move") /\ UNCHANGED <<memoryBlocks, job, held, crashed, done>>
    BY <1>2, <1>5 DEF Nesting, alloc_unlock
  <2>2. SoFar(pc[t], job[t], settled, memoryBlocks) => SoFar("resize_move", job[t], settled, memoryBlocks)
    BY <1>2, <1>5, SoFarAllocated
  <2>3. AtomInv' /\ NothingHappens
    BY <1>2, <1>5, <2>1, <2>2, InnerUnlock_Atomic DEF Goto
  <2> QED  BY <2>3 DEF OneCall, NothingHappens
<1> QED  BY <1>3, <1>4, <1>5

LEMMA free_unlock_Atomic ==
  ASSUME IInv, AtomInv, NEW t \in Threads, free_unlock(t)
  PROVE  AtomInv' /\ OneCall
<1> PICK j, bs : j = job[t] /\ bs = memoryBlocks
  OBVIOUS
<1>1. TypeOK /\ JobFits(t) /\ LockCountsNesting /\ Asked(pc[t], j) /\ j \in JobType /\ ~crashed
  BY DEF IInv, AtomInv, TypeOK
<1>2. pc[t] = "free_unlock" /\ Unlock(t, memoryBlocks) /\ UNCHANGED <<memoryBlocks, crashed>>
  BY DEF free_unlock
<1>3. j.op \in {"mem_free", "mem_resize"}
  BY <1>1, <1>2 DEF JobFits, InFree
<1>4. CASE j.op = "mem_free"
  <2>1. Nesting(t) = 1 /\ pc[t] # "idle" /\ Return(t)
    BY <1>2, <1>4 DEF Nesting, free_unlock
  <2>2. j.size = 0 /\ j.was.ptr \in Offsets \cup {NULL} /\ j.ret = NULL /\ j.moved = 0
    BY <1>1, <1>4 DEF Asked
  <2>3. AtomInv' /\ owner = t /\ settled' = memoryBlocks
    BY <1>2, <2>1, <2>2, LastUnlock_Atomic
  <2>4. settled' = AfterFree(settled, j.was.ptr)
    BY <1>2, <1>4, <2>3 DEF AtomInv, SoFar
  <2>5. Completed("mem_free", j.was.ptr, 0, NULL, 0)
    BY <1>4, <2>1, <2>2 DEF Return, Completed
  <2>6. Serial!Next
    BY <1>1, <1>2, <2>2, <2>4, <2>5, SerialFree
  <2> QED  BY <2>3, <2>6 DEF OneCall
<1>5. CASE j.op = "mem_resize"
  <2> PICK label : label = IF j.way = "elsewhere" THEN "resize_unlock" ELSE "alloc_lock"
    OBVIOUS
  <2>1. Nesting(t) = 2 /\ pc' = [pc EXCEPT ![t] = label]
        /\ UNCHANGED <<memoryBlocks, job, held, crashed, done>>
    BY <1>2, <1>5 DEF Nesting, free_unlock, Goto
  <2>2. SoFar(pc[t], job[t], settled, memoryBlocks) => SoFar(label, job[t], settled, memoryBlocks)
    BY <1>2, <1>5, SoFarGivenBack
  <2>3. AtomInv' /\ NothingHappens
    BY <1>2, <1>5, <2>1, <2>2, InnerUnlock_Atomic
  <2> QED  BY <2>3 DEF OneCall, NothingHappens
<1> QED  BY <1>3, <1>4, <1>5

LEMMA resize_unlock_Atomic ==
  ASSUME IInv, AtomInv, NEW t \in Threads, resize_unlock(t)
  PROVE  AtomInv' /\ OneCall
<1> PICK j, bs, p, size : j = job[t] /\ bs = settled /\ p = job[t].was.ptr /\ size = job[t].size
  OBVIOUS
<1> PICK now : now = memoryBlocks
  OBVIOUS
<1>1. TypeOK /\ JobFits(t) /\ LockCountsNesting /\ Asked(pc[t], j) /\ j \in JobType /\ crashed = FALSE
      /\ WellFormed(bs, PoolSize)
  BY DEF IInv, AtomInv, TypeOK
<1>2. pc[t] = "resize_unlock" /\ Unlock(t, memoryBlocks) /\ UNCHANGED <<memoryBlocks, crashed>>
      /\ Return(t)
  BY DEF resize_unlock
<1>3. j.op = "mem_resize" /\ Nesting(t) = 1 /\ pc[t] # "idle"
  BY <1>1, <1>2 DEF JobFits, InResize, Nesting
<1>4. size \in Sizes /\ size \in Nat /\ p \in Offsets \cup {NULL} /\ bs \in Seq(BlockType)
      /\ PoolSize \in Nat
  BY <1>1, <1>3, PoolAssumption DEF Asked, WellFormed, Layout
<1>5. owner = t
        => \/ j.way = "in place" /\ InPlace(j, bs, now) /\ j.moved = 0
           \/ /\ j.way \in {"growing", "shrinking"} /\ Chosen(j, bs)
              /\ FreesFirst("resize_unlock", j, bs, now)
           \/ j.way = "elsewhere" /\ Chosen(j, bs) /\ FreesLast("resize_unlock", j, bs, now)
  BY <1>2, <1>3 DEF AtomInv, SoFar
<1>6. ASSUME owner = t PROVE j.ret \in Offsets \cup {NULL}
  <2>1. CASE InPlace(j, bs, now)
    BY <1>4, <2>1 DEF InPlace
  <2>2. CASE FreesFirst("resize_unlock", j, bs, now)
    <3>1. Given(AfterFree(bs, p), size, now, j.ret)
      BY <2>2 DEF FreesFirst
    <3>2. WellFormed(AfterFree(bs, p), PoolSize)
      BY <1>1, <1>4, AfterFreeWellFormed
    <3> QED  BY ONLY <1>4, <3>1, <3>2, GivenInPool
  <2>3. CASE FreesLast("resize_unlock", j, bs, now)
    <3>1. j.ret # NULL => \E got : Given(bs, size, got, j.ret)
      BY <2>3 DEF FreesLast
    <3> QED  BY <1>1, <1>4, <3>1, GivenInPool
  <2> QED  BY <1>5, <1>6, <2>1, <2>2, <2>3
<1>7. AtomInv' /\ owner = t /\ settled' = memoryBlocks
  BY <1>2, <1>3, <1>6, LastUnlock_Atomic
<1>8. Completed("mem_resize", j.was.ptr, j.size, j.ret, j.moved) /\ settled' = now
  BY <1>2, <1>3, <1>7 DEF Return, Completed
<1>9. Serial!Next
  <2>1. CASE InPlace(j, bs, now) /\ j.moved = 0
    BY <1>1, <1>2, <1>4, <1>8, <2>1, SerialInPlace
  <2>2. CASE /\ j.way \in {"growing", "shrinking"} /\ Chosen(j, bs)
             /\ FreesFirst("resize_unlock", j, bs, now)
    BY <1>1, <1>2, <1>4, <1>8, <2>2, SerialByFreeing
  <2>3. CASE j.way = "elsewhere" /\ Chosen(j, bs) /\ FreesLast("resize_unlock", j, bs, now)
    BY <1>1, <1>2, <1>4, <1>8, <2>3, SerialElsewhere
  <2> QED  BY <1>5, <1>7, <2>1, <2>2, <2>3
<1> QED  BY <1>7, <1>9 DEF OneCall

-----------------------------------------------------------------------------
LEMMA InitAtomic == Init => AtomInv
<1> SUFFICES ASSUME Init PROVE AtomInv
  OBVIOUS
<1>1. IInv /\ settled = memoryBlocks
  BY InitSound DEF Init
<1>2. /\ \A t \in Threads : job[t] = NoJob /\ \A k \in Slots : held[t][k] = Empty
      /\ \A t \in Threads : pc[t] = "idle"
      /\ owner = NULL /\ crashed = FALSE
  BY DEF Init
<1>3. Asked("idle", NoJob) /\ Empty.ptr = NULL
  BY DEF Asked, NoJob, Job, Empty
<1>4. \A t \in Threads : owner # t
  BY <1>2, NullAssumption
<1> QED  BY <1>1, <1>2, <1>3, <1>4 DEF AtomInv, IInv

LEMMA StepAtomic ==
  ASSUME ReallocMayFail = FALSE, IInv, AtomInv, NEW t \in Threads, Step(t)
  PROVE  AtomInv' /\ OneCall
<1>1. NothingHappens => OneCall
  BY DEF NothingHappens, OneCall
<1>2. CASE CallAlloc(t) \/ CallFree(t) \/ CallResize(t)
  BY <1>1, <1>2, Start_Atomic
<1>3. CASE fill(t)
  BY <1>1, <1>3, fill_Atomic
<1>4. CASE Lock(t)
  BY <1>1, <1>4, Lock_Atomic
<1>5. CASE alloc_body(t)
  BY <1>1, <1>5, alloc_body_Atomic
<1>6. CASE alloc_undo(t)
  BY <1>6 DEF alloc_undo, IInv, JobFits
<1>7. CASE alloc_unlock(t)
  BY <1>7, alloc_unlock_Atomic
<1>8. CASE free_body(t)
  BY <1>1, <1>8, free_body_Atomic
<1>9. CASE free_unlock(t)
  BY <1>9, free_unlock_Atomic
<1>10. CASE resize_body(t)
  BY <1>1, <1>10, resize_body_Atomic
<1>11. CASE resize_move(t)
  BY <1>1, <1>11, resize_move_Atomic
<1>12. CASE resize_unlock(t)
  BY <1>12, resize_unlock_Atomic
<1> QED
  BY <1>2, <1>3, <1>4, <1>5, <1>6, <1>7, <1>8, <1>9, <1>10, <1>11, <1>12 DEF Step

(* "All operations are atomic" (header of memory_manager.c): whenever the   *)
(* lock becomes free, one whole call of the sequential manager has been     *)
(* made, with the answer the thread got, and nothing else ever changes what  *)
(* the other threads find.  It takes the lock counting its owner's calls:    *)
(* mem_resize calls mem_free and mem_alloc inside.                           *)
THEOREM OperationsAreAtomic ==
  ASSUME ReallocMayFail = FALSE
  PROVE  Spec => CallsAreAtomic
<1>1. Init => AtomInv
  BY InitAtomic
<1>2. IInv /\ AtomInv /\ [Next]_vars => AtomInv' /\ OneCall
  <2> SUFFICES ASSUME IInv, AtomInv, [Next]_vars PROVE AtomInv' /\ OneCall
    OBVIOUS
  <2>1. CASE Next
    BY <2>1, StepAtomic DEF Next
  <2>2. CASE UNCHANGED vars
    <3>1. UNCHANGED <<memoryBlocks, owner, depth, pc, job, held, crashed, settled, done>>
      BY <2>2 DEF vars
    <3>2. AtomInv'
      BY <3>1 DEF AtomInv
    <3> QED  BY <3>1, <3>2 DEF OneCall
  <2> QED  BY <2>1, <2>2
<1> QED  BY <1>1, <1>2, ThreadsSound, PTL DEF Spec, CallsAreAtomic, OneCall
=============================================================================

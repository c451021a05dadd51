---------------------------- MODULE ThreadedPool ----------------------------
(***************************************************************************)
(* memory_manager.c under threads: each thread keeps pointers in a few     *)
(* slots and calls mem_alloc, mem_free and mem_resize on them, as the      *)
(* concurrent tests do, between the mem_init and the mem_deinit that the   *)
(* main thread calls while no other thread runs.  A step is what one       *)
(* thread does between two operations on recursiveLock; "pc" says where in *)
(* a call it is.  mem_resize calls mem_free and mem_alloc with the lock    *)
(* already taken, so the labels of those two also occur inside it.         *)
(***************************************************************************)
EXTENDS MemoryBlocks

CONSTANTS Threads,
          Slots,           \* the pointers one thread keeps
          PoolSize,        \* what mem_init was called with
          Sizes,           \* the sizes requested
          Budget,          \* how many calls each thread makes
          ReallocMayFail,  \* whether the heap may refuse a longer array
          NULL

ASSUME PoolAssumption ==
  /\ PoolSize \in Nat \ {0} /\ Sizes \subseteq Nat
  /\ Budget \in [Threads -> Nat] /\ ReallocMayFail \in BOOLEAN

ASSUME NullAssumption == NULL \notin Int \cup Threads

VARIABLES memoryBlocks,
          owner, depth,   \* recursiveLock: who has it and how many times
          pc,             \* where each thread is
          job,            \* the arguments and local variables of its call
          held,           \* what each thread has in its slots
          bytes,          \* who wrote each byte of the pool last
          calls,          \* how many calls it still makes
          crashed,        \* memmove got a null pointer, or memory was overwritten
          settled, done   \* history: the array whenever the lock was last
                          \* free, and the last call that was completed

vars == <<memoryBlocks, owner, depth, pc, job, held, bytes, calls, crashed,
          settled, done>>

Labels == {"idle", "fill",
           "alloc_lock", "alloc_body", "alloc_undo", "alloc_unlock",
           "free_lock", "free_body", "free_unlock",
           "resize_lock", "resize_body", "resize_move", "resize_unlock"}

Offsets == 0 .. PoolSize - 1

(* A pointer a client keeps: the size it asked for, and how many of the     *)
(* bytes, from the first on, it has written.                                *)
Empty == [ptr |-> NULL, size |-> 0, filled |-> 0]
SlotType == [ptr : Nat \cup {NULL}, size : Nat, filled : Nat]

(* op, slot, was and size are the call and its arguments; way is the branch *)
(* mem_resize is in, old its oldBlockSize, index mem_alloc's i, ret the     *)
(* address to be returned and moved the bytes memmove copied.               *)
Job(op, slot, was, size) ==
  [op |-> op, slot |-> slot, was |-> was, size |-> size,
   way |-> "none", old |-> 0, index |-> 0, ret |-> NULL, moved |-> 0]

NoJob == Job("none", NULL, Empty, 0)

JobType ==
  [op : {"none", "mem_alloc", "mem_free", "mem_resize"},
   slot : Slots \cup {NULL}, was : SlotType, size : Nat,
   way : {"none", "in place", "growing", "shrinking", "elsewhere"},
   old : Nat, index : Nat, ret : Nat \cup {NULL}, moved : Nat]

TypeOK ==
  /\ memoryBlocks \in Seq(BlockType)
  /\ owner \in Threads \cup {NULL}
  /\ depth \in 0 .. 2
  /\ pc \in [Threads -> Labels]
  /\ job \in [Threads -> JobType]
  /\ held \in [Threads -> [Slots -> SlotType]]
  /\ bytes \in [Offsets -> (Threads \X Slots) \cup {NULL}]
  /\ calls \in [Threads -> Nat]
  /\ crashed \in BOOLEAN
  /\ settled \in Seq(BlockType)

Init ==
  /\ memoryBlocks = <<Block(0, PoolSize, FALSE)>>
  /\ owner = NULL /\ depth = 0
  /\ pc = [t \in Threads |-> "idle"]
  /\ job = [t \in Threads |-> NoJob]
  /\ held = [t \in Threads |-> [k \in Slots |-> Empty]]
  /\ bytes = [a \in Offsets |-> NULL]
  /\ calls = Budget
  /\ crashed = FALSE
  /\ settled = memoryBlocks
  /\ done = [op |-> "mem_init", ptr |-> NULL, size |-> PoolSize,
             ret |-> NULL, moved |-> 0, heap |-> "granted"]

-----------------------------------------------------------------------------
Goto(t, label) == pc' = [pc EXCEPT ![t] = label]

(* recursiveLock.  Unlocking it without owning it is refused and changes   *)
(* nothing; the code never looks at the answer.                            *)
Acquire ==
  [alloc_lock |-> "alloc_body", free_lock |-> "free_body", resize_lock |-> "resize_body"]

(* Mutation of Lock: the caller does not wait for the owner to let go. *)
LockWithoutWaiting(t) ==
  /\ pc[t] \in DOMAIN Acquire
  /\ owner' = t
  /\ depth' = IF owner = t THEN depth + 1 ELSE 1
  /\ Goto(t, Acquire[pc[t]])
  /\ UNCHANGED <<memoryBlocks, job, held, bytes, calls, crashed, settled, done>>

Lock(t) ==
  /\ pc[t] \in DOMAIN Acquire
  /\ owner \in {t, NULL}
  /\ owner' = t
  /\ depth' = depth + 1
  /\ Goto(t, Acquire[pc[t]])
  /\ UNCHANGED <<memoryBlocks, job, held, bytes, calls, crashed, settled, done>>

(* Mutation of Unlock: the lock does not count, and is free at once. *)
UnlockFully(t, bs) ==
  IF owner # t THEN UNCHANGED <<owner, depth, settled>>
  ELSE depth' = 0 /\ owner' = NULL /\ settled' = bs

(* What is in the array when the lock becomes free is there for all to see. *)
Unlock(t, bs) ==
  IF owner # t THEN UNCHANGED <<owner, depth, settled>>
  ELSE /\ depth' = depth - 1
       /\ owner' = IF depth = 1 THEN NULL ELSE t
       /\ settled' = IF depth = 1 THEN bs ELSE settled

-----------------------------------------------------------------------------
(* The client. *)
Start(t, op, k, size, label) ==
  /\ pc[t] = "idle"
  /\ calls[t] > 0
  /\ calls' = [calls EXCEPT ![t] = @ - 1]
  /\ job' = [job EXCEPT ![t] = Job(op, k, held[t][k], size)]
  /\ held' = [held EXCEPT ![t][k] = Empty]
  /\ Goto(t, label)
  /\ UNCHANGED <<memoryBlocks, owner, depth, bytes, crashed, settled, done>>

CallAlloc(t) ==
  \E k \in Slots, size \in Sizes :
     held[t][k] = Empty /\ Start(t, "mem_alloc", k, size, "alloc_lock")

CallFree(t) == \E k \in Slots : Start(t, "mem_free", k, 0, "free_lock")

CallResize(t) ==
  \E k \in Slots, size \in Sizes : Start(t, "mem_resize", k, size, "resize_lock")

(* A call returns: the client has a block if it got an address, and the     *)
(* block it passed to mem_resize if it did not.                             *)
Return(t) ==
  LET j == job[t]
      n == IF j.was.filled < j.size THEN j.was.filled ELSE j.size
      b == IF j.op = "mem_free" THEN Empty
           ELSE IF j.ret = NULL THEN j.was
           ELSE [ptr |-> j.ret, size |-> j.size, filled |-> n]
  IN  /\ held' = [held EXCEPT ![t][j.slot] = b]
      /\ job' = [job EXCEPT ![t] = Job("none", j.slot, Empty, 0)]
      /\ Goto(t, IF b = Empty THEN "idle" ELSE "fill")
      /\ done' = [op |-> j.op, ptr |-> j.was.ptr, size |-> j.size,
                  ret |-> j.ret, moved |-> j.moved, heap |-> "granted"]

(* memset over the whole block, without the lock. *)
fill(t) ==
  LET k == job[t].slot
      b == held[t][k]
  IN  /\ pc[t] = "fill"
      /\ bytes' = [a \in Offsets |->
                     IF b.ptr <= a /\ a < b.ptr + b.size THEN <<t, k>> ELSE bytes[a]]
      /\ held' = [held EXCEPT ![t][k].filled = b.size]
      /\ job' = [job EXCEPT ![t] = NoJob]
      /\ Goto(t, "idle")
      /\ UNCHANGED <<memoryBlocks, owner, depth, calls, crashed, settled, done>>

-----------------------------------------------------------------------------
(* mem_alloc. *)
Answer(t, ret, label) ==
  /\ job' = [job EXCEPT ![t].ret = ret]
  /\ Goto(t, label)

alloc_body(t) ==
  LET size == job[t].size
  IN  /\ pc[t] = "alloc_body"
      /\ \/ /\ size = 0
            /\ Answer(t, 0, "alloc_unlock")
            /\ UNCHANGED <<memoryBlocks, owner, depth, settled>>
         \/ /\ size > 0 /\ FirstFit(memoryBlocks, size) = {}
            /\ Answer(t, NULL, "alloc_unlock")
            /\ UNCHANGED <<memoryBlocks, owner, depth, settled>>
         \/ /\ size > 0
            /\ \E i \in FirstFit(memoryBlocks, size) :
                  /\ memoryBlocks' = Carve(memoryBlocks, i, size)
                  /\ Answer(t, memoryBlocks[i].startAdress, "alloc_unlock")
            /\ UNCHANGED <<owner, depth, settled>>
         (* increaseMemoryBlockArraySize fails: it lets go of the lock. *)
         \/ /\ size > 0 /\ ReallocMayFail
            /\ \E i \in FirstFit(memoryBlocks, size) :
                  /\ memoryBlocks[i].size # size
                  /\ memoryBlocks' = [memoryBlocks EXCEPT ![i].isUsed = TRUE]
                  /\ job' = [job EXCEPT ![t].index = i, ![t].ret = NULL]
            /\ Goto(t, "alloc_undo")
            /\ Unlock(t, memoryBlocks')
      /\ UNCHANGED <<held, bytes, calls, crashed, done>>

(* mem_alloc takes the mark back by the index it had found.  When the array *)
(* has got shorter since, the entry is past its end: in memory nobody reads *)
(* before it is written again or, if another thread's realloc has shortened *)
(* that too, outside it.  Which of the two is left open, and so is whether  *)
(* the process survives such a write.                                       *)
alloc_undo(t) ==
  LET i == job[t].index
  IN  /\ pc[t] = "alloc_undo"
      /\ \/ /\ i \in DOMAIN memoryBlocks
            /\ memoryBlocks' = Unmark(memoryBlocks, i)
            /\ UNCHANGED crashed
         \/ /\ i \notin DOMAIN memoryBlocks
            /\ crashed' \in BOOLEAN
            /\ UNCHANGED memoryBlocks
      /\ Goto(t, "alloc_unlock")
      /\ UNCHANGED <<owner, depth, job, held, bytes, calls, settled, done>>

(* Mutation of alloc_unlock: one return of mem_alloc forgets the lock. *)
alloc_unlock_Forgetting(t) ==
  /\ pc[t] = "alloc_unlock"
  /\ IF job[t].ret = NULL THEN UNCHANGED <<owner, depth, settled>> ELSE Unlock(t, memoryBlocks)
  /\ IF job[t].op = "mem_alloc" THEN Return(t)
     ELSE Goto(t, "resize_move") /\ UNCHANGED <<job, held, done>>
  /\ UNCHANGED <<memoryBlocks, bytes, calls, crashed>>

alloc_unlock(t) ==
  /\ pc[t] = "alloc_unlock"
  /\ Unlock(t, memoryBlocks)
  /\ IF job[t].op = "mem_alloc" THEN Return(t)
     ELSE Goto(t, "resize_move") /\ UNCHANGED <<job, held, done>>
  /\ UNCHANGED <<memoryBlocks, bytes, calls, crashed>>

-----------------------------------------------------------------------------
(* mem_free. *)
free_body(t) ==
  /\ pc[t] = "free_body"
  /\ memoryBlocks' = AfterFree(memoryBlocks, job[t].was.ptr)
  /\ Goto(t, "free_unlock")
  /\ UNCHANGED <<owner, depth, job, held, bytes, calls, crashed, settled, done>>

free_unlock(t) ==
  /\ pc[t] = "free_unlock"
  /\ Unlock(t, memoryBlocks)
  /\ IF job[t].op = "mem_free" THEN Return(t)
     ELSE /\ Goto(t, IF job[t].way = "elsewhere" THEN "resize_unlock" ELSE "alloc_lock")
          /\ UNCHANGED <<job, held, done>>
  /\ UNCHANGED <<memoryBlocks, bytes, calls, crashed>>

-----------------------------------------------------------------------------
(* mem_resize. *)
Take(t, way, old, ret, label) ==
  /\ job' = [job EXCEPT ![t].way = way, ![t].old = old, ![t].ret = ret]
  /\ Goto(t, label)

resize_body(t) ==
  LET p    == job[t].was.ptr
      size == job[t].size
  IN  /\ pc[t] = "resize_body"
      /\ \/ /\ LastAt(memoryBlocks, p) = {}
            /\ Take(t, "in place", 0, NULL, "resize_unlock")
            /\ UNCHANGED memoryBlocks
         \/ \E i \in LastAt(memoryBlocks, p) :
            LET old == memoryBlocks[i].size
            IN  \/ /\ old = size
                   /\ Take(t, "in place", 0, p, "resize_unlock")
                   /\ UNCHANGED memoryBlocks
                \/ /\ old < size /\ CanGrowRight(memoryBlocks, i, size)
                   /\ memoryBlocks' = GrowRight(memoryBlocks, i, size)
                   /\ Take(t, "in place", 0, p, "resize_unlock")
                \/ /\ old < size /\ ~CanGrowRight(memoryBlocks, i, size)
                   /\ size <= Available(memoryBlocks, i)
                   /\ Take(t, "growing", old, NULL, "free_lock")
                   /\ UNCHANGED memoryBlocks
                \/ /\ old < size /\ ~CanGrowRight(memoryBlocks, i, size)
                   /\ Available(memoryBlocks, i) < size
                   /\ Take(t, "elsewhere", old, NULL, "alloc_lock")
                   /\ UNCHANGED memoryBlocks
                \/ /\ size < old
                   /\ Take(t, "shrinking", old, NULL, "free_lock")
                   /\ UNCHANGED memoryBlocks
      /\ UNCHANGED <<owner, depth, held, bytes, calls, crashed, settled, done>>

(* Mutation of Copied: the last byte stays behind. *)
CopiedOneShort(j) == (IF j.way = "shrinking" THEN j.size ELSE j.old) - 1

(* How many bytes memmove copies. *)
Copied(j) == IF j.way = "shrinking" THEN j.size ELSE j.old

(* Mutation of AfterCopying: the old block is never freed. *)
AfterCopyingLeak(j) == "resize_unlock"

(* The block whose bytes went elsewhere is freed now. *)
AfterCopying(j) == IF j.way = "elsewhere" THEN "free_lock" ELSE "resize_unlock"

(* mem_alloc has answered.  Only the way that looked elsewhere asks whether *)
(* it got anything; the others hand the answer to memmove.                  *)
resize_move(t) ==
  LET j == job[t]
      p == j.was.ptr
  IN  /\ pc[t] = "resize_move"
      /\ \/ /\ j.ret = NULL /\ j.way = "elsewhere"
            /\ Goto(t, "resize_unlock")
            /\ UNCHANGED <<job, bytes, crashed>>
         \/ /\ j.ret = NULL /\ j.way # "elsewhere"
            /\ crashed' = TRUE
            /\ UNCHANGED <<pc, job, bytes>>
         \/ /\ j.ret = p
            /\ Goto(t, "resize_unlock")
            /\ UNCHANGED <<job, bytes, crashed>>
         \/ /\ j.ret \notin {NULL, p}
            /\ bytes' = [a \in Offsets |->
                           IF j.ret <= a /\ a < j.ret + Copied(j)
                           THEN bytes[a - j.ret + p] ELSE bytes[a]]
            /\ job' = [job EXCEPT ![t].moved = Copied(j)]
            /\ Goto(t, AfterCopying(j))
            /\ UNCHANGED crashed
      /\ UNCHANGED <<memoryBlocks, owner, depth, held, calls, settled, done>>

resize_unlock(t) ==
  /\ pc[t] = "resize_unlock"
  /\ Unlock(t, memoryBlocks)
  /\ Return(t)
  /\ UNCHANGED <<memoryBlocks, bytes, calls, crashed>>

-----------------------------------------------------------------------------
Step(t) ==
  \/ CallAlloc(t) \/ CallFree(t) \/ CallResize(t) \/ fill(t) \/ Lock(t)
  \/ alloc_body(t) \/ alloc_undo(t) \/ alloc_unlock(t)
  \/ free_body(t) \/ free_unlock(t)
  \/ resize_body(t) \/ resize_move(t) \/ resize_unlock(t)

Next == ~crashed /\ \E t \in Threads : Step(t)

Spec == Init /\ [][Next]_vars

(* The scheduler runs every thread that can go on.  A mutex need not be    *)
(* fair: as the calls are finitely many, so are the times it is taken.     *)
FairSpec == Spec /\ \A t \in Threads : WF_vars(~crashed /\ Step(t))

-----------------------------------------------------------------------------
(* The bytes of a block. *)
Reach(ptr, size) == IF ptr = NULL THEN {} ELSE ptr .. ptr + size - 1

(* At most one thread is between its lock and its unlock, and the lock is   *)
(* held exactly as often as its calls are nested: once for being inside     *)
(* mem_resize, once for being inside mem_alloc or mem_free.                 *)
Nesting(t) ==
  (IF job[t].op = "mem_resize" /\ pc[t] # "resize_lock" THEN 1 ELSE 0) +
  (IF pc[t] \in {"alloc_body", "alloc_unlock", "free_body", "free_unlock"} THEN 1 ELSE 0)

LockCountsNesting ==
  /\ \A t \in Threads : Nesting(t) = IF owner = t THEN depth ELSE 0
  /\ owner = NULL => depth = 0

(* The pool is tiled whatever the threads do, a refused realloc included. *)
PoolTiled == Tiles(memoryBlocks, PoolSize)

(* "Uses one global lock to secure all functions that modefy the global    *)
(* memoryblocks array" (header of memory_manager.c): no call of another    *)
(* thread takes a block away, so what a thread has in a slot is a used     *)
(* block of exactly the size it asked for.                                 *)
OwnersKeepBlocks ==
  \A t \in Threads, k \in Slots : held[t][k] # Empty =>
     \E i \in DOMAIN memoryBlocks :
        memoryBlocks[i] = Block(held[t][k].ptr, held[t][k].size, TRUE)

(* And no block is lost: with no call under way, the used blocks are those  *)
(* in somebody's slot, each in exactly one.                                 *)
InSlots == {s \in Threads \X Slots : held[s[1]][s[2]] # Empty}

NoBlockLost ==
  (\A t \in Threads : pc[t] \in {"idle", "fill"}) =>
     /\ {held[s[1]][s[2]].ptr : s \in InSlots} =
          {memoryBlocks[i].startAdress : i \in {j \in DOMAIN memoryBlocks : memoryBlocks[j].isUsed}}
     /\ \A s, r \in InSlots : held[s[1]][s[2]].ptr = held[r[1]][r[2]].ptr => s = r

(* sanityCheck of the tests: a thread finds in its blocks what it wrote,    *)
(* also after mem_resize moved them.                                        *)
ContentIntact ==
  \A t \in Threads, k \in Slots :
     LET b == held[t][k]
     IN  \A a \in Reach(b.ptr, b.filled) : bytes[a] = <<t, k>>

(* "All operations are atomic" (header of memory_manager.c): whenever the   *)
(* lock becomes free, one whole call of the sequential manager has been     *)
(* made, with the answer the thread got.                                    *)
Serial == INSTANCE MemoryManager
            WITH PoolSizes <- {PoolSize}, Addrs <- Offsets,
                 memPoolStart <- 0, memPoolSize <- PoolSize,
                 memoryBlocks <- settled, lock <- "initialised", call <- done

CallsAreAtomic == [][Serial!Next]_<<settled, done, crashed>>

(* Every thread makes all its calls: none waits forever for the lock, also  *)
(* not for the one it has itself.                                           *)
EveryCallReturns ==
  <>(crashed \/ \A t \in Threads : pc[t] = "idle" /\ calls[t] = 0)
=============================================================================

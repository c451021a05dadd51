--------------------------- MODULE Fragmentation ---------------------------
(***************************************************************************)
(* test_memory_fragmentation_multithread of test_memory_manager.c: even    *)
(* threads allocate and, after a barrier, free; odd threads allocate and   *)
(* free while the even ones are freeing.  The barrier is Barrier, step by  *)
(* step; a call of the memory manager is one step, which CallsAreAtomic of *)
(* ThreadedPool allows.  The heap never refuses a longer array here.       *)
(***************************************************************************)
EXTENDS Barrier, MemoryBlocks

CONSTANTS MemorySizes,   \* the memory_size of the tests
          Cycles,        \* their iterations
          NULL

ASSUME FragmentationAssumption ==
  /\ MemorySizes \subseteq Nat \ {0} /\ Cycles \in Nat /\ Rounds = 2 * Cycles
  /\ Threads = 0 .. Cardinality(Threads) - 1

ASSUME NullAssumption == NULL \notin Int

VARIABLES memoryBlocks, memory_size,
          at,       \* what each thread does next
          cycle,    \* how many times it has been round its loop
          block     \* what it got from mem_alloc

test == <<memoryBlocks, memory_size, at, cycle, block>>

Even(t) == t % 2 = 0

Labels == {"allocate", "first wait", "free", "second wait", "return"}

TestTypeOK ==
  /\ TypeOK
  /\ memoryBlocks \in Seq(BlockType) /\ memory_size \in MemorySizes \cup {0}
  /\ at \in [Threads -> Labels] /\ cycle \in [Threads -> 0 .. Cycles]
  /\ block \in [Threads -> Nat \cup {NULL}]

Top(t) == IF Even(t) THEN "allocate" ELSE "first wait"

(* With no cycles to go round, as in the call main makes, a thread returns. *)
Begins(t) == IF Cycles = 0 THEN "return" ELSE Top(t)

TestInit ==
  /\ Init
  /\ memoryBlocks = <<>> /\ memory_size = 0
  /\ at = [t \in Threads |-> Begins(t)]
  /\ cycle = [t \in Threads |-> 0]
  /\ block = [t \in Threads |-> NULL]

-----------------------------------------------------------------------------
start ==
  /\ my_barrier_init
  /\ \E n \in 1 .. Cardinality(Threads) : party' = 0 .. n - 1
  /\ \E size \in MemorySizes :
        memory_size' = size /\ memoryBlocks' = <<Block(0, size, FALSE)>>
  /\ at' = [t \in Threads |-> Begins(t)]
  /\ cycle' = [t \in Threads |-> 0]
  /\ block' = [t \in Threads |-> NULL]

(* The threads have been joined. *)
finish ==
  /\ my_barrier_destroy
  /\ \A t \in party : at[t] = "return"
  /\ memoryBlocks' = <<>> /\ memory_size' = 0
  /\ UNCHANGED <<at, cycle, block>>

(* Mutation of block_size: the threads are not taken into account. *)
block_size_Undivided(t) == (memory_size \div 3) * ((t % 3) + 1)

block_size(t) == (memory_size \div (num_threads * 3)) * ((t % 3) + 1)

RoundAgain(t) ==
  /\ cycle' = [cycle EXCEPT ![t] = @ + 1]
  /\ at' = [at EXCEPT ![t] = IF cycle[t] + 1 = Cycles THEN "return" ELSE Top(t)]

(* An even thread that got nothing goes on with its next cycle, past both   *)
(* barriers; an odd one that got nothing has nothing to free.               *)
allocate(t) ==
  LET size == block_size(t)
  IN  /\ pc[t] = "outside" /\ at[t] = "allocate"
      /\ \/ /\ size = 0
            /\ block' = [block EXCEPT ![t] = 0]
            /\ UNCHANGED memoryBlocks
         \/ /\ size > 0
            /\ \E i \in FirstFit(memoryBlocks, size) :
                  /\ memoryBlocks' = Carve(memoryBlocks, i, size)
                  /\ block' = [block EXCEPT ![t] = memoryBlocks[i].startAdress]
         \/ /\ size > 0 /\ FirstFit(memoryBlocks, size) = {}
            /\ UNCHANGED <<memoryBlocks, block>>
      /\ IF Even(t) /\ block'[t] = NULL THEN RoundAgain(t)
         ELSE /\ at' = [at EXCEPT ![t] = IF Even(t) THEN "first wait"
                                         ELSE IF block'[t] = NULL THEN "second wait"
                                         ELSE "free"]
              /\ UNCHANGED cycle
      /\ UNCHANGED <<vars, memory_size>>

free(t) ==
  /\ pc[t] = "outside" /\ at[t] = "free"
  /\ memoryBlocks' = AfterFree(memoryBlocks, block[t])
  /\ block' = [block EXCEPT ![t] = NULL]
  /\ at' = [at EXCEPT ![t] = "second wait"]
  /\ UNCHANGED <<vars, memory_size, cycle>>

AfterFirstWait(t) == IF Even(t) THEN "free" ELSE "allocate"

wait(t) ==
  /\ my_barrier_wait(t)
  /\ \/ /\ at[t] = "first wait"
        /\ at' = [at EXCEPT ![t] = AfterFirstWait(t)]
        /\ UNCHANGED cycle
     \/ at[t] = "second wait" /\ RoundAgain(t)
  /\ UNCHANGED <<memoryBlocks, memory_size, block>>

inside(t) == (lock(t) \/ arrive(t) \/ wake(t) \/ unlock(t)) /\ UNCHANGED test

Going(t) == allocate(t) \/ free(t) \/ wait(t) \/ inside(t)

TestNext ==
  \/ start \/ finish
  \/ \E t \in party : Going(t) \/ (wake_spuriously(t) /\ UNCHANGED test)

TestSpec == TestInit /\ [][TestNext]_<<vars, test>>

(* The threads of a test run on to their last barrier, and the main thread   *)
(* joins them.  The mutex need not be fair: between two rounds everybody     *)
(* takes it at most twice.                                                   *)
TestFairSpec ==
  /\ TestSpec
  /\ WF_<<vars, test>>(finish)
  /\ \A t \in Threads : WF_<<vars, test>>(t \in party /\ Going(t))

-----------------------------------------------------------------------------
(* "Wait until fragmentation is created" (repeated_allocate_in_fragment):    *)
(* while an odd thread has a block, no even thread allocates or has a block  *)
(* it allocated and has not yet come to the barrier with.                    *)
PhasesKeptApart ==
  ~surprised =>
    \A t, u \in party : Even(t) /\ ~Even(u) /\ block[u] # NULL =>
       ~(pc[t] = "outside" /\ at[t] \in {"allocate", "first wait"})

(* "Adjust factor if necessary to prevent over-allocation": the pool always  *)
(* holds the blocks of all even threads at once, so that none of them skips  *)
(* the two barriers the others are waiting at.                               *)
NobodySkipsBarrier ==
  ~surprised =>
    \A t \in party : LET waits == IF at[t] \in {"free", "second wait"} \/ (~Even(t) /\ at[t] = "allocate")
                                  THEN 1 ELSE 0
                     IN  entered[t] = 2 * cycle[t] + waits

(* Whatever order the threads free in, also after a surprise, and whether    *)
(* or not their blocks are neighbours, the pool is one free block again.     *)
PoolIsWholeAgain ==
  party # {} /\ (\A t \in party : block[t] = NULL) =>
     memoryBlocks = <<Block(0, memory_size, FALSE)>>

(* The test ends: no wakeup is lost and nobody waits for a thread that will  *)
(* not come.                                                                 *)
EveryTestEnds == party # {} ~> (surprised \/ party = {})
=============================================================================

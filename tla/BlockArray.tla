----------------------------- MODULE BlockArray -----------------------------
(***************************************************************************)
(* The array "memoryBlocks" of memory_manager.c as memory: the entries     *)
(* realloc gave it, those in use, and the loops that shift them, one entry *)
(* per step.  MemoryBlocks says in one go what such a loop does; here a    *)
(* call is shown to do it without leaving the array.  One call runs at a   *)
(* time (the lock), and positions count from 0 as in the code.             *)
(***************************************************************************)
EXTENDS MemoryBlocks

CONSTANTS PoolSize,   \* what mem_init was called with
          Sizes,      \* the sizes mem_alloc and mem_resize are called with
          NULL

ASSUME ArrayAssumption == PoolSize \in Nat \ {0} /\ Sizes \subseteq Nat \ {0}

VARIABLES entries,            \* the memory from memoryBlocks on
          room,               \* how many entries of it belong to the array
          memoryBlocksSize,
          pc, index, j, size, \* where a call is, its block, the loop's variable
          goal,               \* history: the blocks the call is to leave
          touched             \* history: the entries the last step used

vars == <<entries, room, memoryBlocksSize, pc, index, j, size, goal, touched>>

(* An entry that has never been written holds NULL. *)
Positions == 0 .. PoolSize + 1

TypeOK ==
  /\ entries \in [Positions -> BlockType \cup {NULL}]
  /\ room \in Nat /\ memoryBlocksSize \in Nat
  /\ pc \in {"idle", "shift right", "join left", "shift left", "join right",
            "shift left and end"}
  /\ index \in Int /\ j \in Nat /\ size \in Nat
  /\ goal \in Seq(BlockType) /\ touched \subseteq Int

Init ==
  /\ entries = [k \in Positions |-> IF k = 0 THEN Block(0, PoolSize, FALSE) ELSE NULL]
  /\ room = 1 /\ memoryBlocksSize = 1
  /\ pc = "idle" /\ index = 0 /\ j = 0 /\ size = 0
  /\ goal = <<Block(0, PoolSize, FALSE)>> /\ touched = {}

(* The entries in use, as MemoryBlocks has them. *)
Blocks ==
  LET n == memoryBlocksSize
  IN  SubSeq([i \in 1 .. n |-> entries[i-1]], 1, n)

Set(k, start, n, used) == entries' = [entries EXCEPT ![k] = Block(start, n, used)]

(* A call has found block k, by reading the entries up to it, and is to     *)
(* leave the blocks bs.                                                     *)
Begin(k, n, bs) == index' = k /\ size' = n /\ goal' = bs /\ touched' = 0 .. k

-----------------------------------------------------------------------------
(* There may have been more room, as blocks that are joined leave theirs    *)
(* unused.  What lies beyond the old or the new room is not kept.            *)
increaseMemoryBlockArraySize(BlocksToAdd) ==
  /\ room' = memoryBlocksSize + BlocksToAdd
  /\ memoryBlocksSize' = memoryBlocksSize + BlocksToAdd
  /\ entries' = [k \in Positions |-> IF k < room /\ k < room' THEN entries[k] ELSE NULL]

mem_alloc(k, n) ==
  /\ pc = "idle" /\ k + 1 \in FirstFit(Blocks, n)
  /\ \/ /\ entries[k].size = n
        /\ Set(k, entries[k].startAdress, n, TRUE)
        /\ Begin(k, n, Carve(Blocks, k + 1, n))
        /\ UNCHANGED <<room, memoryBlocksSize, pc, j>>
     \/ /\ entries[k].size # n
        /\ increaseMemoryBlockArraySize(1)
        /\ j' = memoryBlocksSize' - 1
        /\ pc' = "shift right"
        /\ Begin(k, n, Carve(Blocks, k + 1, n))
     (* realloc has nothing to give, and the mark is taken back. *)
     \/ /\ entries[k].size # n
        /\ Begin(k, n, Blocks)
        /\ UNCHANGED <<entries, room, memoryBlocksSize, pc, j>>

(* Mutation of LastShifted: the loop stops one entry too early. *)
LastShiftedTooSoon == index + 2

LastShifted == index + 1

(* From the end of the array on, to make room right of the block, which is   *)
(* then split.                                                               *)
shift_right ==
  /\ pc = "shift right"
  /\ \/ /\ j > LastShifted
        /\ entries' = [entries EXCEPT ![j] = entries[j-1]]
        /\ j' = j - 1
        /\ touched' = {j - 1, j}
        /\ UNCHANGED pc
     \/ /\ j <= LastShifted
        /\ LET b == entries[index]
           IN  entries' = [entries EXCEPT
                  ![index]     = Block(b.startAdress, size, TRUE),
                  ![index + 1] = Block(b.startAdress + size, b.size - size, FALSE)]
        /\ pc' = "idle"
        /\ touched' = {index, index + 1}
        /\ UNCHANGED j
  /\ UNCHANGED <<room, memoryBlocksSize, index, size, goal>>

-----------------------------------------------------------------------------
mem_free(k) ==
  /\ pc = "idle" /\ entries[k].isUsed
  /\ Set(k, entries[k].startAdress, entries[k].size, FALSE)
  /\ pc' = "join left"
  /\ Begin(k, 0, Release(Blocks, k + 1))
  /\ UNCHANGED <<room, memoryBlocksSize, j>>

Widen(k) == Set(k, entries[k].startAdress, entries[k].size + entries[k+1].size, entries[k].isUsed)

join_left ==
  /\ pc = "join left"
  /\ \/ /\ index > 0 /\ ~entries[index-1].isUsed
        /\ Widen(index - 1)
        /\ j' = index /\ index' = index - 1
        /\ pc' = "shift left"
     \/ /\ ~(index > 0 /\ ~entries[index-1].isUsed)
        /\ pc' = "join right"
        /\ UNCHANGED <<entries, j, index>>
  /\ touched' = {index} \cup ({index - 1} \cap Nat)
  /\ UNCHANGED <<room, memoryBlocksSize, size, goal>>

HasRight(k) == k < memoryBlocksSize - 1

join_right ==
  /\ pc = "join right"
  /\ \/ /\ HasRight(index) /\ ~entries[index+1].isUsed
        /\ Widen(index)
        /\ j' = index + 1
        /\ pc' = "shift left and end"
     \/ /\ ~(HasRight(index) /\ ~entries[index+1].isUsed)
        /\ pc' = "idle"
        /\ UNCHANGED <<entries, j>>
  /\ touched' = {index} \cup (IF HasRight(index) THEN {index + 1} ELSE {})
  /\ UNCHANGED <<room, memoryBlocksSize, index, size, goal>>

(* Mutation of LeftToShift: one entry more than there is. *)
LeftToShiftTooMany == j < memoryBlocksSize

LeftToShift == j < memoryBlocksSize - 1

(* Over entry j, up to the end of the array. *)
shift_left ==
  /\ pc \in {"shift left", "shift left and end"}
  /\ \/ /\ LeftToShift
        /\ entries' = [entries EXCEPT ![j] = entries[j+1]]
        /\ j' = j + 1
        /\ touched' = {j, j + 1}
        /\ UNCHANGED <<memoryBlocksSize, pc>>
     \/ /\ ~LeftToShift
        /\ memoryBlocksSize' = memoryBlocksSize - 1
        /\ pc' = IF pc = "shift left" THEN "join right" ELSE "idle"
        /\ touched' = {}
        /\ UNCHANGED <<entries, j>>
  /\ UNCHANGED <<room, index, size, goal>>

-----------------------------------------------------------------------------
(* Mutation of Rest: the bytes the block had already are not counted. *)
RestMiscounting(k, n) == entries[k+1].size - n

Rest(k, n) == entries[k+1].size + entries[k].size - n

(* mem_resize lets block k grow over the free block on its right.  Its other *)
(* ways change the array through mem_free and mem_alloc only.                *)
mem_resize(k, n) ==
  /\ pc = "idle" /\ entries[k].size < n
  /\ HasRight(k) /\ ~entries[k+1].isUsed /\ entries[k+1].size + entries[k].size >= n
  /\ LET b == entries[k]
     IN  entries' = [entries EXCEPT
           ![k]     = Block(b.startAdress, n, b.isUsed),
           ![k + 1] = Block(b.startAdress + n, Rest(k, n), FALSE)]
  /\ j' = k + 1
  /\ pc' = IF Rest(k, n) = 0 THEN "shift left and end" ELSE "idle"
  /\ index' = k /\ size' = n /\ goal' = GrowRight(Blocks, k + 1, n)
  /\ touched' = 0 .. memoryBlocksSize - 1
  /\ UNCHANGED <<room, memoryBlocksSize>>

-----------------------------------------------------------------------------
Next ==
  \/ \E k \in 0 .. memoryBlocksSize - 1 :
        \/ mem_free(k)
        \/ \E n \in Sizes : mem_alloc(k, n) \/ mem_resize(k, n)
  \/ shift_right \/ join_left \/ join_right \/ shift_left

Spec == Init /\ [][Next]_vars

-----------------------------------------------------------------------------
(* No step reads or writes an entry that realloc did not give the array,    *)
(* although the array is asked for one entry at a time, is never shortened  *)
(* when blocks are joined, and may then get less room than it had.          *)
InBounds == touched \subseteq 0 .. room - 1 /\ memoryBlocksSize <= room

(* When a call returns, the loops have left in the array what Carve, Release *)
(* and GrowRight of MemoryBlocks say: no entry is lost, doubled or stale.    *)
LoopsReachGoal == pc = "idle" => Blocks = goal
=============================================================================

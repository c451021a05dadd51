# Verification of the pool memory manager and its linked list

The repository is a fixed-size memory manager in C (`memory_manager.c`), a
linked list that takes its nodes from it (`linked_list.c`), tests that drive
both from several threads, and a small library that traces the C heap
(`cM2.c`). This directory holds TLA+ modules that model it, the TLC
configurations that check them and proofs that TLAPS checks.

## The system

| component | state | operations | used by |
|---|---|---|---|
| memory manager, `memory_manager.c` | `memPoolStart`, `memPoolSize`, the array `memoryBlocks` with its size, `recursiveLock` | `mem_init`, `mem_deinit`, `mem_alloc`, `mem_free`, `mem_resize`, `increaseMemoryBlockArraySize`, `print_memory_blocks` | the list and the tests, by calls; the C heap below it |
| linked list, `linked_list.c` | nodes in the pool, the caller's head pointer, `readWriteLock` | `list_init`, `list_insert`, `list_insert_after`, `list_insert_before`, `list_search`, `list_delete`, `list_count_nodes`, `list_display`, `list_display_range`, `list_cleanup` | its tests |
| barrier, `common_defs.h` | `count`, `num_threads`, a mutex, a condition variable | `my_barrier_init`, `_wait`, `_destroy` | the phases of the manager's tests |
| interposer, `cM2.c` | the seven real functions, `tmpbuff`, `tmppos` | `malloc`, `free`, `realloc`, `calloc`, `memalign`, `mmap`, `munmap` | preloaded under any program |
| tests | the pointers of each thread | threads that allocate, fill, check, resize and free | |

How they interact: a list call takes `readWriteLock` and, for a writing call,
calls the manager, which takes `recursiveLock`; `mem_resize` calls `mem_free`
and `mem_alloc` with that lock taken already. Main threads open the pool before
they create threads and close it after joining them. Clients write the bytes of
their blocks without any lock.

What is hard in it: the block array after long mixes of splits and joins; the
three steps of `mem_resize`; the path after a failed `realloc`, where the lock
is let go early; sizes and ranges at their ends (0, exact fits, the whole pool);
pointers that a list search gives out and another thread makes stale; the life
of the two locks; a barrier without a loop around its wait, and a test that skips
its waits when an allocation fails; a heap tracer that is called by the lookup it
is in the middle of. `PROJECT.json` lists
each under "hazards" with its line.

What makes each component correct:

* manager: the blocks tile the pool; no two free neighbours; NULL only if
  nothing fits; a live block is left alone by every call but those on itself;
  the bytes move along; under threads every call is atomic and returns.
* list: what the calls return is what they would on a plain sequence; no node is
  lost or freed twice; a pointer to a node is used only while the node is in the
  list; readers and writers exclude each other.
* barrier: nobody leaves a round before all have entered it; all leave it.
* fragmentation test: every thread comes to every round, odd threads allocate only
  between the blocks of the even ones, and the pool is one free block at the end.
* interposer: a request during the lookup is served from `tmpbuff` within its
  bounds, and never given to the real `free`; no function is called before its
  address is known. It keeps this only in part: see `OnlyTheseCallsCrash` and
  `lookup_crash` below.

## The modules

`MemoryBlocks` has the array as a sequence of records and, as operators, what
the loops of the code do to it: the two searches (`FirstAt`, `LastAt`), first
fit, `Carve` (the split of `mem_alloc`), `Release` (`mem_free`: unmark, join to
the left, join to the right), `GrowRight` and `Available` (`mem_resize`). An
address is an offset from `memPoolStart`. The shifting loops are `InsertAt` and
`RemoveAt`; `BlockArray` says why they may be.

`MemoryManager` is the manager called by one thread with any arguments: one
action per call, one operator per branch of `mem_resize`. `AllocOutcomes` says
what `mem_alloc` may leave and return, so that `mem_resize` can use it after
`AfterFree`. Each request to the C heap may be refused: the pool, the array, the
longer array. `crashed` is set where the code then writes through a null
pointer, after which nothing happens.

`BlockArray` has the same array as memory: `entries` counted from 0, the `room`
realloc gave it, `memoryBlocksSize`. A step is one turn of a loop: `shift_right`
(the split in `mem_alloc`), `shift_left` (after a join to either side in
`mem_free`, after an exact growth in `mem_resize`); `join_left` and `join_right`
decide and widen. Each step records in `touched` the entries it read or wrote. A
call may be on any block, whichever address it was found by; what it is to leave,
the operator of `MemoryBlocks`, is kept in `goal`. An entry beyond the room, or
beyond the old one, holds NULL, so that using one would be seen in the blocks as
well. `increaseMemoryBlockArraySize` asks for `memoryBlocksSize + 1` entries, not
for one more than it had: after joins the array gets smaller.

`PoolAllocator` is the abstract specification: a pool of bytes and the lengths
of the live blocks, without an array. An allocation goes to the lowest place
between the live blocks where it fits and answers NULL only if there is none (or
the heap refused); resizing says where the block goes, how many bytes go along,
and that no other live block is touched. `MemoryManager` is checked to implement
it (`ImplementsPoolAllocator`, with `live` mapped to the used blocks).

`ThreadedPool` looks inside the calls. Each thread has a label in `pc`; a step
is what lies between two operations on `recursiveLock`: `Lock`, the bodies
`alloc_body`, `free_body`, `resize_body`, `resize_move`, and the unlocking steps,
where the call returns or goes on inside `mem_resize`. `job` has the arguments
and local variables of the call. `alloc_undo` is the write to the array after a
failed `realloc`, when the lock has been let go: `Unlock` by a thread that does
not own the lock changes nothing, as a recursive mutex answers `EPERM`. The
clients are the threads of `test_memory_manager.c` in any order: each has a few
slots for pointers, calls on them (NULL included), and fills each block it gets
with bytes of its own (`fill`). `settled` and `done` are history variables: the
array whenever the lock was last free, and the last call that returned. With
them the module is compared to `MemoryManager` itself (`CallsAreAtomic`).
`MCThreadedPool` gives it two threads and their numbers of calls.

A body is one step although it is many reads and writes. While the lock is held
nobody else touches the array, so nothing is lost by that; the exception is the
write of `alloc_undo`, a data race in C, which the model lets fall before or
after a body of another thread, not inside one. The violation it finds needs no
more than that, but an array torn in the middle of a shift is out of the model's
sight. The index of the write may be behind the last entry: another thread's
`realloc` asks for `memoryBlocksSize + 1` entries, so after joins it may ask for
fewer than there were. The write is then outside the array, or in an entry not in
use, which `ThreadedPool` does not tell apart: the process may crash or go on.

`LinkedList` is the list. A thread's call takes `readWriteLock` (`rdlock`,
`wrlock`), then walks one node per step (`walk`), asks for a node and fills it
(`alloc`), sets a pointer (`link`, `unlink`), gives a node back (`free`) and
unlocks. `job` has the arguments and local pointers, `cells` what is in the
memory of each node, which stays when the node is freed and when the next list
is made. Between `list_init` and `list_cleanup`, which the main thread makes
after joining the others, the threads call any operation with values of their
own and hand on the node their last search found (`mark`). All blocks are nodes
of one size, so of the manager no more is used than first fit leaves of it:
`mem_alloc` gives the lowest spare node, or NULL. A pool of no nodes is also what
is left when `mem_init` gets no memory. Values are stored modulo `Width`, 2^16 in
the code and 4 in the runs. `list_display` is `list_display_range` from NULL to
NULL but for a newline.

`NodeList` is its abstract specification: a sequence of nodes with data; each call
looks at it or changes it at once. `ImplementsNodeList` has the refinement: the
sequence is the list as the last writer left it (`settled`), the call is the last
one that returned (`done`). A reader may return long after its walk: it answers
for the list as it is then, which is right only if no writer was let in before.
`MCLinkedList` gives it threads, their values and their numbers of calls.

`Barrier` is `my_barrier_t`: `my_barrier_init` by the main thread for the threads
of one test (`party`), `my_barrier_wait` as the steps between operations on the
mutex, `my_barrier_destroy` after joining. `pthread_cond_wait` is `arrive` (let go
of the mutex and sleep) and `wake` (get it back); `broadcast` moves all sleepers on;
`wake_spuriously` moves one without a broadcast and sets the history variable
`surprised`.

`Fragmentation` composes `Barrier` and the operators of `MemoryBlocks` into
`test_memory_fragmentation_multithread`. `start` and `finish` are the main thread;
`at` is where each of the others is in its function: even threads go round
allocate, wait, free, wait and, if they got nothing, start their next cycle without
waiting (`RoundAgain` in `allocate`); odd threads wait, allocate, free, wait. The
barrier is taken step by step, a call of the manager is one step, which is what
`CallsAreAtomic` of `ThreadedPool` says it is. `block_size` is the test's own
arithmetic with its integer division, the sizes 0 and the pool's start as their
answer included. `Begins` has the case of no cycles, in which the threads return at
once: `main` calls the test without setting its `iterations`.

`Interposer` is `cM2.c`. `myfn` holds the names of the functions found so far,
`lookups` the calls of `init` under way, with the next name each asks for;
`look_up` is one `dlsym`, `init_done` what follows the last. `initializing` has
the two static flags. `malloc` and `mmap`, which are the same code twice, are
`Serve`: pass on, start a lookup, or take a block of `tmpbuff`. While a lookup is
under way every call is one `dlsym` makes: `malloc`, `calloc`, `realloc`, `free`
and `mmap`, in any number; otherwise it is the program's, which may begin with any
of them. libc answers with a block or NULL, and its `free` and `munmap` want blocks
of its own (`BackToLibc`); libc and `dlsym` are external. `exit` and a crash are a
`fate`; a history variable, `fatal`, keeps the call that crashed and whether it was
given a block of `tmpbuff`, one of libc's or none (`Blame`). Sums of sizes wrap at
`Word`, 2^64 in the code: `FitsInBuffer` and the new `tmppos` are taken modulo
`Word`, and `calloc` asks for the product of its arguments.

`MemoryBlocksProofs`, `MemoryManagerProofs`, `ThreadedPoolProofs`,
`BlockArrayProofs`, `LinkedListProofs`, `BarrierProofs`, `FragmentationProofs` and
`InterposerProofs` hold the theorems (see below).

## The runs

| run | module | expects | what it asks |
|---|---|---|---|
| `pool` | `MemoryManager` | pass | the array's invariants, the lock's life, the refinement |
| `resize_refused` | `MemoryManager` | violation | does `mem_resize` always get its block back? |
| `threads` | `MCThreadedPool` | pass | lock discipline, ownership, contents, atomicity, termination |
| `threads_refused` | `MCThreadedPool` | pass | what survives a failed `realloc` |
| `unlocked_undo` | `MCThreadedPool` | violation | does a thread keep its block when `realloc` fails? |
| `list` | `MCLinkedList` | pass | two threads, two lists: is every call one operation on a sequence, do all return? |
| `list_full` | `MCLinkedList` | violation | do insertions survive a full pool? |
| `fragmentation` | `Fragmentation` | pass | are rounds and phases kept apart, does the test end with a whole pool? |
| `barrier_spurious` | `Barrier` | violation | the same when a wait may end unasked |
| `interposer` | `Interposer` | pass | which calls crash, does the lookup nest, does `tmpbuff` hold? |
| `lookup_crash` | `Interposer` | violation | is all that `dlsym` asks for served from `tmpbuff`? |
| `array` | `BlockArray` | pass | do the loops stay in the array and do what `MemoryBlocks` says? |

*`pool`.* Pools of 0 and 5 bytes, requests of 0 to 6 bytes (one more than the
pool), every address in the pool and NULL. Five bytes make all five-block
layouts, hence a block with both neighbours free, used or mixed, at either end
or in between, and every branch of `mem_resize`. There is no bound on the number
of calls: the state space is finite and explored completely. Properties:
`PoolTiled`, `NoAdjacentFree`, `SearchesAgree`, `LockMatchesPool`,
`ImplementsPoolAllocator`.

*`threads`.* Two threads with two slots each, three and two calls, a pool of
four bytes, blocks of one and two. That is enough for each way through
`mem_resize` while the other thread is at any point of a call: growing to the
right, over a free left neighbour, elsewhere, shrinking, failing.
`LockCountsNesting` is mutual exclusion together with the count of the recursive
lock; `OwnersKeepBlocks` and `NoBlockLost` relate the array to what threads
hold; `ContentIntact` is the tests' `sanityCheck`; `CallsAreAtomic` says that
each time the lock becomes free one whole call of `MemoryManager` was made;
`EveryCallReturns` is liveness. A failing `realloc` is left out of this run because
it breaks `LockCountsNesting` and `OwnersKeepBlocks`, as `unlocked_undo` shows, and
so are requests of 0 bytes: `mem_alloc(0)` answers with the start of the pool, which
is somebody's block, and with 0 among the sizes two threads soon write to the same
bytes, against `ContentIntact`.

*`threads_refused`.* The same threads and calls with a pool of five bytes,
enough for one thread's `realloc` to fail while the other's joins and splits
leave fewer entries than there were, so that the index kept for `alloc_undo` is
behind the last. It has what still holds there: the tiling, and that nobody is
stuck, as the early and the doubled unlock only ever let go of too much.

*`list`.* A pool of three nodes or none, two lists in turn, three calls of one thread and two of the other
over both lists: one can build a list of two or three and search while the other inserts into it,
deletes from it or walks it, at any step of either; the pool fills up, and a node
that was freed is handed out again. The first thread has the values 1 and 5, which
share their two low bits, so 5 is stored but never found. `LockMatchesCalls` is
mutual exclusion of readers and writers together with each call having exactly the
lock it took; `NoNodeLost` compares the pool with what can be reached from the
head; `PointersStayOnList` says that walks, and pointers kept from a search, never
lead to a freed node. The last one, and with it the refinement, rests on what the
tests do: no thread deletes another's values, and a thread does not use a node
after deleting its value (`UniqueValues`, `CallDelete`).

Calls may be split between the two lists in any way: what is in memory from the
first must not show in the second, and no call may come upon the lock that
`list_cleanup` has destroyed (`LockIsReady`).

*`fragmentation`.* Any first one, two or three threads, two cycles each, which is
four rounds of the barrier, one test after another. Four rounds let a thread be
in the next round while others are asleep in, or on their way out of, the last,
and the second cycle meets the array the first has left. The pools have 2 bytes,
where all sizes are 0, and 19, where three threads get blocks of 2, 4 and 6 with
7 to spare. `PhasesKeptApart` is the test's "Wait until
fragmentation is created"; `NobodySkipsBarrier` compares how often each thread has
come to the barrier with the cycles it has made, and fails if the blocks of the even
threads do not fit together; `PoolIsWholeAgain` holds after a surprise too.

*`array`.* A pool of six bytes and blocks of 1, 2, 3 and 6: all layouts of up to six
entries, exact fits and splits at either end and in the middle, joins to both sides.
The state space is explored completely, and deadlock is checked: no call stops half
way through its loops.

*`interposer`.* A `tmpbuff` of 3 bytes and requests of 0, 1 and 2, one place in
libc's memory; libc may lack `calloc` or `munmap`, which ends the process after the
lookup. Blocks of no bytes share an address with the next, 3 is the first size that
does not fit (the code's `<` leaves the last byte unused), and the bound on the
buffer is what bounds the lookup: `dlsym` may make any number of calls in it.
The process may begin with any call. `calloc` is for one or two of a size; a word
has 8 values, so that no request of this run wraps (`NothingWraps`, which the code
does not ensure: see "Not modelled" and the hazards). `OnlyTheseCallsCrash` is the
whole list of calls that go through a null pointer or hand libc a block of
`tmpbuff`; the file itself excuses only the first of them ("something wrong if we
call free before one of the allocators!").

*Findings.* `resize_refused`: `mem_resize` frees its block, `mem_alloc` cannot
lengthen the array, and `memmove` is called with NULL. `unlocked_undo`: thread 1
marks a block and its `realloc` fails, which lets go of the lock; thread 2
splits a block further left; thread 1 then clears `isUsed` at its old index,
which is thread 2's block.

`list_full`: three insertions fill the pool, and `list_insert_before` the head
writes through NULL. `barrier_spurious`: one thread comes, is woken unasked
and leaves; the other has not come. `lookup_crash`: the program calls `mmap`, `init`
finds `malloc`, and the `calloc` that `dlsym` makes before `calloc` is found goes
through NULL, as `calloc` only asks whether `malloc` is known. `realloc` has the same
gap.

Deadlock is checked in `array` only: in the others threads stop when they have
made their calls (`EveryCallReturns` says they all get there), a list is made no more
than `Rounds` times, and a crash or `exit` is the end. At the barrier a thread
that was woken unasked can be counted twice and leave another asleep with nobody
left to come; `EveryTestEnds` says it does not happen otherwise.

*Fairness.* `FairSpec` has weak fairness for each thread: the scheduler lets a
thread run that can. POSIX mutexes need not be fair, so none is assumed of the
lock: each thread makes finitely many calls (as in the tests), so the lock is
taken finitely often and a waiting thread is in the end the only one that wants
it. The same is assumed of the list's threads inside a call (nobody has to make
one; readers may pass a waiting writer as long as they have calls left) and of the
threads of the fragmentation test, each of which runs on to its last round, and of
the main thread, which joins them.

## The proofs

For every pool size, every set of sizes and addresses, `MemoryManagerProofs`
proves `TypeOK`, `PoolTiled`, `NoAdjacentFree`, `SearchesAgree` and
`LockMatchesPool` invariant. The assumptions are those of the module: sizes and
addresses are naturals and NULL is not an integer.

None of the invariants about the array is inductive alone: that no neighbours are free after
`mem_free` needs it before, `Available` is right only for a coalesced array, and
a gapless array stays gapless only if sizes are what the starts say. The
inductive invariant is

    IInv == TypeOK /\ ArraySound /\ LockMatchesPool

where `ArraySound` says that while there is a pool the array is `WellFormed`:
typed, tiling the pool, coalesced, and without empty blocks unless the pool is
empty. `SearchesAgree` follows from it: starts strictly increase when no block
is empty.

`MemoryBlocksProofs` has the lemmas, one per operator: `CarveWellFormed`,
`AfterFreeWellFormed`, `GrowRightWellFormed` say that a well-formed array stays
so. They rest on what `InsertAt` and `RemoveAt` do to each position and on
`AbsorbLayout`: joining two neighbours keeps the tiling. Between the unmarking
and the joining in `mem_free` the array is well formed except around one
position, which `CoalescedBut` says.

The proof that a step keeps `IInv` has one step per call; `mem_resize` has one
per branch, those through `mem_free` and `mem_alloc` composing the lemmas.

With this invariant `ManagerRefinesAllocator` says that the manager implements
`PoolAllocator` (`ImplementsPoolAllocator`): the live blocks are the used ones.
`FirstFitIsLowestPlace` says that the first free block that is large enough starts
at the lowest address with as much room between live blocks. It needs the array
coalesced: a place that reached over two free blocks would be found by the
abstract allocator and by no search. `AvailableIsRoom` and `FreeingOpensNoPlace` are
about `mem_resize`, which decides by what it calls available, while it still has the
block, what the abstract pool decides by looking at the places without the block: they
come to the same. Where the argument goes along the array it picks the least position
with a property (`LeastNumber`) instead of an induction.

`ThreadedPoolProofs` proves `PoolTiled` of `ThreadedPool` for any number of threads,
slots, calls and bytes, also when `realloc` fails (`PoolTiledUnderThreads`). Then the
lock excludes nobody and a free block may have a free neighbour, so the invariant,
`TiledInv`, asks less than the others: the array is a `Layout`, tiling the pool without
an empty block, whatever is marked as used. That each body keeps it has lemmas of its
own, one per operator (`CarveLayout`, `AfterFreeLayout`, `GrowRightLayout`). They mark
the blocks that the operator does not touch as used, which makes the array well formed,
and take the result of the lemma about well-formed arrays back, as the marks change no
size.

The other theorems of the module assume that `realloc` does not fail
(`ReallocMayFail = FALSE`): without it `LockCountsNesting` is false, as the early
unlock leaves the lock to others in the middle of a call. Their inductive invariant is

    IInv == TypeOK /\ (\A t \in Threads : JobFits(t) /\ CopyFits(t))
              /\ LockCountsNesting /\ WellFormed(memoryBlocks, PoolSize)

`JobFits` says at which labels a thread may be in which call (the bodies of
`mem_alloc` and `mem_free` also run inside `mem_resize`), without which the count
of the lock does not follow from the label. `CopyFits` says that the bytes
`memmove` will copy lie in the pool: `resize_body` measures the block, two calls
later `resize_move` relies on it. The lemmas `LockTaken`, `LockGiven` and
`LockUntouched` are the three things a step does to the lock; `OneThreadMoves`
puts the next state together from what the moving thread does, as the labels and
calls of the others stay.

Who has which block is `BlocksHaveOneOwner`. A thread claims the blocks in its slots
and, inside a call, the one it passed until that is freed and the one it is to get
(`Claims`); the invariant says that each used block of the array is claimed exactly
once and nothing else is (`Accounts`). A body moves, gains or loses one claim
(`HandsOver`, `Gains`, `Loses`, `Exchanges`). `SlotsHoldTheirBlocks`
(`OwnersKeepBlocks`) and `EveryBlockAccountedFor` (`NoBlockLost`) follow. These assume,
besides, that nobody asks for 0 bytes (`0 \notin Sizes`): `mem_alloc(0)` answers with
the start of the pool, a block that may be somebody's.

`BytesSurvive` (`ContentIntact`) rests on the owners: a thread writes only into bytes
it owns. `mem_resize` is the exception, as it frees the block it is about to copy
from. `FreedIsFree` has what saves it: from `mem_free` to `memmove` the lock is held,
so the freed bytes are in no block but the one the same call gets.

`OperationsAreAtomic` (`CallsAreAtomic`) needs no assumption on sizes. Its invariant
`AtomInv` says of the thread that has the lock what it has done so far (`SoFar`) to
the array it found (`settled`): nothing yet; the whole of `mem_alloc` or `mem_free`;
in `mem_resize` the chosen branch, and of that the freeing, or the freeing and the
allocation. When the last unlock comes this is one call of `MemoryManager`, with the
answer the thread has. `BlockGotBack` is the code's "We know that the mem_alloc will
work": after freeing, the room that was measured before is found.

`LinkedListProofs` proves all the safety properties of `LinkedList`, the refinement among
them, for any number of threads, calls and lists and pools of any size. The types come first.
`TypeOK` includes that pointers are NULL or nodes of the pool. Following one needs more,
which `JobFits` adds: at which labels a call can be, that `list_insert_after` and
`list_insert_before` have a node once they wait for the lock, and that what
`unlink` and `free` work on was found. `LockUntouched` and
`StepInside` are for the steps between lock and unlock, `EnterLeads` for the two
that take it. `LockIsReady` has an invariant of its own, `LockInv`: a call runs only
while there is a list, and while there is a list there is a lock.

For `NoNodeLost` and `PointersStayOnList` the list is a sequence: `IsPath(s, head, cells)`
says that the pointers from the head on pass each node of `s` once and then end, and
`PathIsChain` that `Chain` is that sequence, however it counts. Setting one pointer
makes a path one node longer or shorter (`PathLengthened`, `PathShortened`). The
invariant `ListInv` adds what each thread knows of the path. `Marked` is about the
pointer it keeps from a search: the node is on the list and has a value only this
thread deletes, which is where the assumption `UniqueValues` comes in. `Placed` is about
a call in progress: the node before which a walk is to end is `Ahead`, what is about to be
unlinked is where `at` `PointsTo`, a node about to be linked points to what follows. And
the nodes handed out are those of the path and those `Away`, which only a writing call has.
Steps that leave the path alone (`ListStays`) keep this because nothing it speaks of
changes, and steps that change it (`WriterMoves`) because all others are then outside
their locks and know only their marks.

`ListRefinesNodeList` says that the calls do what `NodeList` promises. Its invariant,
`KnownInv`, adds to `ListInv` what ties the list in memory to `settled`. Unless a writing
call has changed the list and not returned yet (`NothingNew`), `settled` is the list with
the data of its nodes. `Walked` is what a walk has behind it: no node with the value that
is looked for, or exactly the data counted and printed so far. `Answered` is, when only
the unlock is left, what the call has done to `settled` and what it has to answer; it
speaks of the list in memory, so that for a writing call the unlock makes it a step of
`NodeList`. Readers stay in touch with `settled` because nobody else can have changed
the list while they are in it (`NothingNewYet`).

`BarrierProofs` proves `TypeOK`, `CountsSleepers` and `RoundsDoNotMix` for any
number of threads and rounds. "Nobody leaves early" is not inductive; the reason it
holds is that a round ends for everybody in one step. `Passed(t)` counts the rounds
over for `t`, those it has left and the one it has been woken from; the invariant is

    IInv == TypeOK /\ OnlyParty /\ Balanced /\ PartyCounted
              /\ (~surprised => Together /\ count = Cardinality(Asleep))

with `Together` saying that all of the party have passed equally many rounds. The
step that matters is the last arrival: `LastFindsAllAsleep` shows by counting that
everybody else is asleep, so that the broadcast takes all of them on.

`BlockArrayProofs` proves `InBounds` for every pool and all sizes. What is in the
entries does not matter for it, only where the loops begin and end: `LoopFits` says
that a shift to the right starts behind a block whose right neighbour has just been
added, and that a shift to the left stays between a block that is kept and the last
entry, so that this block is still in the array when the last entry is dropped and
`join_right` looks at it. For `LoopsReachGoal` (`LoopsDoTheirWork`) it does matter:
`ArrayInv` says in the middle of each loop which entries are moved already and which
are not (`MakesRoom`, `ClosesGap`), in terms of the sequence the call is to leave, so
that the entries are that sequence when the loop ends. This is what allows the other
modules to take a loop for one `InsertAt` or `RemoveAt`.

`FragmentationProofs` proves that the fragmentation test implements `Barrier`
(`TestFollowsBarrier`): each of its steps is one of the barrier's or leaves the
barrier alone, and it waits and destroys only when the barrier allows it. With the
theorem about `Barrier` rounds stay apart in the test, for any number of threads.
The test's own claims have the invariant `TestInv`: the blocks are those the threads
hold, and as long as nobody is woken unasked each thread has come to the barrier as
often as its cycles and its place in the loop say (`KeepsPace`), and in the rounds in
which even threads allocate the pool fills up from the left without holes
(`FillsInEvenRounds`). The last gives `EverybodyKeepsPace`: with blocks of at most three
units, and the unit the pool's size over three times the number of threads, there is
room for one more block as long as a thread is without, so the test's division is right
for any number of threads. `PoolIsWholeAgain` and the types do not depend on it and hold
after a surprise too.

`InterposerProofs` proves all four properties of `Interposer` for any size of `tmpbuff`,
all requests and any set of functions libc lacks. The invariant has a flag set exactly
while a lookup of its function is under way (`LookupsTracked`), all blocks of `tmpbuff`
before `tmppos` and apart (`BufferSound`), that outside a lookup either nothing is
known and nothing handed out, or everything is known (`KnownOrNot`), and which calls may
have crashed (`CrashSound`). `TypeCorrect` and `LookupsNest` need no assumption.
`TempBlocksStayApart` and `OnlyListedCallsCrash` assume `NothingWraps`, that no request,
product of `calloc`'s included, reaches `Word` together with the buffer: of the 2^64
sizes this excludes the last 1023. Without it they are false: after a block of 2 bytes a
request for `Word - 1` is taken for one that fits, ends outside `tmpbuff` and moves
`tmppos` back to 1, inside the first block.

Only model-checked: liveness (`EveryCallReturns`, `EveryTestEnds`), as fairness is out of
the prover's reach.

## Not modelled

* `print_memory_blocks`, which reads the array without the lock and prints it.
* `mem_init` and `mem_deinit` while other threads are in a call.
* Sizes have no width: every sum the manager forms is a sum of sizes of distinct
  blocks of one pool. A request may be any number.
* `list_cleanup` of an empty list returns before `pthread_rwlock_destroy`, against
  the header ("destroyed in list_cleanup"), and the next `list_init` initialises the
  lock again. `LinkedList` has it so, as `rwlock` shows, and `LockIsReady` says that no
  call suffers from it; what a C library does when a lock is initialised twice is not
  modelled.
* Two lists at a time, `list_init` or `list_cleanup` while others are in a call, and
  a `realloc` that fails under the list: there the list only sees NULL, as from a
  full pool, and the manager's own failure is in `threads_refused`.
* Values outside the list's own threads: a thread that deletes what another holds a
  pointer to makes that pointer stale, as the interface has no way to tell it.
* In the interposer: what is printed, and that a first `fprintf` to stdout may itself
  call `malloc` for its buffer. After the lookup that is a call like any other; during
  it (`free` of a block of `tmpbuff`, or a full `tmpbuff`) the buffer would have to come
  from `tmpbuff`, and if it does not fit `malloc` prints again, without end, where the
  model says the process exits. Nor: a `dlsym` that calls
  `memalign` or `munmap`; a second thread during the lookup, which would get a block
  of `tmpbuff` too. Sums that wrap are in the module, but the run and two of the
  theorems are about requests that do not (`NothingWraps`).
* In `ThreadedPool`: another thread's step in the middle of a body after the lock was
  let go too early, hence an array torn by two loops at once; requests of 0 bytes are in
  the module but in none of its runs.
* The other tests of the manager and the list as programs of their own: their calls,
  in any order, are those of the threads in `ThreadedPool` and `LinkedList`. The sweeps
  over parameters and the measuring have no state of interest.
* Coloured printing, `my_assert`, which only prints, and the build.

## Plan

Modelled and, but for liveness, proved: the manager, alone and under threads, with its
array in memory; the list; the barrier and a test that uses it; the interposer. What is
left is the writes of two threads to the array at once after a failed `realloc`, which
needs the loops of `BlockArray` under the threads of `ThreadedPool`.

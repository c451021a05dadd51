---------------------------- MODULE PoolAllocator ----------------------------
(***************************************************************************)
(* What a caller of memory_manager.c may rely on, without the block array: *)
(* the pool is a range of bytes 0 .. pool - 1, "live" gives the length of  *)
(* every block that is handed out, and a request is served at the lowest   *)
(* address at which it fits between the live blocks.  MemoryManager        *)
(* implements this specification.                                          *)
(***************************************************************************)
EXTENDS Integers

CONSTANTS PoolSizes,   \* the sizes mem_init is called with
          Sizes,       \* the sizes mem_alloc and mem_resize are called with
          Addrs,       \* the addresses callers pass, as offsets
          NULL

VARIABLES pool,     \* the size of the pool, or NULL when there is none
          live,     \* the length of each live block, by its address
          crashed,  \* the process has died inside a call
          call      \* the last call: its arguments and what it did

vars == <<pool, live, crashed, call>>

(* "heap" tells whether the C heap refused a request of the manager's own  *)
(* during the call; "moved" is how many bytes were copied to "ret".    *)
Did(op, p, size, ret, moved, heap) ==
  call' = [op |-> op, ptr |-> p, size |-> size,
           ret |-> ret, moved |-> moved, heap |-> heap]

(* The addresses of the bytes of a block. *)
Bytes(a, size) == a .. a + size - 1

FitsAt(blocks, a, size) ==
  /\ a + size <= pool
  /\ \A b \in DOMAIN blocks : Bytes(a, size) \cap Bytes(b, blocks[b]) = {}

Places(blocks, size) ==
  IF pool = NULL THEN {} ELSE {a \in 0 .. pool : FitsAt(blocks, a, size)}

LowestPlace(blocks, size) ==
  {a \in Places(blocks, size) : \A b \in Places(blocks, size) : a <= b}

Without(blocks, p) == [a \in DOMAIN blocks \ {p} |-> blocks[a]]

With(blocks, p, size) ==
  [a \in DOMAIN blocks \cup {p} |-> IF a = p THEN size ELSE blocks[a]]

Start == IF pool = NULL THEN NULL ELSE 0

-----------------------------------------------------------------------------
Init ==
  /\ pool = NULL
  /\ live = [a \in {} |-> 0]
  /\ crashed = FALSE
  /\ call = [op |-> "start", ptr |-> NULL, size |-> 0,
             ret |-> NULL, moved |-> 0, heap |-> "granted"]

(* A new pool replaces the old one and everything in it. *)
Open(size) ==
  /\ live' = [a \in {} |-> 0]
  /\ \/ pool' = size /\ crashed' = FALSE /\ Did("mem_init", NULL, size, NULL, 0, "granted")
     \/ pool' = NULL /\ crashed' = FALSE /\ Did("mem_init", NULL, size, NULL, 0, "refused")
     \/ pool' = size /\ crashed' = TRUE  /\ Did("mem_init", NULL, size, NULL, 0, "refused")

Close ==
  /\ pool' = NULL /\ live' = [a \in {} |-> 0]
  /\ Did("mem_deinit", NULL, 0, NULL, 0, "granted") /\ UNCHANGED crashed

(* NULL is returned exactly when nothing fits, unless the heap refused; a  *)
(* request for no bytes gets the start of the pool, whoever lives there.   *)
Alloc(size) ==
  /\ UNCHANGED <<pool, crashed>>
  /\ \/ /\ size = 0 /\ UNCHANGED live
        /\ Did("mem_alloc", NULL, size, Start, 0, "granted")
     \/ /\ size > 0
        /\ \E a \in LowestPlace(live, size) :
              /\ live' = With(live, a, size)
              /\ Did("mem_alloc", NULL, size, a, 0, "granted")
     \/ /\ size > 0 /\ Places(live, size) = {} /\ UNCHANGED live
        /\ Did("mem_alloc", NULL, size, NULL, 0, "granted")
     \/ /\ size > 0 /\ Places(live, size) # {} /\ UNCHANGED live
        /\ Did("mem_alloc", NULL, size, NULL, 0, "refused")

(* Freeing what is not live does nothing. *)
Free(p) ==
  /\ live' = Without(live, p)
  /\ Did("mem_free", p, 0, NULL, 0, "granted")
  /\ UNCHANGED <<pool, crashed>>

-----------------------------------------------------------------------------
(* Resizing a live block. *)
GrowsInPlace(p, size) ==
  size > live[p] /\ FitsAt(Without(live, p), p, size)

(* The old bytes go along, as many of them as the new block can hold. *)
Carried(p, size, a) ==
  IF a = p THEN 0 ELSE IF size < live[p] THEN size ELSE live[p]

Relocate(p, size) ==
  \/ \E a \in LowestPlace(Without(live, p), size) :
        /\ live' = With(Without(live, p), a, size)
        /\ Did("mem_resize", p, size, a, Carried(p, size, a), "granted")
        /\ UNCHANGED crashed
  \/ /\ Places(Without(live, p), size) = {}
     /\ Did("mem_resize", p, size, NULL, 0, "granted")
     /\ UNCHANGED <<live, crashed>>
  (* The heap refused: either nothing happened, or the process is gone. *)
  \/ /\ Did("mem_resize", p, size, NULL, 0, "refused")
     /\ \/ UNCHANGED <<live, crashed>>
        \/ crashed' = TRUE /\ live' = Without(live, p)

ResizeLive(p, size) ==
  \/ /\ size = live[p]
     /\ Did("mem_resize", p, size, p, 0, "granted") /\ UNCHANGED <<live, crashed>>
  \/ /\ size = 0 /\ live' = Without(live, p)
     /\ Did("mem_resize", p, size, Start, 0, "granted") /\ UNCHANGED crashed
  \/ /\ GrowsInPlace(p, size) /\ live' = With(live, p, size)
     /\ Did("mem_resize", p, size, p, 0, "granted") /\ UNCHANGED crashed
  \/ /\ size \notin {0, live[p]} /\ ~GrowsInPlace(p, size)
     /\ Relocate(p, size)

(* An address that is not live: no live block is disturbed, and at most one *)
(* block appears, the one the call answers with.                            *)
ResizeStray(p, size) ==
  \/ /\ \E ret \in {NULL, p, Start} : Did("mem_resize", p, size, ret, 0, "granted")
     /\ UNCHANGED <<live, crashed>>
  \/ /\ \E a \in LowestPlace(live, size) :
           /\ live' = With(live, a, size)
           /\ \E moved \in 0 .. pool : Did("mem_resize", p, size, a, moved, "granted")
     /\ size > 0 /\ UNCHANGED crashed
  \/ /\ Did("mem_resize", p, size, NULL, 0, "refused")
     /\ crashed' \in BOOLEAN /\ UNCHANGED live

Resize(p, size) ==
  /\ UNCHANGED pool
  /\ \/ p \in DOMAIN live /\ ResizeLive(p, size)
     \/ p \notin DOMAIN live /\ ResizeStray(p, size)

-----------------------------------------------------------------------------
Next ==
  /\ ~crashed
  /\ \/ \E size \in PoolSizes : Open(size)
     \/ Close
     \/ \E size \in Sizes : Alloc(size) \/ \E p \in Addrs \cup {NULL} : Resize(p, size)
     \/ \E p \in Addrs \cup {NULL} : Free(p)

Spec == Init /\ [][Next]_vars
=============================================================================

----------------------------- MODULE Interposer -----------------------------
(***************************************************************************)
(* cM2.c: malloc, free, calloc, realloc, memalign, mmap and munmap, put in *)
(* front of libc's own.  The first malloc or mmap asks dlsym for the       *)
(* functions of libc, one after another, and dlsym may call malloc, calloc,*)
(* realloc, free and mmap before it answers: these calls are served from   *)
(* tmpbuff.  While a lookup is under way every call is one of dlsym's,     *)
(* otherwise it is the program's.  Sizes are unsigned longs: their sums and *)
(* products wrap.  What is printed is left out.                            *)
(***************************************************************************)
EXTENDS Integers, SequencesExt

CONSTANTS BufferSize,   \* sizeof(tmpbuff)
          Word,         \* how many values an unsigned long has
          Sizes,        \* the sizes asked for
          Counts,       \* the nmemb of calloc
          Places,       \* where libc has room for a block
          Absent,       \* functions libc may lack
          NULL

ASSUME InterposerAssumption ==
  /\ BufferSize \in Nat \ {0} /\ Word \in Nat \ {0}
  /\ Sizes \subseteq 0 .. Word - 1 /\ Counts \subseteq 0 .. Word - 1
  /\ Places \subseteq Nat

VARIABLES libc,          \* the functions dlsym can find
          myfn,          \* those whose myfn_ pointer is set
          initializing,  \* the functions whose "initializing" is 1
          lookups,       \* the calls of init under way, the innermost last
          tmppos,
          live,          \* the blocks that are handed out
          fate,          \* whether the process goes on
          fatal,         \* history: the call that crashed
          copied         \* history: the last byte of tmpbuff memmove has read

vars == <<libc, myfn, initializing, lookups, tmppos, live, fate, fatal, copied>>

(* In the order in which init asks for them. *)
Names == <<"malloc", "free", "calloc", "realloc", "memalign", "mmap", "munmap">>
Interposed == {Names[i] : i \in DOMAIN Names}

(* A block: which function gave it out, from where, and the bytes that were *)
(* asked for, of which those in libc's memory are of no interest here.      *)
Memory(of, from, at, size) == [of |-> of, from |-> from, at |-> at, size |-> size]

(* A call by its name and the block it was given. *)
Source(block) == IF block = NULL THEN "nothing" ELSE block.from
Done(op, block) == [op |-> op, given |-> Source(block)]

TypeOK ==
  /\ libc \subseteq Interposed /\ myfn \subseteq libc
  /\ initializing \subseteq {"malloc", "mmap"}
  /\ lookups \in Seq([by : {"malloc", "mmap"}, next : 1 .. Len(Names) + 1])
  /\ tmppos \in 0 .. BufferSize - 1
  /\ live \subseteq [of : {"malloc", "mmap"}, from : {"temp", "libc"}, at : Nat, size : Nat]
  /\ fate \in {"running", "exit", "crash"}
  /\ fatal \in [op : Interposed \cup {"none"}, given : {"nothing", "temp", "libc"}]
  /\ copied \in Nat

Init ==
  /\ libc \in {Interposed \ a : a \in SUBSET Absent}
  /\ myfn = {} /\ initializing = {} /\ lookups = <<>>
  /\ tmppos = 0 /\ live = {}
  /\ fate = "running" /\ fatal = Done("none", NULL) /\ copied = 0

-----------------------------------------------------------------------------
AllFound == Interposed \subseteq myfn

(* A crash ends the process in the middle of a call. *)
Blame(op, block) == fatal' = IF fate' = "crash" THEN Done(op, block) ELSE fatal

(* libc answers: with a new block or with NULL.  A call through a null      *)
(* pointer, or one that hands libc a block it never gave out, is fatal.     *)
TakenPlaces == {b.at : b \in {c \in live : c.from = "libc"}}

NewFromLibc(f, of) ==
  \/ /\ f \in myfn
     /\ \/ \E a \in Places \ TakenPlaces :
              /\ \A c \in Places \ TakenPlaces : a <= c
              /\ live' = live \cup {Memory(of, "libc", a, 0)}
        \/ UNCHANGED live
     /\ UNCHANGED fate
  \/ f \notin myfn /\ fate' = "crash" /\ UNCHANGED live

BackToLibc(f, block) ==
  IF f \in myfn /\ (block = NULL \/ block \in {b \in live : b.from = "libc"})
  THEN live' = live \ {block} /\ UNCHANGED fate
  ELSE fate' = "crash" /\ UNCHANGED live

(* Mutation of FitsInBuffer: the buffer may be filled to its last byte. *)
FitsInBufferExactly(size) == (tmppos + size) % Word <= BufferSize

FitsInBuffer(size) == (tmppos + size) % Word < BufferSize

(* A block of tmpbuff, in exchange for the one realloc was given.  calloc's *)
(* product has wrapped before: the sum comes to the same.                   *)
NewFromBuffer(of, size, old) ==
  /\ IF FitsInBuffer(size)
     THEN /\ live' = (live \ {old}) \cup {Memory(of, "temp", tmppos, size)}
          /\ tmppos' = (tmppos + size) % Word
          /\ copied' = IF old = NULL THEN copied ELSE old.at + size
          /\ UNCHANGED fate
     ELSE fate' = "exit" /\ UNCHANGED <<live, tmppos, copied>>
  /\ UNCHANGED <<initializing, lookups>>

(* Mutation of MustLookUp: the flag is not looked at. *)
MustLookUpAgain(f) == f \notin myfn

MustLookUp(f) == f \notin myfn /\ f \notin initializing

(* malloc and mmap do the same thing, each with its own "initializing".     *)
(* Only a call that has no old block to copy can come before the lookup.    *)
Serve(f, size, old) ==
  \/ /\ f \in myfn
     /\ NewFromLibc(f, f)
     /\ UNCHANGED <<initializing, lookups, tmppos, copied>>
  \/ /\ MustLookUp(f)
     /\ initializing' = initializing \cup {f}
     /\ lookups' = Append(lookups, [by |-> f, next |-> 1])
     /\ UNCHANGED <<tmppos, live, fate, copied>>
  \/ /\ f \notin myfn /\ ~MustLookUp(f)
     /\ NewFromBuffer(f, size, old)

-----------------------------------------------------------------------------
(* init: the next function is asked for ... *)
look_up ==
  LET top == lookups[Len(lookups)]
  IN  /\ lookups # <<>> /\ top.next <= Len(Names)
      /\ myfn' = myfn \cup ({Names[top.next]} \cap libc)
      /\ lookups' = [lookups EXCEPT ![Len(lookups)].next = @ + 1]
      /\ UNCHANGED <<libc, initializing, tmppos, live, fate, fatal, copied>>

(* ... and with all of them found the call that started it gets its block. *)
init_done ==
  LET top == lookups[Len(lookups)]
  IN  /\ lookups # <<>> /\ top.next > Len(Names)
      /\ initializing' = initializing \ {top.by}
      /\ lookups' = Front(lookups)
      /\ \/ AllFound /\ NewFromLibc(top.by, top.by)
         \/ ~AllFound /\ fate' = "exit" /\ UNCHANGED live
      /\ UNCHANGED <<libc, myfn, tmppos, fatal, copied>>

malloc(size) == Serve("malloc", size, NULL)

mmap(length) == Serve("mmap", length, NULL)

calloc(nmemb, size) ==
  \/ "malloc" \notin myfn /\ malloc(nmemb * size)
  \/ /\ "malloc" \in myfn /\ NewFromLibc("calloc", "malloc")
     /\ UNCHANGED <<initializing, lookups, tmppos, copied>>

(* Before malloc is known the block is exchanged for a new one, into which   *)
(* as many bytes are copied as the new one has.  libc's realloc keeps the    *)
(* block where it is.                                                        *)
realloc(block, size) ==
  \/ "malloc" \notin myfn /\ Serve("malloc", size, block)
  \/ /\ "malloc" \in myfn
     /\ IF block = NULL THEN NewFromLibc("realloc", "malloc")
        ELSE /\ fate' = IF "realloc" \in myfn /\ block.from = "libc" THEN fate ELSE "crash"
             /\ UNCHANGED live
     /\ UNCHANGED <<initializing, lookups, tmppos, copied>>

memalign ==
  /\ NewFromLibc("memalign", "malloc")
  /\ UNCHANGED <<initializing, lookups, tmppos, copied>>

(* Mutation of InBuffer: the end of the part in use is left out. *)
InBufferStrictly(block) == block.from = "temp" /\ block.at < tmppos

InBuffer(block) == block.from = "temp" /\ block.at <= tmppos

(* Blocks of tmpbuff are never used again. *)
free(block) ==
  /\ IF block # NULL /\ InBuffer(block)
     THEN live' = live \ {block} /\ UNCHANGED fate
     ELSE BackToLibc("free", block)
  /\ UNCHANGED <<initializing, lookups, tmppos, copied>>

munmap(block) ==
  /\ BackToLibc("munmap", block)
  /\ UNCHANGED <<initializing, lookups, tmppos, copied>>

-----------------------------------------------------------------------------
Given(f) == {b \in live : b.of = f}

(* What anybody calls: a block in an argument is one that is handed out. *)
Call ==
  /\ lookups # <<>> => lookups[Len(lookups)].next <= Len(Names)
  /\ \/ \E size \in Sizes :
           \/ malloc(size) /\ Blame("malloc", NULL)
           \/ \E nmemb \in Counts : calloc(nmemb, size) /\ Blame("calloc", NULL)
           \/ mmap(size) /\ Blame("mmap", NULL)
           \/ \E b \in Given("malloc") \cup {NULL} : realloc(b, size) /\ Blame("realloc", b)
     \/ \E b \in Given("malloc") \cup {NULL} : free(b) /\ Blame("free", b)
     \/ lookups = <<>> /\ memalign /\ Blame("memalign", NULL)
     \/ \E b \in Given("mmap") : lookups = <<>> /\ munmap(b) /\ Blame("munmap", b)
  /\ UNCHANGED <<libc, myfn>>

Next == fate = "running" /\ (Call \/ look_up \/ init_done)

Spec == Init /\ [][Next]_vars

-----------------------------------------------------------------------------
(* Whichever of the functions comes first, and whatever dlsym calls before  *)
(* it answers, only three kinds of call can be fatal as long as no size     *)
(* wraps (NothingWraps, below): free of no block, or                        *)
(* memalign, when malloc is not known yet; a calloc, realloc or free of     *)
(* dlsym's between the moments malloc and that function are found; and      *)
(* realloc or munmap of a block of tmpbuff afterwards.  The program's own   *)
(* calls never meet a null pointer once anything is known, and libc's free  *)
(* never gets a block of tmpbuff.                                           *)
OnlyTheseCallsCrash ==
  fate = "crash" =>
    \/ fatal.op \in {"free", "memalign"} /\ fatal.given = "nothing" /\ "malloc" \notin myfn
    \/ /\ fatal.op \in {"calloc", "realloc", "free"} /\ fatal.op \notin myfn
       /\ "malloc" \in myfn /\ lookups # <<>>
    \/ fatal.op \in {"realloc", "munmap"} /\ fatal.given = "temp" /\ "malloc" \in myfn

(* "allocated %lu bytes of temp memory in %lu chunks during initialization":  *)
(* what dlsym asks for is served from tmpbuff, and goes to no function that   *)
(* is not known yet.                                                          *)
LookupIsServed ==
  fate = "crash" /\ lookups # <<>> => fatal.op \notin {"malloc", "calloc", "realloc", "mmap"}

(* The calls dlsym makes do not look up the functions in their turn, but for *)
(* a malloc inside the lookup of mmap or an mmap inside that of malloc.      *)
LookupNestsOnce ==
  \A i, j \in DOMAIN lookups : lookups[i].by = lookups[j].by => i = j

(* What is asked for, also by calloc, is not so large that its sum with     *)
(* tmppos wraps.                                                            *)
Requests == Sizes \cup {nmemb * size : nmemb \in Counts, size \in Sizes}

NothingWraps == \A size \in Requests : size + BufferSize <= Word

Bytes(b) == b.at .. b.at + b.size - 1

(* Every block of tmpbuff starts inside it, also one of no bytes, no byte is *)
(* in two blocks, and realloc, which copies the new length, does not read    *)
(* beyond its end ("too much memory requested" ends the process).  It takes  *)
(* NothingWraps: a sum that wraps passes the test of malloc and mmap.        *)
TempBlocksApart ==
  LET temp == {b \in live : b.from = "temp"}
  IN  /\ \A b \in temp : b.at < BufferSize /\ Bytes(b) \subseteq 0 .. BufferSize - 1
      /\ \A b, c \in temp : b # c => Bytes(b) \cap Bytes(c) = {}
      /\ copied <= BufferSize
=============================================================================

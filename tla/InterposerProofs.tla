-------------------------- MODULE InterposerProofs --------------------------
(***************************************************************************)
(* What holds of cM2.c while its own lookup calls it: for every size of    *)
(* tmpbuff, all sizes asked for and whatever functions libc lacks.  Where   *)
(* sums of sizes may not wrap, a theorem says so.                           *)
(***************************************************************************)
EXTENDS Interposer, SequenceTheorems, TLAPS

(* A flag is set exactly while a lookup it belongs to is under way. *)
LookupsTracked ==
  /\ \A i \in DOMAIN lookups : lookups[i].by \in initializing
  /\ \A f \in initializing : \E i \in DOMAIN lookups : lookups[i].by = f
  /\ LookupNestsOnce

(* As long as no size wraps, tmppos is behind all blocks of tmpbuff that are *)
(* handed out, and of them libc's free gets none.                           *)
Temp == {b \in live : b.from = "temp"}

BufferSound == NothingWraps =>
  /\ \A b \in Temp : b.at + b.size <= tmppos
  /\ \A b, c \in Temp : b # c => Bytes(b) \cap Bytes(c) = {}
  /\ copied <= BufferSize

(* Outside a lookup nothing is known, and nothing handed out, or everything *)
(* is known; and libc gives out nothing as malloc's before malloc is known.  *)
KnownOrNot ==
  /\ fate = "running" /\ lookups = <<>> => IF myfn = {} THEN live = {} ELSE AllFound
  /\ \A b \in live : b.of = "malloc" /\ b.from = "libc" => "malloc" \in myfn

CrashSound == NothingWraps => OnlyTheseCallsCrash

IInv == TypeOK /\ LookupsTracked /\ BufferSound /\ KnownOrNot /\ CrashSound

LEMMA NamesAre ==
  /\ Len(Names) = 7 /\ DOMAIN Names = 1 .. 7
  /\ Interposed = {"malloc", "free", "calloc", "realloc", "memalign", "mmap", "munmap"}
<1>1. DOMAIN Names = 1 .. 7 /\ Len(Names) = 7
  BY DEF Names
<1>2. /\ Names[1] = "malloc" /\ Names[2] = "free" /\ Names[3] = "calloc" /\ Names[4] = "realloc"
      /\ Names[5] = "memalign" /\ Names[6] = "mmap" /\ Names[7] = "munmap"
  BY DEF Names
<1>3. \A i \in 1 .. 7 : i = 1 \/ i = 2 \/ i = 3 \/ i = 4 \/ i = 5 \/ i = 6 \/ i = 7
  OBVIOUS
<1> QED  BY <1>1, <1>2, <1>3 DEF Interposed

LEMMA LastAndFront ==
  ASSUME NEW S, NEW s \in Seq(S), s # <<>>
  PROVE  /\ Len(s) \in Nat /\ Len(s) > 0 /\ DOMAIN s = 1 .. Len(s) /\ s[Len(s)] \in S
         /\ Front(s) \in Seq(S) /\ DOMAIN Front(s) = 1 .. Len(s) - 1
         /\ \A i \in 1 .. Len(s) - 1 : Front(s)[i] = s[i]
<1>1. Len(s) \in Nat \ {0} /\ DOMAIN s = 1 .. Len(s) /\ s \in [1 .. Len(s) -> S]
  BY EmptySeq, LenProperties
<1>2. /\ SubSeq(s, 1, Len(s) - 1) \in Seq(S) /\ Len(SubSeq(s, 1, Len(s) - 1)) = Len(s) - 1
      /\ \A i \in 1 .. Len(s) - 1 : SubSeq(s, 1, Len(s) - 1)[i] = s[i]
  BY <1>1, SubSeqProperties
<1>3. DOMAIN SubSeq(s, 1, Len(s) - 1) = 1 .. Len(s) - 1
  BY <1>2, LenProperties
<1> QED  BY <1>1, <1>2, <1>3 DEF Front

(* What is asked for is a number, and without wrapping % does nothing. *)
LEMMA RequestsNat == Requests \subseteq Nat
<1>1. Sizes \subseteq Nat /\ Counts \subseteq Nat
  BY InterposerAssumption
<1>2. ASSUME NEW n \in Counts, NEW m \in Sizes PROVE n * m \in Nat
  <2>1. n \in Nat /\ m \in Nat
    BY <1>1
  <2> QED  BY ONLY <2>1
<1>3. ASSUME NEW r \in Requests PROVE r \in Nat
  <2>1. r \in Sizes \/ \E n \in Counts, m \in Sizes : r = n * m
    BY DEF Requests
  <2> QED  BY <1>1, <1>2, <2>1
<1> QED  BY <1>3

LEMMA ModNat ==
  ASSUME NEW n \in Nat, NEW w \in Nat \ {0}
  PROVE  n % w \in Nat /\ (n < w => n % w = n)
  OBVIOUS

LEMMA IInvInit == Init => IInv
<1> SUFFICES ASSUME Init PROVE IInv
  OBVIOUS
<1>1. TypeOK
  <2>1. libc \subseteq Interposed /\ lookups = <<>> /\ tmppos \in 0 .. BufferSize - 1
    BY InterposerAssumption DEF Init
  <2>2. \A S : <<>> \in Seq(S)
    BY EmptySeq
  <2>3. fatal \in [op : Interposed \cup {"none"}, given : {"nothing", "temp", "libc"}]
    BY DEF Init, Done, Source
  <2> QED  BY <2>1, <2>2, <2>3 DEF Init, TypeOK
<1>2. LookupsTracked
  BY DEF Init, LookupsTracked, LookupNestsOnce
<1>3. BufferSound
  BY InterposerAssumption DEF Init, BufferSound, Temp
<1>4. KnownOrNot /\ CrashSound
  BY DEF Init, KnownOrNot, CrashSound, OnlyTheseCallsCrash
<1> QED  BY <1>1, <1>2, <1>3, <1>4 DEF IInv

-----------------------------------------------------------------------------
(* What a call does, of three things.  It goes on to libc, which may take a *)
(* block back or give one out ... *)
Allocators == {"malloc", "mmap"}

FromLibc(b) ==
  /\ \E of \in Allocators, a \in Places : b = Memory(of, "libc", a, 0)
  /\ myfn # {} /\ (b.of = "malloc" => "malloc" \in myfn)

PassedOn ==
  /\ \A b \in live' : b \in live \/ FromLibc(b)
  /\ fate' \in {fate, "crash"}
  /\ UNCHANGED <<initializing, lookups, tmppos, copied>>

(* ... it starts a lookup ... *)
Starts ==
  \E f \in Allocators :
    /\ MustLookUp(f)
    /\ initializing' = initializing \cup {f}
    /\ lookups' = Append(lookups, [by |-> f, next |-> 1])
    /\ UNCHANGED <<tmppos, live, fate, copied>>

(* ... or takes a block of tmpbuff, in exchange for one from there at most. *)
TakesFromBuffer ==
  \E of \in Allocators, size \in Requests, old \in live \cup {NULL} :
    /\ of \in initializing
    /\ old # NULL => old.from = "temp"
    /\ NewFromBuffer(of, size, old)

LEMMA NewFromLibcPasses ==
  ASSUME NEW f, NEW of \in Allocators, NewFromLibc(f, of),
         f \in myfn /\ of = "malloc" => "malloc" \in myfn
  PROVE  /\ \A b \in live' : b \in live \/ FromLibc(b)
         /\ fate' \in {fate, "crash"}
  BY DEF NewFromLibc, FromLibc, TakenPlaces, Memory

LEMMA BackToLibcPasses ==
  ASSUME NEW f, NEW b, BackToLibc(f, b)
  PROVE  /\ \A c \in live' : c \in live \/ FromLibc(c)
         /\ fate' \in {fate, "crash"}
  BY DEF BackToLibc

LEMMA ServeKinds ==
  ASSUME NEW f \in Allocators, NEW size \in Requests, NEW old \in live \cup {NULL},
         old # NULL => old.from = "temp",
         Serve(f, size, old)
  PROVE  PassedOn \/ Starts \/ TakesFromBuffer
<1>1. CASE /\ f \in myfn /\ NewFromLibc(f, f)
           /\ UNCHANGED <<initializing, lookups, tmppos, copied>>
  BY <1>1, NewFromLibcPasses DEF PassedOn
<1>2. CASE /\ MustLookUp(f)
           /\ initializing' = initializing \cup {f}
           /\ lookups' = Append(lookups, [by |-> f, next |-> 1])
           /\ UNCHANGED <<tmppos, live, fate, copied>>
  BY <1>2 DEF Starts
<1>3. CASE f \notin myfn /\ ~MustLookUp(f) /\ NewFromBuffer(f, size, old)
  BY <1>3 DEF TakesFromBuffer, MustLookUp
<1> QED  BY <1>1, <1>2, <1>3 DEF Serve

(* Before malloc is known a block given out as malloc's is of tmpbuff. *)
LEMMA OldIsTemp ==
  ASSUME TypeOK, KnownOrNot, "malloc" \notin myfn, NEW b \in Given("malloc")
  PROVE  b.from = "temp"
  BY DEF TypeOK, KnownOrNot, Given

FatalType == [op : Interposed \cup {"none"}, given : {"nothing", "temp", "libc"}]

LEMMA BlameTyped ==
  ASSUME TypeOK, NEW op \in Interposed, NEW block \in live \cup {NULL}, Blame(op, block)
  PROVE  fatal' \in FatalType
<1>1. Source(block) \in {"nothing", "temp", "libc"}
  BY DEF TypeOK, Source
<1>2. fatal' = Done(op, block) \/ fatal' = fatal
  BY DEF Blame
<1>3. fatal \in FatalType
  BY DEF TypeOK, FatalType
<1>4. Done(op, block) \in FatalType
  BY <1>1 DEF Done, FatalType
<1> QED  BY <1>2, <1>3, <1>4

LEMMA CallKinds ==
  ASSUME TypeOK, KnownOrNot, fate = "running", Call
  PROVE  PassedOn \/ Starts \/ TakesFromBuffer
<1>1. NULL \in live \cup {NULL} /\ "malloc" \in Allocators /\ "mmap" \in Allocators
  BY DEF Allocators
<1>0. Sizes \subseteq Requests
  BY DEF Requests
<1>2. ASSUME NEW size \in Requests, malloc(size) \/ mmap(size)
      PROVE  PassedOn \/ Starts \/ TakesFromBuffer
  BY <1>1, <1>2, ServeKinds DEF malloc, mmap
<1>3. ASSUME NEW nmemb \in Counts, NEW size \in Sizes, calloc(nmemb, size)
      PROVE  PassedOn \/ Starts \/ TakesFromBuffer
  <2>1. CASE /\ "malloc" \in myfn /\ NewFromLibc("calloc", "malloc")
             /\ UNCHANGED <<initializing, lookups, tmppos, copied>>
    BY <1>1, <2>1, NewFromLibcPasses DEF PassedOn
  <2>2. CASE malloc(nmemb * size)
    <3>1. nmemb * size \in Requests
      BY DEF Requests
    <3> QED  BY <1>2, <2>2, <3>1
  <2> QED  BY <1>3, <2>1, <2>2 DEF calloc
<1>4. ASSUME NEW size \in Sizes, NEW b \in Given("malloc") \cup {NULL}, realloc(b, size)
      PROVE  PassedOn \/ Starts \/ TakesFromBuffer
  <2>1. CASE "malloc" \notin myfn /\ Serve("malloc", size, b)
    <3>1. b \in live \cup {NULL} /\ (b # NULL => b.from = "temp")
      BY <2>1, OldIsTemp DEF Given
    <3> QED  BY <1>0, <1>1, <2>1, <3>1, ServeKinds
  <2>2. CASE /\ "malloc" \in myfn
             /\ UNCHANGED <<initializing, lookups, tmppos, copied>>
             /\ NewFromLibc("realloc", "malloc")
    BY <1>1, <2>2, NewFromLibcPasses DEF PassedOn
  <2>3. CASE /\ UNCHANGED <<live, initializing, lookups, tmppos, copied>>
             /\ fate' \in {fate, "crash"}
    BY <2>3 DEF PassedOn
  <2> QED  BY <1>4, <2>1, <2>2, <2>3 DEF realloc
<1>5. ASSUME NEW b, free(b) \/ munmap(b)
      PROVE  PassedOn
  <2>1. /\ (\E f : BackToLibc(f, b)) \/ (live' = live \ {b} /\ UNCHANGED fate)
        /\ UNCHANGED <<initializing, lookups, tmppos, copied>>
    BY <1>5 DEF free, munmap
  <2> QED  BY <2>1, BackToLibcPasses DEF PassedOn
<1>6. ASSUME lookups = <<>>, memalign
      PROVE  PassedOn
  <2>1. "memalign" \in myfn => "malloc" \in myfn
    BY <1>6, NamesAre DEF KnownOrNot, AllFound
  <2> QED  BY <1>1, <1>6, <2>1, NewFromLibcPasses DEF memalign, PassedOn
<1> QED  BY <1>0, <1>2, <1>3, <1>4, <1>5, <1>6 DEF Call

-----------------------------------------------------------------------------
(* Each of the three keeps the invariants about tmpbuff and the lookups. *)
LEMMA PassedOnKeeps ==
  ASSUME TypeOK, LookupsTracked, BufferSound, KnownOrNot, PassedOn, UNCHANGED <<libc, myfn>>,
         fatal' \in FatalType
  PROVE  TypeOK' /\ LookupsTracked' /\ BufferSound' /\ KnownOrNot'
<1>1. \A b : FromLibc(b) => /\ b \in [of : Allocators, from : {"temp", "libc"}, at : Nat, size : Nat]
                            /\ b.from = "libc"
  BY InterposerAssumption DEF FromLibc, Memory
<1>2. TypeOK'
  BY <1>1 DEF TypeOK, PassedOn, Allocators, FatalType
<1>3. LookupsTracked'
  BY DEF LookupsTracked, LookupNestsOnce, PassedOn
<1>4. Temp' \subseteq Temp
  BY <1>1 DEF Temp, PassedOn
<1>5. BufferSound'
  BY <1>4 DEF BufferSound, PassedOn, Bytes
<1>6. KnownOrNot'
  BY DEF KnownOrNot, PassedOn, FromLibc, AllFound
<1> QED  BY <1>2, <1>3, <1>5, <1>6

LEMMA StartsKeeps ==
  ASSUME TypeOK, LookupsTracked, BufferSound, KnownOrNot, Starts, UNCHANGED <<libc, myfn>>,
         fatal' \in FatalType
  PROVE  TypeOK' /\ LookupsTracked' /\ BufferSound' /\ KnownOrNot'
<1> PICK f \in Allocators :
       /\ MustLookUp(f)
       /\ initializing' = initializing \cup {f}
       /\ lookups' = Append(lookups, [by |-> f, next |-> 1])
       /\ UNCHANGED <<tmppos, live, fate, copied>>
  BY DEF Starts
<1> DEFINE L == [by : {"malloc", "mmap"}, next : 1 .. Len(Names) + 1]
<1>1. lookups \in Seq(L) /\ [by |-> f, next |-> 1] \in L
  BY NamesAre DEF TypeOK, Allocators
<1>2. /\ lookups' \in Seq(L) /\ Len(lookups) \in Nat
      /\ DOMAIN lookups = 1 .. Len(lookups) /\ DOMAIN lookups' = 1 .. Len(lookups) + 1
      /\ \A i \in 1 .. Len(lookups) : lookups'[i] = lookups[i]
      /\ lookups'[Len(lookups) + 1] = [by |-> f, next |-> 1]
      /\ lookups' # <<>>
  BY <1>1, AppendProperties, LenProperties
<1>3. TypeOK'
  BY <1>2 DEF TypeOK, Allocators, FatalType
<1>4. f \notin initializing
  BY DEF MustLookUp
<1>5. \A i \in DOMAIN lookups' :
         \/ i \in DOMAIN lookups /\ lookups'[i].by = lookups[i].by
         \/ i = Len(lookups) + 1 /\ lookups'[i].by = f
  BY <1>2
<1>6. LookupsTracked'
  <2>1. \A i \in DOMAIN lookups' : lookups'[i].by \in initializing'
    BY <1>5 DEF LookupsTracked
  <2>2. ASSUME NEW g \in initializing' PROVE \E i \in DOMAIN lookups' : lookups'[i].by = g
    <3>1. CASE g = f
      BY <1>2, <3>1
    <3>2. CASE g # f
      <4>1. PICK i \in DOMAIN lookups : lookups[i].by = g
        BY <3>2 DEF LookupsTracked
      <4> QED  BY <1>2, <4>1
    <3> QED  BY <3>1, <3>2
  <2>3. LookupNestsOnce'
    BY <1>4, <1>5 DEF LookupsTracked, LookupNestsOnce
  <2> QED  BY <2>1, <2>2, <2>3 DEF LookupsTracked
<1>7. BufferSound'
  BY DEF BufferSound, Temp, Bytes
<1>8. KnownOrNot'
  BY <1>2 DEF KnownOrNot
<1> QED  BY <1>3, <1>6, <1>7, <1>8

(* The new block begins where the last ended. *)
LEMMA TakesFromBufferKeeps ==
  ASSUME TypeOK, LookupsTracked, BufferSound, KnownOrNot, TakesFromBuffer, UNCHANGED <<libc, myfn>>,
         fatal' \in FatalType
  PROVE  TypeOK' /\ LookupsTracked' /\ BufferSound' /\ KnownOrNot'
<1> PICK of \in Allocators, size \in Requests, old \in live \cup {NULL} :
       /\ of \in initializing
       /\ old # NULL => old.from = "temp"
       /\ NewFromBuffer(of, size, old)
  BY DEF TakesFromBuffer
<1> DEFINE new == Memory(of, "temp", tmppos, size)
<1>1. UNCHANGED <<initializing, lookups>>
  BY DEF NewFromBuffer
<1>2. lookups # <<>>
  <2>1. \E i \in DOMAIN lookups : lookups[i].by = of
    BY DEF LookupsTracked
  <2> QED  BY <2>1, EmptySeq
<1>3. LookupsTracked'
  BY <1>1 DEF LookupsTracked, LookupNestsOnce
<1>4. CASE fate' = "exit" /\ UNCHANGED <<live, tmppos, copied>>
  BY <1>1, <1>2, <1>3, <1>4 DEF TypeOK, FatalType, BufferSound, KnownOrNot, Temp, Bytes
<1>5. CASE /\ FitsInBuffer(size) /\ live' = (live \ {old}) \cup {new}
           /\ tmppos' = (tmppos + size) % Word
           /\ copied' = IF old = NULL THEN copied ELSE old.at + size
           /\ UNCHANGED fate
  <2>1. /\ size \in Nat /\ tmppos \in Nat /\ BufferSize \in Nat /\ copied \in Nat
        /\ (tmppos + size) % Word \in Nat /\ (tmppos + size) % Word < BufferSize
    <3>1. /\ size \in Nat /\ tmppos \in Nat /\ BufferSize \in Nat /\ copied \in Nat
          /\ Word \in Nat \ {0}
      BY RequestsNat, InterposerAssumption DEF TypeOK
    <3>2. tmppos + size \in Nat
      BY <3>1
    <3> QED  BY <1>5, <3>1, <3>2, ModNat DEF FitsInBuffer
  <2>2. \A b \in Temp : b.at \in Nat /\ b.size \in Nat
    BY DEF TypeOK, Temp
  <2>3. old # NULL => old \in Temp
    BY DEF Temp
  <2>4. copied' \in Nat /\ tmppos' \in 0 .. BufferSize - 1
    <3>1. tmppos' \in 0 .. BufferSize - 1
      BY <1>5, <2>1
    <3>2. old # NULL => old.at + size \in Nat
      BY <2>1, <2>2, <2>3
    <3> QED  BY <1>5, <2>1, <3>1, <3>2
  <2>5. /\ new \in [of : Allocators, from : {"temp", "libc"}, at : Nat, size : Nat]
        /\ new.from = "temp" /\ new.at = tmppos /\ new.size = size
    BY <2>1 DEF Memory
  <2>6. TypeOK'
    BY <1>1, <1>5, <2>4, <2>5 DEF TypeOK, Allocators, FatalType
  <2>7. Temp' \subseteq Temp \cup {new}
    BY <1>5 DEF Temp
  <2>8. BufferSound'
    <3> SUFFICES ASSUME NothingWraps
                 PROVE  /\ \A b \in Temp' : b.at + b.size <= tmppos'
                        /\ \A b, c \in Temp' : b # c => Bytes(b) \cap Bytes(c) = {}
                        /\ copied' <= BufferSize
      BY DEF BufferSound, Bytes
    <3>1. /\ \A b \in Temp : b.at + b.size <= tmppos
          /\ \A b, c \in Temp : b # c => Bytes(b) \cap Bytes(c) = {}
          /\ copied <= BufferSize
      BY DEF BufferSound
    <3>2. tmppos' = tmppos + size
      <4>1. size + BufferSize <= Word /\ Word \in Nat \ {0} /\ tmppos < BufferSize
        BY InterposerAssumption DEF NothingWraps, TypeOK
      <4>2. tmppos + size \in Nat /\ tmppos + size < Word
        BY <2>1, <4>1
      <4> QED  BY <1>5, <4>1, <4>2, ModNat
    <3>3. tmppos + size < BufferSize
      BY <1>5, <2>1, <3>2
    <3>4. copied' <= BufferSize
      <4>1. old # NULL => old.at + size <= BufferSize
        BY <2>1, <2>2, <2>3, <3>1, <3>3
      <4> QED  BY <1>5, <3>1, <4>1
    <3>5. \A b \in Temp' : b.at + b.size <= tmppos'
      BY <2>1, <2>2, <2>5, <2>7, <3>1, <3>2
    <3>6. \A b \in Temp : Bytes(b) \cap Bytes(new) = {}
      BY <2>1, <2>2, <2>5, <3>1 DEF Bytes
    <3>7. \A b, c \in Temp' : b # c => Bytes(b) \cap Bytes(c) = {}
      BY <2>7, <3>1, <3>6
    <3> QED  BY <3>4, <3>5, <3>7
  <2>9. KnownOrNot'
    BY <1>1, <1>2, <1>5, <2>5 DEF KnownOrNot
  <2> QED  BY <1>3, <2>6, <2>8, <2>9
<1> QED  BY <1>4, <1>5 DEF NewFromBuffer

-----------------------------------------------------------------------------
(* init: asking for one more function moves the innermost lookup on ... *)
LEMMA look_up_Keeps ==
  ASSUME TypeOK, LookupsTracked, BufferSound, KnownOrNot, look_up
  PROVE  TypeOK' /\ LookupsTracked' /\ BufferSound' /\ KnownOrNot'
<1> DEFINE n == Len(lookups)
           top == lookups[n]
<1>1. /\ lookups # <<>> /\ top.next <= Len(Names)
      /\ myfn' = myfn \cup ({Names[top.next]} \cap libc)
      /\ lookups' = [lookups EXCEPT ![n].next = @ + 1]
      /\ UNCHANGED <<libc, initializing, tmppos, live, fate, fatal, copied>>
  BY DEF look_up
<1> DEFINE L == [by : {"malloc", "mmap"}, next : 1 .. Len(Names) + 1]
<1>2. lookups \in Seq(L) /\ n \in Nat /\ n > 0 /\ DOMAIN lookups = 1 .. n /\ top \in L
  <2>1. lookups \in Seq(L)
    BY DEF TypeOK
  <2> HIDE DEF L
  <2> QED  BY <1>1, <2>1, LastAndFront
<1>3. /\ DOMAIN lookups' = DOMAIN lookups
      /\ \A i \in DOMAIN lookups : lookups'[i].by = lookups[i].by
      /\ [top EXCEPT !.next = @ + 1] \in L
  BY <1>1, <1>2, NamesAre
<1>4. lookups' \in Seq(L) /\ lookups' # <<>>
  <2>1. lookups' = [lookups EXCEPT ![n] = [top EXCEPT !.next = @ + 1]]
    BY <1>1
  <2>2. lookups' \in Seq(L)
    BY <1>2, <1>3, <2>1, ExceptSeq
  <2> QED  BY <1>2, <1>3, <2>2, EmptySeq, LenProperties
<1>5. TypeOK'
  BY <1>1, <1>4 DEF TypeOK
<1>6. LookupsTracked'
  BY <1>1, <1>3 DEF LookupsTracked, LookupNestsOnce
<1>7. BufferSound'
  BY <1>1 DEF BufferSound, Temp, Bytes
<1>8. KnownOrNot'
  BY <1>1, <1>4 DEF KnownOrNot
<1> QED  BY <1>5, <1>6, <1>7, <1>8

(* ... and the end of a lookup clears the flag of that one only. *)
LEMMA init_done_Keeps ==
  ASSUME TypeOK, LookupsTracked, BufferSound, KnownOrNot, init_done
  PROVE  TypeOK' /\ LookupsTracked' /\ BufferSound' /\ KnownOrNot'
<1> DEFINE n == Len(lookups)
           top == lookups[n]
           L == [by : {"malloc", "mmap"}, next : 1 .. Len(Names) + 1]
<1>1. /\ lookups # <<>>
      /\ initializing' = initializing \ {top.by}
      /\ lookups' = Front(lookups)
      /\ UNCHANGED <<libc, myfn, tmppos, fatal, copied>>
  BY DEF init_done
<1>2. lookups \in Seq(L) /\ n \in Nat /\ n > 0 /\ DOMAIN lookups = 1 .. n /\ top \in L
  <2>1. lookups \in Seq(L)
    BY DEF TypeOK
  <2> HIDE DEF L
  <2> QED  BY <1>1, <2>1, LastAndFront
<1>3. /\ lookups' \in Seq(L) /\ DOMAIN lookups' = 1 .. n - 1
      /\ \A i \in 1 .. n - 1 : lookups'[i] = lookups[i]
  <2> HIDE DEF L
  <2> QED  BY <1>1, <1>2, LastAndFront
<1>4. /\ \A b \in live' : b \in live \/ FromLibc(b)
      /\ fate' \in {fate, "crash", "exit"}
      /\ fate' = "running" => AllFound
  <2>1. CASE AllFound /\ NewFromLibc(top.by, top.by)
    <3>1. top.by \in Allocators
      BY <1>2 DEF Allocators
    <3> QED  BY <2>1, <3>1, NewFromLibcPasses
  <2>2. CASE ~AllFound /\ fate' = "exit" /\ UNCHANGED live
    BY <2>2
  <2> QED  BY <2>1, <2>2 DEF init_done
<1>5. \A b : FromLibc(b) => /\ b \in [of : Allocators, from : {"temp", "libc"}, at : Nat, size : Nat]
                            /\ b.from = "libc"
  BY InterposerAssumption DEF FromLibc, Memory
<1>6. TypeOK'
  BY <1>1, <1>3, <1>4, <1>5 DEF TypeOK, Allocators
<1>7. LookupsTracked'
  <2>0. top = lookups[n]
    OBVIOUS
  <2> HIDE DEF L, top, n
  <2>1. \A i \in 1 .. n - 1 : i \in 1 .. n /\ i # n /\ lookups'[i].by = lookups[i].by
    BY <1>2, <1>3
  <2>2. \A i \in 1 .. n : i \in 1 .. n - 1 \/ i = n
    BY <1>2
  <2>3. \A i \in 1 .. n - 1 : lookups[i].by # top.by
    BY <1>2, <2>0, <2>1 DEF LookupsTracked, LookupNestsOnce
  <2>4. \A i \in DOMAIN lookups' : lookups'[i].by \in initializing'
    BY <1>1, <1>2, <1>3, <2>1, <2>3 DEF LookupsTracked
  <2>5. \A f \in initializing' : \E i \in DOMAIN lookups' : lookups'[i].by = f
    BY <1>1, <1>2, <1>3, <2>0, <2>1, <2>2 DEF LookupsTracked
  <2>6. LookupNestsOnce'
    BY <1>2, <1>3, <2>1 DEF LookupsTracked, LookupNestsOnce
  <2> QED  BY <2>4, <2>5, <2>6 DEF LookupsTracked
<1>8. Temp' \subseteq Temp
  BY <1>4, <1>5 DEF Temp
<1>9. BufferSound'
  BY <1>1, <1>8 DEF BufferSound, Bytes
<1>10. KnownOrNot'
  <2>1. AllFound => myfn # {} /\ "malloc" \in myfn
    BY NamesAre DEF AllFound
  <2> QED  BY <1>1, <1>4, <2>1 DEF KnownOrNot, FromLibc, AllFound
<1> QED  BY <1>6, <1>7, <1>9, <1>10

-----------------------------------------------------------------------------
(* Where malloc is known and another function is not, a lookup is under way. *)
LEMMA KnownTogether ==
  ASSUME KnownOrNot, fate = "running", "malloc" \in myfn, NEW f \in Interposed, f \notin myfn
  PROVE  lookups # <<>>
  BY DEF KnownOrNot, AllFound

(* What OnlyTheseCallsCrash says of the call that crashed. *)
Listed(f) ==
  \/ f.op \in {"free", "memalign"} /\ f.given = "nothing" /\ "malloc" \notin myfn
  \/ /\ f.op \in {"calloc", "realloc", "free"} /\ f.op \notin myfn
     /\ "malloc" \in myfn /\ lookups # <<>>
  \/ f.op \in {"realloc", "munmap"} /\ f.given = "temp" /\ "malloc" \in myfn

LEMMA CallCrashes ==
  ASSUME TypeOK, LookupsTracked, BufferSound, KnownOrNot, NothingWraps,
         fate = "running", Call, fate' = "crash"
  PROVE  OnlyTheseCallsCrash'
<1> DEFINE Blamed(op, b) == Blame(op, b) /\ Listed(Done(op, b)) /\ UNCHANGED lookups
<1>0. Interposed = {"malloc", "free", "calloc", "realloc", "memalign", "mmap", "munmap"}
  BY NamesAre
<1>1. \A f, size, old : ~Serve(f, size, old)
  BY DEF Serve, NewFromLibc, NewFromBuffer
<1>2. ASSUME NEW nmemb \in Counts, NEW size \in Sizes, calloc(nmemb, size), Blame("calloc", NULL)
      PROVE  Blamed("calloc", NULL)
  <2>1. "malloc" \in myfn /\ "calloc" \notin myfn /\ UNCHANGED lookups
    BY <1>1, <1>2 DEF calloc, malloc, NewFromLibc
  <2> QED  BY <1>0, <1>2, <2>1, KnownTogether DEF Listed, Done
<1>3. ASSUME NEW size \in Sizes, NEW b \in Given("malloc") \cup {NULL},
             realloc(b, size), Blame("realloc", b)
      PROVE  Blamed("realloc", b)
  <2>1. /\ "malloc" \in myfn /\ UNCHANGED lookups
        /\ "realloc" \notin myfn \/ (b # NULL /\ b.from # "libc")
    BY <1>1, <1>3 DEF realloc, NewFromLibc
  <2>2. CASE "realloc" \notin myfn
    BY <1>0, <1>3, <2>1, <2>2, KnownTogether DEF Listed, Done
  <2>3. CASE b # NULL /\ b.from # "libc"
    <3>1. b.from = "temp"
      BY <2>3 DEF TypeOK, Given
    <3> QED  BY <1>3, <2>1, <2>3, <3>1 DEF Listed, Done, Source
  <2> QED  BY <2>1, <2>2, <2>3
<1>4. ASSUME NEW b \in Given("malloc") \cup {NULL}, free(b), Blame("free", b)
      PROVE  Blamed("free", b)
  <2>1. /\ ~(b # NULL /\ InBuffer(b)) /\ UNCHANGED lookups
        /\ "free" \notin myfn \/ ~(b = NULL \/ b \in {c \in live : c.from = "libc"})
    BY <1>4 DEF free, BackToLibc
  <2>2. b = NULL \/ (b \in live /\ b.from = "libc" /\ b.of = "malloc")
    <3>1. ASSUME b \in live, b.from = "temp" PROVE InBuffer(b)
      <4>1. b.at \in Nat /\ b.size \in Nat /\ tmppos \in Nat /\ b.at + b.size <= tmppos
        BY <3>1 DEF TypeOK, BufferSound, Temp
      <4> QED  BY <3>1, <4>1 DEF InBuffer
    <3>2. b \in live => b.from \in {"temp", "libc"}
      BY DEF TypeOK
    <3> QED  BY <2>1, <3>1, <3>2 DEF Given
  <2>3. "free" \notin myfn
    BY <2>1, <2>2
  <2>4. CASE "malloc" \in myfn
    BY <1>0, <1>4, <2>1, <2>3, <2>4, KnownTogether DEF Listed, Done
  <2>5. CASE "malloc" \notin myfn
    BY <1>4, <2>1, <2>2, <2>5 DEF KnownOrNot, Listed, Done, Source
  <2> QED  BY <2>4, <2>5
<1>5. ASSUME lookups = <<>>, memalign, Blame("memalign", NULL)
      PROVE  Blamed("memalign", NULL)
  <2>1. "memalign" \notin myfn /\ UNCHANGED lookups
    BY <1>5 DEF memalign, NewFromLibc
  <2>2. "malloc" \notin myfn
    BY <1>0, <1>5, <2>1, KnownTogether
  <2> QED  BY <1>5, <2>1, <2>2 DEF Listed, Done, Source
<1>6. ASSUME NEW b \in Given("mmap"), lookups = <<>>, munmap(b), Blame("munmap", b)
      PROVE  Blamed("munmap", b)
  <2>1. b \in live /\ b.from \in {"temp", "libc"} /\ UNCHANGED lookups
    BY <1>6 DEF TypeOK, Given, munmap
  <2>2. AllFound
    BY <1>6, <2>1 DEF KnownOrNot
  <2>3. "munmap" \in myfn /\ "malloc" \in myfn
    BY <1>0, <2>2 DEF AllFound
  <2>4. b # NULL /\ b.from = "temp"
    BY <1>6, <2>1, <2>3 DEF munmap, BackToLibc
  <2> QED  BY <1>6, <2>1, <2>3, <2>4 DEF Listed, Done, Source
<1>7. \E op \in Interposed, b \in live \cup {NULL} : Blamed(op, b)
  <2> HIDE DEF Blamed
  <2>1. Given("malloc") \subseteq live /\ Given("mmap") \subseteq live
    BY DEF Given
  <2> QED  BY <1>0, <1>1, <1>2, <1>3, <1>4, <1>5, <1>6, <2>1 DEF Call, malloc, mmap
<1>8. Listed(fatal') /\ UNCHANGED <<lookups, myfn>>
  BY <1>7 DEF Blame, Call
<1> QED  BY <1>8 DEF Listed, OnlyTheseCallsCrash

LEMMA IInvKept == IInv /\ [Next]_vars => IInv'
<1> SUFFICES ASSUME IInv, [Next]_vars PROVE IInv'
  OBVIOUS
<1> USE DEF IInv
<1>1. CASE UNCHANGED vars
  BY <1>1 DEF vars, TypeOK, LookupsTracked, LookupNestsOnce, BufferSound, Temp, Bytes,
     KnownOrNot, AllFound, CrashSound, OnlyTheseCallsCrash
<1>2. CASE fate = "running" /\ Call
  <2>1. fatal' \in FatalType
    <3>1. \E op \in Interposed, b \in live \cup {NULL} : Blame(op, b)
      BY <1>2, NamesAre DEF Call, Given
    <3> QED  BY <3>1, BlameTyped
  <2>2. UNCHANGED <<libc, myfn>>
    BY <1>2 DEF Call
  <2>3. CrashSound'
    BY <1>2, CallCrashes DEF CrashSound, OnlyTheseCallsCrash
  <2> QED
    BY <1>2, <2>1, <2>2, <2>3, CallKinds, PassedOnKeeps, StartsKeeps, TakesFromBufferKeeps
<1>3. CASE fate = "running" /\ look_up
  <2>1. CrashSound'
    BY <1>3 DEF look_up, CrashSound, OnlyTheseCallsCrash
  <2> QED  BY <1>3, <2>1, look_up_Keeps
<1>4. CASE fate = "running" /\ init_done
  <2>1. CrashSound'
    <3>1. lookups[Len(lookups)].by \in Interposed
      <4>1. Len(lookups) \in DOMAIN lookups
        BY <1>4, EmptySeq, LenProperties DEF init_done, TypeOK
      <4>2. lookups[Len(lookups)].by \in {"malloc", "mmap"}
        BY <4>1 DEF LookupsTracked, TypeOK
      <4> QED  BY <4>2, NamesAre
    <3>2. fate' # "crash"
      BY <1>4, <3>1 DEF init_done, NewFromLibc, AllFound
    <3> QED  BY <3>2 DEF CrashSound, OnlyTheseCallsCrash
  <2> QED  BY <1>4, <2>1, init_done_Keeps
<1> QED  BY <1>1, <1>2, <1>3, <1>4 DEF Next

LEMMA IInvHolds == Spec => []IInv
  BY IInvInit, IInvKept, PTL DEF Spec

-----------------------------------------------------------------------------
(* What malloc and mmap keep is of its type: tmppos, above all, always       *)
(* points into tmpbuff, also after a sum that wrapped.                       *)
THEOREM TypeCorrect == Spec => []TypeOK
  BY IInvHolds, PTL DEF IInv

(* A call that dlsym makes starts a lookup of its own only in the one of the *)
(* two functions the lookup did not start in: init cannot go on for ever.    *)
THEOREM LookupsNest == Spec => []LookupNestsOnce
<1>1. IInv => LookupNestsOnce
  BY DEF IInv, LookupsTracked
<1> QED  BY <1>1, IInvHolds, PTL

(* As long as no size asked for, or product of calloc's, is so large that    *)
(* its sum with tmppos wraps, blocks of tmpbuff stay inside it and apart,    *)
(* and realloc does not read beyond its end, although it copies the new      *)
(* length from an old block that may be shorter.                             *)
THEOREM TempBlocksStayApart ==
  ASSUME NothingWraps PROVE Spec => []TempBlocksApart
<1>1. IInv => TempBlocksApart
  <2> SUFFICES ASSUME IInv PROVE TempBlocksApart
    OBVIOUS
  <2>1. tmppos \in Nat /\ tmppos < BufferSize /\ BufferSize \in Nat
    BY InterposerAssumption DEF IInv, TypeOK
  <2>2. \A b \in Temp : b.at \in Nat /\ b.size \in Nat /\ b.at + b.size <= tmppos
    BY DEF IInv, TypeOK, BufferSound, Temp
  <2>3. \A b \in Temp : b.at < BufferSize /\ Bytes(b) \subseteq 0 .. BufferSize - 1
    BY <2>1, <2>2 DEF Bytes
  <2> QED  BY <2>3 DEF IInv, BufferSound, Temp, TempBlocksApart
<1> QED  BY <1>1, IInvHolds, PTL

(* The calls that crash are no others than those OnlyTheseCallsCrash lists,  *)
(* whatever dlsym calls before it answers and whatever functions libc does   *)
(* not have, as long as no size wraps: the program itself meets no null      *)
(* pointer after its first malloc or mmap, and libc's free gets no block of  *)
(* tmpbuff.                                                                  *)
THEOREM OnlyListedCallsCrash ==
  ASSUME NothingWraps PROVE Spec => []OnlyTheseCallsCrash
<1>1. IInv => OnlyTheseCallsCrash
  BY DEF IInv, CrashSound
<1> QED  BY <1>1, IInvHolds, PTL
=============================================================================

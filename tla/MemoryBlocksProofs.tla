------------------------- MODULE MemoryBlocksProofs -------------------------
(***************************************************************************)
(* What the updates of MemoryBlocks do to an array that is laid out as it  *)
(* should be, for every size of pool and every number of blocks.           *)
(***************************************************************************)
EXTENDS MemoryBlocks, SequenceTheorems, WellFoundedInduction, TLAPS

(* Blocks further right lie behind those further left.  It follows from    *)
(* Tiles by induction along the array; as a conjunct of the invariant it   *)
(* is carried from step to step and needs no induction.                    *)
Ordered(bs) ==
  \A i, j \in DOMAIN bs : i < j => bs[i].startAdress + bs[i].size <= bs[j].startAdress

(* A layout of a pool of "total" bytes, its free blocks joined or not. *)
Layout(bs, total) ==
  /\ bs \in Seq(BlockType)
  /\ Tiles(bs, total)
  /\ NoEmptyBlock(bs)
  /\ Ordered(bs)

WellFormed(bs, total) == Layout(bs, total) /\ Coalesced(bs)

(* Only the blocks k and k + 1 with k in "pairs" may both be free. *)
CoalescedBut(bs, pairs) ==
  \A i \in DOMAIN bs : i < Len(bs) /\ i \notin pairs => bs[i].isUsed \/ bs[i+1].isUsed

-----------------------------------------------------------------------------
(* Sequences. *)

LEMMA InsertAtProperties ==
  ASSUME NEW S, NEW s \in Seq(S), NEW i \in 1 .. Len(s) + 1, NEW e \in S
  PROVE  /\ InsertAt(s, i, e) \in Seq(S)
         /\ Len(InsertAt(s, i, e)) = Len(s) + 1
         /\ DOMAIN InsertAt(s, i, e) = 1 .. Len(s) + 1
         /\ \A j \in 1 .. Len(s) + 1 :
               InsertAt(s, i, e)[j] = IF j < i THEN s[j]
                                      ELSE IF j = i THEN e ELSE s[j-1]
<1> DEFINE left == SubSeq(s, 1, i - 1)
           right == SubSeq(s, i, Len(s))
           both == left \o <<e>>
<1>1. Len(s) \in Nat /\ i \in Int /\ \A j \in 1 .. Len(s) : s[j] \in S
  BY LenProperties, ElementOfSeq
<1>2. /\ left \in Seq(S) /\ Len(left) = i - 1
      /\ \A j \in 1 .. i - 1 : left[j] = s[j]
  BY <1>1, SubSeqProperties
<1>3. /\ right \in Seq(S) /\ Len(right) = Len(s) - i + 1
      /\ \A j \in 1 .. Len(s) - i + 1 : right[j] = s[i + j - 1]
  BY <1>1, SubSeqProperties
<1>4. <<e>> \in Seq(S) /\ Len(<<e>>) = 1 /\ <<e>>[1] = e
  OBVIOUS
<1> HIDE DEF left, right
<1>5. /\ both \in Seq(S) /\ Len(both) = i
      /\ \A j \in 1 .. i : both[j] = IF j < i THEN s[j] ELSE e
  <2>1. /\ both \in Seq(S) /\ Len(both) = Len(left) + 1
        /\ \A j \in 1 .. Len(left) + 1 :
              both[j] = IF j <= Len(left) THEN left[j] ELSE <<e>>[j - Len(left)]
    BY <1>2, <1>4, ConcatProperties
  <2> QED  BY <1>1, <1>2, <1>4, <2>1
<1> HIDE DEF both
<1>6. InsertAt(s, i, e) = both \o right
  BY DEF InsertAt, both, left, right
<1>7. /\ both \o right \in Seq(S) /\ Len(both \o right) = Len(s) + 1
      /\ \A j \in 1 .. Len(s) + 1 :
            (both \o right)[j] = IF j <= i THEN both[j] ELSE right[j - i]
  <2>1. /\ both \o right \in Seq(S)
        /\ Len(both \o right) = Len(both) + Len(right)
        /\ \A j \in 1 .. Len(both) + Len(right) :
              (both \o right)[j] = IF j <= Len(both) THEN both[j] ELSE right[j - Len(both)]
    BY <1>3, <1>5, ConcatProperties
  <2>2. Len(both) + Len(right) = Len(s) + 1
    BY <1>1, <1>3, <1>5
  <2> QED  BY <1>5, <2>1, <2>2
<1>8. \A j \in 1 .. Len(s) + 1 : i < j => right[j - i] = s[j - 1]
  BY <1>1, <1>3
<1>9. DOMAIN (both \o right) = 1 .. Len(s) + 1
  BY <1>7, LenProperties
<1> QED  BY <1>1, <1>5, <1>6, <1>7, <1>8, <1>9

LEMMA RemoveAtProperties ==
  ASSUME NEW S, NEW s \in Seq(S), NEW i \in 1 .. Len(s)
  PROVE  /\ RemoveAt(s, i) \in Seq(S)
         /\ Len(RemoveAt(s, i)) = Len(s) - 1
         /\ DOMAIN RemoveAt(s, i) = 1 .. Len(s) - 1
         /\ \A j \in 1 .. Len(s) - 1 :
               RemoveAt(s, i)[j] = IF j < i THEN s[j] ELSE s[j+1]
<1> DEFINE left == SubSeq(s, 1, i - 1)
           right == SubSeq(s, i + 1, Len(s))
<1>1. Len(s) \in Nat /\ i \in Int /\ \A j \in 1 .. Len(s) : s[j] \in S
  BY LenProperties, ElementOfSeq
<1>2. /\ left \in Seq(S) /\ Len(left) = i - 1
      /\ \A j \in 1 .. i - 1 : left[j] = s[j]
  BY <1>1, SubSeqProperties
<1>3. /\ right \in Seq(S) /\ Len(right) = Len(s) - i
      /\ \A j \in 1 .. Len(s) - i : right[j] = s[i + j]
  BY <1>1, SubSeqProperties
<1> HIDE DEF left, right
<1>4. /\ left \o right \in Seq(S) /\ Len(left \o right) = Len(s) - 1
      /\ \A j \in 1 .. Len(s) - 1 :
            (left \o right)[j] = IF j <= i - 1 THEN left[j] ELSE right[j - (i - 1)]
  <2>1. /\ left \o right \in Seq(S)
        /\ Len(left \o right) = Len(left) + Len(right)
        /\ \A j \in 1 .. Len(left) + Len(right) :
              (left \o right)[j] = IF j <= Len(left) THEN left[j] ELSE right[j - Len(left)]
    BY <1>2, <1>3, ConcatProperties
  <2>2. Len(left) + Len(right) = Len(s) - 1
    BY <1>1, <1>2, <1>3
  <2> QED  BY <1>2, <2>1, <2>2
<1>5. DOMAIN (left \o right) = 1 .. Len(s) - 1
  BY <1>4, LenProperties
<1>6. \A j \in 1 .. Len(s) - 1 : ~(j < i) => right[j - (i - 1)] = s[j + 1]
  BY <1>1, <1>3
<1>7. RemoveAt(s, i) = left \o right
  BY DEF RemoveAt, left, right
<1> QED  BY <1>1, <1>2, <1>4, <1>5, <1>6, <1>7

-----------------------------------------------------------------------------
(* Single updates of an array of blocks. *)

LEMMA BlockFields ==
  ASSUME NEW start \in Nat, NEW size \in Nat, NEW used \in BOOLEAN
  PROVE  /\ Block(start, size, used) \in BlockType
         /\ Block(start, size, used).startAdress = start
         /\ Block(start, size, used).size = size
         /\ Block(start, size, used).isUsed = used
BY DEF Block, BlockType

LEMMA BlocksTyped ==
  ASSUME NEW bs \in Seq(BlockType), NEW i \in DOMAIN bs
  PROVE  /\ Len(bs) \in Nat /\ DOMAIN bs = 1 .. Len(bs)
         /\ bs[i].startAdress \in Nat /\ bs[i].size \in Nat /\ bs[i].isUsed \in BOOLEAN
<1>1. Len(bs) \in Nat /\ DOMAIN bs = 1 .. Len(bs)
  BY LenProperties
<1>2. bs[i] \in BlockType
  BY <1>1, ElementOfSeq
<1> QED  BY <1>1, <1>2 DEF BlockType

LEMMA Replaced ==
  ASSUME NEW bs \in Seq(BlockType), NEW i \in DOMAIN bs, NEW b \in BlockType
  PROVE  /\ [bs EXCEPT ![i] = b] \in Seq(BlockType)
         /\ Len([bs EXCEPT ![i] = b]) = Len(bs)
         /\ DOMAIN [bs EXCEPT ![i] = b] = 1 .. Len(bs)
         /\ \A j \in 1 .. Len(bs) : [bs EXCEPT ![i] = b][j] = IF j = i THEN b ELSE bs[j]
<1>1. DOMAIN bs = 1 .. Len(bs)
  BY LenProperties
<1>2. i \in 1 .. Len(bs)
  BY <1>1
<1>3. [bs EXCEPT ![i] = b] \in Seq(BlockType) /\ Len([bs EXCEPT ![i] = b]) = Len(bs)
  BY <1>2, ExceptSeq
<1> QED  BY <1>1, <1>2, <1>3, ExceptSeq, LenProperties

(* Joining a block with its right neighbour. *)
LEMMA AbsorbJoins ==
  ASSUME NEW bs \in Seq(BlockType), NEW i \in DOMAIN bs, i < Len(bs),
         NEW joined, joined = Absorb(bs, i)
  PROVE  /\ joined \in Seq(BlockType)
         /\ Len(joined) = Len(bs) - 1
         /\ DOMAIN joined = 1 .. Len(bs) - 1
         /\ \A j \in 1 .. Len(bs) - 1 :
              joined[j] = IF j < i THEN bs[j]
                          ELSE IF j = i
                          THEN Block(bs[i].startAdress, bs[i].size + bs[i+1].size, bs[i].isUsed)
                          ELSE bs[j+1]
<1> DEFINE b == Block(bs[i].startAdress, bs[i].size + bs[i+1].size, bs[i].isUsed)
           wide == [bs EXCEPT ![i] = b]
           k == i + 1
<1>1. /\ Len(bs) \in Nat /\ DOMAIN bs = 1 .. Len(bs) /\ i \in 1 .. Len(bs)
      /\ bs[i].startAdress \in Nat /\ bs[i].size \in Nat /\ bs[i].isUsed \in BOOLEAN
  BY BlocksTyped
<1>2. i + 1 \in DOMAIN bs
  BY <1>1
<1>3. bs[i+1].size \in Nat
  BY <1>2, BlocksTyped
<1>4. b \in BlockType
  BY <1>1, <1>3, BlockFields
<1> HIDE DEF b
<1>5. /\ wide \in Seq(BlockType) /\ Len(wide) = Len(bs)
      /\ \A j \in 1 .. Len(bs) : wide[j] = IF j = i THEN b ELSE bs[j]
  BY <1>4, Replaced
<1> HIDE DEF wide
<1>6. k \in 1 .. Len(wide)
  BY <1>1, <1>5
<1>7. joined = RemoveAt(wide, k)
  BY DEF Absorb, wide, b
<1> HIDE DEF k
<1>8. /\ joined \in Seq(BlockType) /\ Len(joined) = Len(wide) - 1
      /\ DOMAIN joined = 1 .. Len(wide) - 1
      /\ \A j \in 1 .. Len(wide) - 1 :
            joined[j] = IF j < k THEN wide[j] ELSE wide[j+1]
  <2>1. wide \in Seq(BlockType) /\ k \in 1 .. Len(wide)
    BY <1>5, <1>6
  <2>2. /\ RemoveAt(wide, k) \in Seq(BlockType)
        /\ Len(RemoveAt(wide, k)) = Len(wide) - 1
        /\ DOMAIN RemoveAt(wide, k) = 1 .. Len(wide) - 1
        /\ \A j \in 1 .. Len(wide) - 1 :
              RemoveAt(wide, k)[j] = IF j < k THEN wide[j] ELSE wide[j+1]
    BY ONLY <2>1, RemoveAtProperties
  <2> QED  BY ONLY <2>2, <1>7
<1>9. \A j \in 1 .. Len(bs) - 1 :
        joined[j] = IF j < i THEN bs[j] ELSE IF j = i THEN b ELSE bs[j+1]
  <2> TAKE j \in 1 .. Len(bs) - 1
  <2>1. j \in 1 .. Len(bs) /\ j + 1 \in 1 .. Len(bs) /\ (~(j < k) => j + 1 # i)
    BY <1>1 DEF k
  <2> QED  BY <1>1, <1>5, <1>8, <2>1 DEF k
<1> QED  BY <1>5, <1>8, <1>9 DEF b

-----------------------------------------------------------------------------
(* The updates keep the pool covered. *)

(* Only marks differ. *)
LEMMA MarksDoNotMatter ==
  ASSUME NEW total \in Nat, NEW bs, Layout(bs, total),
         NEW other \in Seq(BlockType), Len(other) = Len(bs),
         \A j \in 1 .. Len(bs) : /\ other[j].startAdress = bs[j].startAdress
                                 /\ other[j].size = bs[j].size
  PROVE  Layout(other, total)
<1>1. /\ Len(bs) \in Nat /\ DOMAIN bs = 1 .. Len(bs) /\ DOMAIN other = 1 .. Len(bs)
      /\ bs \in Seq(BlockType) /\ bs # <<>>
  BY LenProperties DEF Layout, Tiles
<1>2. Len(bs) \in 1 .. Len(bs) /\ 1 \in 1 .. Len(bs) /\ other # <<>>
  BY <1>1, EmptySeq
<1>3. Tiles(other, total)
  <2>1. other[1].startAdress = 0
    BY <1>1, <1>2 DEF Layout, Tiles
  <2>2. \A j \in DOMAIN other : j < Len(other) =>
           other[j+1].startAdress = other[j].startAdress + other[j].size
    <3> SUFFICES ASSUME NEW j \in 1 .. Len(bs), j < Len(bs)
                 PROVE  other[j+1].startAdress = other[j].startAdress + other[j].size
      BY <1>1
    <3>1. j + 1 \in 1 .. Len(bs)
      BY <1>1
    <3> QED  BY <1>1, <3>1 DEF Layout, Tiles
  <2>3. other[Len(other)].startAdress + other[Len(other)].size = total
    BY <1>1, <1>2 DEF Layout, Tiles
  <2> QED  BY <1>2, <2>1, <2>2, <2>3 DEF Tiles
<1>4. NoEmptyBlock(other)
  BY <1>1 DEF Layout, NoEmptyBlock
<1>5. Ordered(other)
  BY <1>1 DEF Layout, Ordered
<1> QED  BY <1>3, <1>4, <1>5 DEF Layout

(* Joining two neighbours. *)
LEMMA AbsorbLayout ==
  ASSUME NEW total \in Nat, NEW bs, Layout(bs, total),
         NEW i \in DOMAIN bs, i < Len(bs),
         NEW joined, joined = Absorb(bs, i)
  PROVE  /\ Layout(joined, total)
         /\ Len(joined) = Len(bs) - 1
         /\ \A j \in 1 .. Len(bs) - 1 :
              joined[j].isUsed = IF j <= i THEN bs[j].isUsed ELSE bs[j+1].isUsed
<1>1. /\ Len(bs) \in Nat /\ DOMAIN bs = 1 .. Len(bs) /\ bs \in Seq(BlockType)
      /\ i \in 1 .. Len(bs) /\ i + 1 \in 1 .. Len(bs)
  BY LenProperties DEF Layout
<1>2. \A j \in 1 .. Len(bs) : /\ bs[j].startAdress \in Nat /\ bs[j].size \in Nat
                              /\ bs[j].isUsed \in BOOLEAN
  BY <1>1, BlocksTyped
<1>3. \A j \in 1 .. Len(bs) : bs[j].size > 0
  BY <1>1, <1>2 DEF Layout, NoEmptyBlock
<1>4. \A j \in 1 .. Len(bs) : j < Len(bs) =>
         bs[j+1].startAdress = bs[j].startAdress + bs[j].size
  BY <1>1 DEF Layout, Tiles
<1> DEFINE b == Block(bs[i].startAdress, bs[i].size + bs[i+1].size, bs[i].isUsed)
<1>5. /\ joined \in Seq(BlockType) /\ Len(joined) = Len(bs) - 1
      /\ DOMAIN joined = 1 .. Len(bs) - 1
      /\ \A j \in 1 .. Len(bs) - 1 :
           joined[j] = IF j < i THEN bs[j] ELSE IF j = i THEN b ELSE bs[j+1]
  <2>1. bs \in Seq(BlockType) /\ i \in DOMAIN bs /\ i < Len(bs) /\ joined = Absorb(bs, i)
    BY <1>1
  <2> QED  BY ONLY <2>1, AbsorbJoins DEF b
<1>6. bs[i].size + bs[i+1].size \in Nat
  BY <1>1, <1>2
<1>7. /\ b.startAdress = bs[i].startAdress
      /\ b.size = bs[i].size + bs[i+1].size
      /\ b.isUsed = bs[i].isUsed
  BY ONLY DEF b, Block
<1> HIDE DEF b
<1>8. \A j \in 1 .. Len(bs) - 1 :
        /\ j \in 1 .. Len(bs) /\ j + 1 \in 1 .. Len(bs)
        /\ j < i => joined[j] = bs[j]
        /\ j = i => joined[j] = b
        /\ j > i => joined[j] = bs[j+1]
  BY <1>1, <1>5
(* Where each block of the result starts, and where it ends. *)
<1>9. \A j \in 1 .. Len(bs) - 1 :
        /\ joined[j].startAdress = IF j <= i THEN bs[j].startAdress ELSE bs[j+1].startAdress
        /\ joined[j].startAdress + joined[j].size =
              IF j < i THEN bs[j].startAdress + bs[j].size
              ELSE bs[j+1].startAdress + bs[j+1].size
        /\ joined[j].size > 0
  <2> TAKE j \in 1 .. Len(bs) - 1
  <2>1. CASE j < i
    BY <1>1, <1>3, <1>8, <2>1
  <2>2. CASE j = i
    <3>1. /\ joined[j].startAdress = bs[i].startAdress
          /\ joined[j].size = bs[i].size + bs[i+1].size
      BY <1>7, <1>8, <2>2
    <3>2. bs[i+1].startAdress = bs[i].startAdress + bs[i].size
      BY <1>1, <1>4
    <3>3. /\ bs[i].startAdress \in Nat /\ bs[i].size \in Nat /\ bs[i+1].size \in Nat
          /\ bs[i].size > 0
      BY <1>1, <1>2, <1>3
    <3> QED  BY <1>1, <2>2, <3>1, <3>2, <3>3
  <2>3. CASE j > i
    BY <1>1, <1>3, <1>8, <2>3
  <2> QED  BY <1>1, <2>1, <2>2, <2>3
<1>10. Tiles(joined, total)
  <2>1. 1 \in 1 .. Len(bs) - 1 /\ Len(bs) - 1 \in 1 .. Len(bs) - 1 /\ joined # <<>>
    BY <1>1, <1>5, EmptySeq
  <2>2. joined[1].startAdress = 0
    BY <1>1, <1>9, <2>1 DEF Layout, Tiles
  <2>3. \A j \in DOMAIN joined : j < Len(joined) =>
           joined[j+1].startAdress = joined[j].startAdress + joined[j].size
    <3> SUFFICES ASSUME NEW j \in 1 .. Len(bs) - 1, j < Len(bs) - 1
                 PROVE  joined[j+1].startAdress = joined[j].startAdress + joined[j].size
      BY <1>5
    <3>1. j \in 1 .. Len(bs) /\ j + 1 \in 1 .. Len(bs) - 1 /\ j + 1 < Len(bs)
      BY <1>1
    <3>2. CASE j < i
      BY <1>1, <1>4, <1>9, <3>1, <3>2
    <3>3. CASE ~(j < i)
      BY <1>1, <1>4, <1>9, <3>1, <3>3
    <3> QED  BY <3>2, <3>3
  <2>4. bs[Len(bs)].startAdress + bs[Len(bs)].size = total
    BY DEF Layout, Tiles
  <2>5. ~(Len(bs) - 1 < i) /\ (Len(bs) - 1) + 1 = Len(bs)
    BY <1>1
  <2>6. joined[Len(joined)].startAdress + joined[Len(joined)].size = total
    BY <1>1, <1>5, <1>9, <2>1, <2>4, <2>5
  <2> QED  BY <2>1, <2>2, <2>3, <2>6 DEF Tiles
<1>11. NoEmptyBlock(joined)
  BY <1>5, <1>9 DEF NoEmptyBlock
<1>12. Ordered(joined)
  <2> SUFFICES ASSUME NEW j \in 1 .. Len(bs) - 1, NEW k \in 1 .. Len(bs) - 1, j < k
               PROVE  joined[j].startAdress + joined[j].size <= joined[k].startAdress
    BY <1>5 DEF Ordered
  <2>1. \A m, n \in 1 .. Len(bs) : m < n => bs[m].startAdress + bs[m].size <= bs[n].startAdress
    BY <1>1 DEF Layout, Ordered
  <2>2. CASE k <= i
    BY <1>1, <1>8, <1>9, <2>1, <2>2
  <2>3. CASE k > i
    BY <1>1, <1>8, <1>9, <2>1, <2>3
  <2> QED  BY <1>1, <2>2, <2>3
<1>13. \A j \in 1 .. Len(bs) - 1 :
         joined[j].isUsed = IF j <= i THEN bs[j].isUsed ELSE bs[j+1].isUsed
  BY <1>1, <1>7, <1>8, SMTT(20)
<1> QED  BY <1>5, <1>10, <1>11, <1>12, <1>13 DEF Layout

(* Clearing the mark of a block and joining it to its free neighbours: only *)
(* the pairs the block belonged to can be free side by side in between.     *)
LEMMA UnmarkLayout ==
  ASSUME NEW total \in Nat, NEW bs, WellFormed(bs, total), NEW i \in DOMAIN bs,
         NEW clear, clear = Unmark(bs, i)
  PROVE  /\ Layout(clear, total)
         /\ Len(clear) = Len(bs)
         /\ ~clear[i].isUsed
         /\ \A j \in 1 .. Len(bs) : j # i => clear[j] = bs[j]
<1> DEFINE b == Block(bs[i].startAdress, bs[i].size, FALSE)
<1>1. bs \in Seq(BlockType) /\ Layout(bs, total)
  BY DEF WellFormed, Layout
<1>2. bs[i].startAdress \in Nat /\ bs[i].size \in Nat /\ DOMAIN bs = 1 .. Len(bs)
  BY <1>1, BlocksTyped
<1>3. /\ b \in BlockType /\ b.startAdress = bs[i].startAdress
      /\ b.size = bs[i].size /\ b.isUsed = FALSE
  BY <1>2, BlockFields, ZenonT(40)
<1> HIDE DEF b
<1>4. /\ clear \in Seq(BlockType) /\ Len(clear) = Len(bs)
      /\ \A j \in 1 .. Len(bs) : clear[j] = IF j = i THEN b ELSE bs[j]
  <2>1. clear = [bs EXCEPT ![i] = b]
    BY DEF Unmark, b
  <2>2. bs \in Seq(BlockType) /\ i \in DOMAIN bs /\ b \in BlockType
    BY <1>1, <1>3
  <2> QED  BY ONLY <2>1, <2>2, Replaced
<1>5. \A j \in 1 .. Len(bs) : /\ clear[j].startAdress = bs[j].startAdress
                              /\ clear[j].size = bs[j].size
  BY <1>3, <1>4
<1>6. Layout(clear, total)
  BY <1>1, <1>4, <1>5, MarksDoNotMatter
<1> QED  BY <1>2, <1>3, <1>4, <1>6

LEMMA JoinLeftLayout ==
  ASSUME NEW total \in Nat, NEW bs, Layout(bs, total), NEW i \in DOMAIN bs,
         ~bs[i].isUsed, CoalescedBut(bs, {i - 1, i}),
         NEW joined, joined = JoinLeft(bs, i),
         NEW k, k = IF FreeBefore(bs, i) THEN i - 1 ELSE i
  PROVE  /\ Layout(joined, total)
         /\ k \in DOMAIN joined /\ ~joined[k].isUsed
         /\ CoalescedBut(joined, {k})
<1>1. /\ Len(bs) \in Nat /\ DOMAIN bs = 1 .. Len(bs) /\ i \in 1 .. Len(bs)
  BY LenProperties DEF Layout
<1>2. CASE FreeBefore(bs, i)
  <2>1. /\ i - 1 \in DOMAIN bs /\ i - 1 < Len(bs) /\ k = i - 1 /\ ~bs[i-1].isUsed
        /\ joined = Absorb(bs, i - 1)
    BY <1>1, <1>2 DEF FreeBefore, JoinLeft
  <2>2. /\ Layout(joined, total) /\ Len(joined) = Len(bs) - 1
        /\ \A j \in 1 .. Len(bs) - 1 :
             joined[j].isUsed = IF j <= i - 1 THEN bs[j].isUsed ELSE bs[j+1].isUsed
    BY <2>1, AbsorbLayout
  <2>3. DOMAIN joined = 1 .. Len(bs) - 1
    BY <2>2, LenProperties DEF Layout
  <2>4. k \in DOMAIN joined /\ ~joined[k].isUsed
    BY <1>1, <2>1, <2>2, <2>3
  <2>5. CoalescedBut(joined, {k})
    <3> SUFFICES ASSUME NEW j \in 1 .. Len(bs) - 1, j < Len(bs) - 1, j # i - 1
                 PROVE  joined[j].isUsed \/ joined[j+1].isUsed
      BY <2>1, <2>2, <2>3 DEF CoalescedBut
    <3>1. j + 1 \in 1 .. Len(bs) - 1
      BY <1>1
    <3>2. CASE j < i - 1
      <4>1. joined[j].isUsed = bs[j].isUsed /\ joined[j+1].isUsed = bs[j+1].isUsed
        BY <1>1, <2>2, <3>1, <3>2
      <4>2. j \in DOMAIN bs /\ j < Len(bs) /\ j \notin {i - 1, i}
        BY <1>1, <3>2
      <4> QED  BY <4>1, <4>2 DEF CoalescedBut
    <3>3. CASE j > i - 1
      <4>1. joined[j].isUsed = bs[j+1].isUsed /\ joined[j+1].isUsed = bs[(j+1)+1].isUsed
        BY <1>1, <2>2, <3>1, <3>3
      <4>2. j + 1 \in DOMAIN bs /\ j + 1 < Len(bs) /\ j + 1 \notin {i - 1, i}
        BY <1>1, <3>3
      <4> QED  BY <4>1, <4>2 DEF CoalescedBut
    <3> QED  BY <1>1, <3>2, <3>3
  <2> QED  BY <2>2, <2>4, <2>5
<1>3. CASE ~FreeBefore(bs, i)
  <2>1. joined = bs /\ k = i
    BY <1>3 DEF JoinLeft
  <2>2. CoalescedBut(bs, {i})
    <3> SUFFICES ASSUME NEW j \in DOMAIN bs, j < Len(bs), j # i
                 PROVE  bs[j].isUsed \/ bs[j+1].isUsed
      BY DEF CoalescedBut
    <3>1. CASE j = i - 1
      BY <1>1, <1>3, <3>1 DEF FreeBefore
    <3>2. CASE j # i - 1
      BY <3>2 DEF CoalescedBut
    <3> QED  BY <3>1, <3>2
  <2> QED  BY <2>1, <2>2
<1> QED  BY <1>2, <1>3

LEMMA JoinRightLayout ==
  ASSUME NEW total \in Nat, NEW bs, Layout(bs, total), NEW k \in DOMAIN bs,
         ~bs[k].isUsed, CoalescedBut(bs, {k}),
         NEW joined, joined = JoinRight(bs, k)
  PROVE  WellFormed(joined, total)
<1>1. /\ Len(bs) \in Nat /\ DOMAIN bs = 1 .. Len(bs) /\ k \in 1 .. Len(bs)
  BY LenProperties DEF Layout
<1>2. CASE FreeAfter(bs, k)
  <2>1. /\ k < Len(bs) /\ ~bs[k+1].isUsed /\ joined = Absorb(bs, k)
    BY <1>2 DEF FreeAfter, JoinRight
  <2>2. /\ Layout(joined, total) /\ Len(joined) = Len(bs) - 1
        /\ \A j \in 1 .. Len(bs) - 1 :
             joined[j].isUsed = IF j <= k THEN bs[j].isUsed ELSE bs[j+1].isUsed
    BY <2>1, AbsorbLayout
  <2>3. DOMAIN joined = 1 .. Len(bs) - 1
    BY <2>2, LenProperties DEF Layout
  <2>4. Coalesced(joined)
    <3> SUFFICES ASSUME NEW j \in 1 .. Len(bs) - 1, j < Len(bs) - 1
                 PROVE  joined[j].isUsed \/ joined[j+1].isUsed
      BY <2>2, <2>3 DEF Coalesced
    <3>1. j + 1 \in 1 .. Len(bs) - 1
      BY <1>1
    <3>2. CASE j < k
      <4>1. joined[j].isUsed = bs[j].isUsed /\ joined[j+1].isUsed = bs[j+1].isUsed
        BY <1>1, <2>2, <3>1, <3>2
      <4>2. j \in DOMAIN bs /\ j < Len(bs) /\ j \notin {k}
        BY <1>1, <3>2
      <4> QED  BY <4>1, <4>2 DEF CoalescedBut
    <3>3. CASE j >= k
      <4>1. joined[j+1].isUsed = bs[(j+1)+1].isUsed
        BY <1>1, <2>2, <3>1, <3>3
      <4>2. j > k => joined[j].isUsed = bs[j+1].isUsed
        BY <1>1, <2>2
      <4>3. j + 1 \in DOMAIN bs /\ j + 1 < Len(bs) /\ j + 1 \notin {k}
        BY <1>1, <3>3
      <4>4. bs[j+1].isUsed \/ bs[(j+1)+1].isUsed
        BY <4>3 DEF CoalescedBut
      <4> QED  BY <1>1, <2>1, <3>3, <4>1, <4>2, <4>4
    <3> QED  BY <1>1, <3>2, <3>3
  <2> QED  BY <2>2, <2>4 DEF WellFormed
<1>3. CASE ~FreeAfter(bs, k)
  <2>1. joined = bs
    BY <1>3 DEF JoinRight
  <2>2. Coalesced(bs)
    BY <1>3 DEF Coalesced, CoalescedBut, FreeAfter
  <2> QED  BY <2>1, <2>2 DEF WellFormed
<1> QED  BY <1>2, <1>3

(* So does mem_free, which joins a block to both sides: first to the left ... *)
LEMMA ReleaseLeft ==
  ASSUME NEW total \in Nat, NEW bs, WellFormed(bs, total), NEW i \in DOMAIN bs,
         NEW clear, clear = Unmark(bs, i),
         NEW k, k = IF FreeBefore(bs, i) THEN i - 1 ELSE i
  PROVE  /\ Layout(clear, total) /\ i \in DOMAIN clear /\ ~clear[i].isUsed
         /\ Layout(JoinLeft(clear, i), total) /\ k \in DOMAIN JoinLeft(clear, i)
         /\ ~JoinLeft(clear, i)[k].isUsed /\ CoalescedBut(JoinLeft(clear, i), {k})
<1>1. i \in DOMAIN bs
  OBVIOUS
<1>2. /\ Layout(clear, total) /\ Len(clear) = Len(bs)
      /\ ~clear[i].isUsed
      /\ \A j \in 1 .. Len(bs) : j # i => clear[j] = bs[j]
  <2>1. total \in Nat /\ WellFormed(bs, total) /\ i \in DOMAIN bs /\ clear = Unmark(bs, i)
    BY <1>1
  <2> QED  BY ONLY <2>1, UnmarkLayout
<1>3. /\ Len(bs) \in Nat /\ DOMAIN bs = 1 .. Len(bs) /\ i \in 1 .. Len(bs)
      /\ DOMAIN clear = 1 .. Len(bs)
  BY <1>1, <1>2, LenProperties DEF WellFormed, Layout
<1>4. ~clear[i].isUsed /\ CoalescedBut(clear, {i - 1, i})
  <2> SUFFICES ASSUME NEW j \in 1 .. Len(bs), j < Len(bs), j # i - 1, j # i
               PROVE  clear[j].isUsed \/ clear[j+1].isUsed
    BY <1>2, <1>3 DEF CoalescedBut
  <2>1. j + 1 \in 1 .. Len(bs) /\ j + 1 # i
    BY <1>3
  <2>2. bs[j].isUsed \/ bs[j+1].isUsed
    BY <1>3 DEF WellFormed, Coalesced
  <2> QED  BY <1>2, <2>1, <2>2
<1>5. k = IF FreeBefore(clear, i) THEN i - 1 ELSE i
  <2>1. i > 1 => i - 1 \in 1 .. Len(bs) /\ i - 1 # i
    BY <1>3
  <2>2. i > 1 => clear[i-1].isUsed = bs[i-1].isUsed
    BY <1>2, <2>1
  <2> QED  BY <2>2 DEF FreeBefore
<1>6. /\ Layout(JoinLeft(clear, i), total) /\ k \in DOMAIN JoinLeft(clear, i)
      /\ ~JoinLeft(clear, i)[k].isUsed /\ CoalescedBut(JoinLeft(clear, i), {k})
  <2>1. /\ total \in Nat /\ Layout(clear, total) /\ i \in DOMAIN clear
        /\ ~clear[i].isUsed /\ CoalescedBut(clear, {i - 1, i})
        /\ k = IF FreeBefore(clear, i) THEN i - 1 ELSE i
    BY <1>2, <1>3, <1>4, <1>5
  <2> QED  BY ONLY <2>1, JoinLeftLayout
<1> QED  BY <1>2, <1>3, <1>6

(* ... then to the right ... *)
LEMMA ReleaseWellFormed ==
  ASSUME NEW total \in Nat, NEW bs, WellFormed(bs, total), NEW i \in DOMAIN bs
  PROVE  WellFormed(Release(bs, i), total)
<1> PICK clear : clear = Unmark(bs, i)
  OBVIOUS
<1> PICK k : k = IF FreeBefore(bs, i) THEN i - 1 ELSE i
  OBVIOUS
<1> PICK left : left = JoinLeft(clear, i)
  OBVIOUS
<1>1. Layout(left, total) /\ k \in DOMAIN left /\ ~left[k].isUsed /\ CoalescedBut(left, {k})
  BY ReleaseLeft
<1>2. Release(bs, i) = JoinRight(left, k)
  BY DEF Release
<1> QED  BY <1>1, <1>2, JoinRightLayout

(* ... whatever address it is given. *)
LEMMA AfterFreeWellFormed ==
  ASSUME NEW total \in Nat, NEW bs, WellFormed(bs, total), NEW p
  PROVE  WellFormed(AfterFree(bs, p), total)
<1>1. CASE \E i \in FirstAt(bs, p) : bs[i].isUsed
  <2> DEFINE i == CHOOSE i \in FirstAt(bs, p) : TRUE
  <2>1. i \in DOMAIN bs /\ AfterFree(bs, p) = Release(bs, i)
    <3>1. i \in FirstAt(bs, p)
      BY <1>1
    <3> QED  BY <1>1, <3>1 DEF FirstAt, AfterFree
  <2> QED  BY <2>1, ReleaseWellFormed
<1>2. CASE ~\E i \in FirstAt(bs, p) : bs[i].isUsed
  BY <1>2 DEF AfterFree
<1> QED  BY <1>1, <1>2

(* Where the blocks are after a split, position by position. *)
IsSplit(cut, bs, i, size) ==
  /\ cut \in Seq(BlockType) /\ Len(cut) = Len(bs) + 1 /\ DOMAIN cut = 1 .. Len(bs) + 1
  /\ \A j \in 1 .. Len(bs) + 1 :
       cut[j] = IF j < i THEN bs[j]
                ELSE IF j = i THEN Block(bs[i].startAdress, size, TRUE)
                ELSE IF j = i + 1
                THEN Block(bs[i].startAdress + size, bs[i].size - size, FALSE)
                ELSE bs[j-1]

LEMMA CarvePositions ==
  ASSUME NEW bs \in Seq(BlockType), NEW i \in DOMAIN bs, NEW size \in Nat, size < bs[i].size
  PROVE  IsSplit(Carve(bs, i, size), bs, i, size)
<1> DEFINE b == Block(bs[i].startAdress, size, TRUE)
           r == Block(bs[i].startAdress + size, bs[i].size - size, FALSE)
           n == Len(bs) + 1
           cut == Carve(bs, i, size)
<1>1. /\ Len(bs) \in Nat /\ DOMAIN bs = 1 .. Len(bs) /\ i \in 1 .. Len(bs)
      /\ bs[i].startAdress \in Nat /\ bs[i].size \in Nat
  BY BlocksTyped
<1>2. bs[i].startAdress + size \in Nat /\ bs[i].size - size \in Nat /\ bs[i].size # size
  BY <1>1
<1>3. b \in BlockType /\ r \in BlockType
  BY <1>1, <1>2, BlockFields
<1> DEFINE marked == [bs EXCEPT ![i] = b]
           k == i + 1
<1>4. cut = InsertAt(marked, k, r)
  BY <1>2 DEF Carve
<1>5. bs \in Seq(BlockType) /\ i \in DOMAIN bs /\ b \in BlockType /\ r \in BlockType
  BY <1>3
<1> HIDE DEF b, r, cut
<1>6. /\ marked \in Seq(BlockType) /\ Len(marked) = Len(bs)
      /\ \A j \in 1 .. Len(bs) : marked[j] = IF j = i THEN b ELSE bs[j]
  BY ONLY <1>5, Replaced
<1>7. k \in 1 .. Len(marked) + 1
  BY <1>1, <1>6
<1> HIDE DEF marked, k, n
<1>8. /\ InsertAt(marked, k, r) \in Seq(BlockType)
      /\ Len(InsertAt(marked, k, r)) = Len(marked) + 1
      /\ DOMAIN InsertAt(marked, k, r) = 1 .. Len(marked) + 1
      /\ \A j \in 1 .. Len(marked) + 1 :
            InsertAt(marked, k, r)[j] = IF j < k THEN marked[j]
                                        ELSE IF j = k THEN r ELSE marked[j-1]
  <2>1. marked \in Seq(BlockType) /\ r \in BlockType /\ k \in 1 .. Len(marked) + 1
    BY <1>5, <1>6, <1>7
  <2> QED  BY ONLY <2>1, InsertAtProperties
<1>9. cut \in Seq(BlockType) /\ Len(cut) = n /\ DOMAIN cut = 1 .. n
  BY ONLY <1>4, <1>6, <1>8 DEF n
<1>10. \A j \in 1 .. n :
         cut[j] = IF j < i THEN bs[j] ELSE IF j = i THEN b
                  ELSE IF j = i + 1 THEN r ELSE bs[j-1]
  <2> TAKE j \in 1 .. n
  <2>1. cut[j] = IF j < k THEN marked[j] ELSE IF j = k THEN r ELSE marked[j-1]
    BY <1>4, <1>6, <1>8 DEF n
  <2>2. j < k => j \in 1 .. Len(bs) /\ marked[j] = IF j = i THEN b ELSE bs[j]
    BY <1>1, <1>6 DEF k, n
  <2>3. j > k => j - 1 \in 1 .. Len(bs) /\ j - 1 # i
    BY <1>1 DEF k, n
  <2>4. j > k => marked[j-1] = bs[j-1]
    BY <1>6, <2>3
  <2> QED  BY <1>1, <2>1, <2>2, <2>4 DEF k
<1> HIDE DEF marked, k
<1> QED  BY <1>9, <1>10 DEF n, b, r, cut, IsSplit

(* mem_alloc keeps the array well formed. *)
LEMMA CarveWellFormed ==
  ASSUME NEW total \in Nat, NEW bs, WellFormed(bs, total),
         NEW size \in Nat \ {0}, NEW i \in FirstFit(bs, size),
         NEW cut, cut = Carve(bs, i, size)
  PROVE  WellFormed(cut, total)
<1>1. /\ bs \in Seq(BlockType) /\ Len(bs) \in Nat /\ DOMAIN bs = 1 .. Len(bs)
      /\ i \in DOMAIN bs /\ ~bs[i].isUsed /\ size <= bs[i].size
      /\ size \in Nat
  BY LenProperties DEF WellFormed, Layout, FirstFit, Fits
<1>2. \A j \in 1 .. Len(bs) : /\ bs[j].startAdress \in Nat /\ bs[j].size \in Nat
                              /\ bs[j].isUsed \in BOOLEAN
  BY <1>1, BlocksTyped
<1>3. \A j \in 1 .. Len(bs) : j < Len(bs) => bs[j].isUsed \/ bs[j+1].isUsed
  BY <1>1 DEF WellFormed, Coalesced
<1> DEFINE b == Block(bs[i].startAdress, size, TRUE)
<1>4. /\ b \in BlockType /\ b.startAdress = bs[i].startAdress
      /\ b.size = size /\ b.isUsed = TRUE
  BY <1>1, <1>2, BlockFields, ZenonT(40)
<1>5. CASE bs[i].size = size
  <2>1. cut = [bs EXCEPT ![i] = b]
    BY <1>5 DEF Carve
  <2> HIDE DEF b
  <2>2. /\ cut \in Seq(BlockType) /\ Len(cut) = Len(bs) /\ DOMAIN cut = 1 .. Len(bs)
        /\ \A j \in 1 .. Len(bs) : cut[j] = IF j = i THEN b ELSE bs[j]
    <3>1. bs \in Seq(BlockType) /\ i \in DOMAIN bs /\ b \in BlockType
      BY <1>1, <1>4
    <3> QED  BY ONLY <2>1, <3>1, Replaced
  <2>3. \A j \in 1 .. Len(bs) : /\ cut[j].startAdress = bs[j].startAdress
                                /\ cut[j].size = bs[j].size
                                /\ bs[j].isUsed => cut[j].isUsed
    BY <1>4, <1>5, <2>2
  <2>4. Layout(cut, total)
    BY <2>2, <2>3, MarksDoNotMatter DEF WellFormed
  <2>5. Coalesced(cut)
    <3> SUFFICES ASSUME NEW j \in 1 .. Len(bs), j < Len(bs)
                 PROVE  cut[j].isUsed \/ cut[j+1].isUsed
      BY <2>2 DEF Coalesced
    <3>1. j + 1 \in 1 .. Len(bs)
      BY <1>1
    <3> QED  BY <1>3, <2>3, <3>1
  <2> QED  BY <2>4, <2>5 DEF WellFormed
<1>6. CASE bs[i].size # size
  <2> DEFINE r == Block(bs[i].startAdress + size, bs[i].size - size, FALSE)
             n == Len(bs) + 1
  <2>1. size < bs[i].size /\ bs[i].startAdress + size \in Nat /\ bs[i].size - size \in Nat
    BY <1>1, <1>2, <1>6
  <2>2. /\ r.startAdress = bs[i].startAdress + size
        /\ r.size = bs[i].size - size /\ r.isUsed = FALSE /\ r \in BlockType
    BY <2>1, BlockFields
  <2>3. /\ cut \in Seq(BlockType) /\ Len(cut) = n /\ DOMAIN cut = 1 .. n
        /\ \A j \in 1 .. n :
             cut[j] = IF j < i THEN bs[j] ELSE IF j = i THEN b
                      ELSE IF j = i + 1 THEN r ELSE bs[j-1]
    <3>1. /\ bs \in Seq(BlockType) /\ i \in DOMAIN bs /\ size \in Nat /\ size < bs[i].size
          /\ cut = Carve(bs, i, size)
      BY <1>1, <2>1
    <3>2. IsSplit(cut, bs, i, size)
      BY ONLY <3>1, CarvePositions
    <3> QED  BY ONLY <3>2 DEF n, b, r, IsSplit
  <2> HIDE DEF b, r
  <2>4. \A j \in 1 .. n :
          /\ j < i => cut[j] = bs[j] /\ j \in 1 .. Len(bs)
          /\ j = i => cut[j] = b
          /\ j = i + 1 => cut[j] = r
          /\ j > i + 1 => cut[j] = bs[j-1] /\ j - 1 \in 1 .. Len(bs)
    BY <1>1, <2>3
  (* Where each block of the result starts, and where it ends. *)
  <2>5. \A j \in 1 .. n :
          /\ cut[j].startAdress = IF j <= i THEN bs[j].startAdress
                                  ELSE IF j = i + 1 THEN bs[i].startAdress + size
                                  ELSE bs[j-1].startAdress
          /\ cut[j].startAdress + cut[j].size =
                IF j < i THEN bs[j].startAdress + bs[j].size
                ELSE IF j = i THEN bs[i].startAdress + size
                ELSE bs[j-1].startAdress + bs[j-1].size
          /\ cut[j].size > 0
    <3>1. \A j \in 1 .. Len(bs) : bs[j].size > 0
      BY <1>1, <1>2, <2>1 DEF WellFormed, Layout, NoEmptyBlock
    <3> TAKE j \in 1 .. n
    <3>2. CASE j < i
      BY <1>1, <2>4, <3>1, <3>2
    <3>3. CASE j = i
      BY <1>1, <1>4, <2>4, <3>3
    <3>4. CASE j = i + 1
      <4>1. cut[j].startAdress = bs[i].startAdress + size /\ cut[j].size = bs[i].size - size
        BY <2>2, <2>4, <3>4
      <4>2. j - 1 = i /\ ~(j <= i) /\ ~(j < i)
        BY <1>1, <3>4
      <4>3. bs[i].startAdress \in Nat /\ bs[i].size \in Nat
        BY <1>1, <1>2
      <4>4. cut[j].startAdress + cut[j].size = bs[i].startAdress + bs[i].size /\ cut[j].size > 0
        <5>1. \A x, y, z \in Int : (x + z) + (y - z) = x + y
          OBVIOUS
        <5>2. bs[i].size - size > 0
          BY <1>1, <2>1, <4>3
        <5>3. (bs[i].startAdress + size) + (bs[i].size - size) = bs[i].startAdress + bs[i].size
          BY <1>1, <4>3, <5>1
        <5> QED  BY <4>1, <5>2, <5>3
      <4> QED  BY <3>4, <4>1, <4>2, <4>4
    <3>5. CASE j > i + 1
      BY <1>1, <2>4, <3>1, <3>5
    <3> QED  BY <1>1, <3>2, <3>3, <3>4, <3>5
  <2>6. \A j \in 1 .. Len(bs) : j < Len(bs) =>
           bs[j+1].startAdress = bs[j].startAdress + bs[j].size
    BY <1>1 DEF WellFormed, Layout, Tiles
  <2>7. Tiles(cut, total)
    <3>1. 1 \in 1 .. n /\ n \in 1 .. n /\ 1 <= i /\ ~(n < i) /\ n # i /\ n - 1 = Len(bs)
      BY <1>1
    <3>2. cut[1].startAdress = 0 /\ cut # <<>>
      BY <2>3, <2>5, <3>1, EmptySeq DEF WellFormed, Layout, Tiles
    <3>3. \A j \in DOMAIN cut : j < Len(cut) =>
             cut[j+1].startAdress = cut[j].startAdress + cut[j].size
      <4> SUFFICES ASSUME NEW j \in 1 .. n, j < n
                   PROVE  cut[j+1].startAdress = cut[j].startAdress + cut[j].size
        BY <2>3
      <4>1. j + 1 \in 1 .. n
        BY <1>1
      <4>2. CASE j < i
        BY <1>1, <2>5, <2>6, <4>1, <4>2
      <4>3. CASE j = i
        BY <1>1, <2>5, <4>1, <4>3
      <4>4. CASE j > i
        <5>1. j - 1 \in 1 .. Len(bs) /\ j - 1 < Len(bs) /\ (j - 1) + 1 = j /\ (j + 1) - 1 = j
          BY <1>1, <4>4
        <5>2. bs[j].startAdress = bs[j-1].startAdress + bs[j-1].size
          BY <2>6, <5>1
        <5>3. cut[j+1].startAdress = bs[j].startAdress
          BY <1>1, <2>5, <4>1, <4>4, <5>1
        <5>4. cut[j].startAdress + cut[j].size = bs[j-1].startAdress + bs[j-1].size
          BY <1>1, <2>5, <4>4
        <5> QED  BY <5>2, <5>3, <5>4
      <4> QED  BY <1>1, <4>2, <4>3, <4>4
    <3>4. bs[Len(bs)].startAdress + bs[Len(bs)].size = total
      BY DEF WellFormed, Layout, Tiles
    <3>5. cut[Len(cut)].startAdress + cut[Len(cut)].size = total
      BY <2>3, <2>5, <3>1, <3>4
    <3> QED  BY <3>2, <3>3, <3>5 DEF Tiles
  <2>8. NoEmptyBlock(cut)
    BY <2>3, <2>5 DEF NoEmptyBlock
  <2>9. Ordered(cut)
    <3> SUFFICES ASSUME NEW j \in 1 .. n, NEW k \in 1 .. n, j < k
                 PROVE  cut[j].startAdress + cut[j].size <= cut[k].startAdress
      BY <2>3 DEF Ordered
    <3>1. \A l, m \in 1 .. Len(bs) : l < m => bs[l].startAdress + bs[l].size <= bs[m].startAdress
      BY <1>1 DEF WellFormed, Layout, Ordered
    <3>2. CASE k <= i
      BY <1>1, <2>4, <2>5, <3>1, <3>2
    <3>3. CASE k = i + 1
      <4>1. cut[k].startAdress = bs[i].startAdress + size
        BY <1>1, <2>5, <3>3
      <4>2. j < i => cut[j].startAdress + cut[j].size <= bs[i].startAdress
        BY <1>1, <2>4, <2>5, <3>1
      <4>3. j = i => cut[j].startAdress + cut[j].size = bs[i].startAdress + size
        BY <1>1, <2>5
      <4>4. cut[j].startAdress \in Nat /\ cut[j].size \in Nat
        BY <2>3, BlocksTyped
      <4>5. i \in Int /\ j \in Int /\ (j < i \/ j = i)
        BY <1>1, <3>3
      <4> QED  BY <1>1, <1>2, <4>1, <4>2, <4>3, <4>4, <4>5, SMTT(20)
    <3>4. CASE k > i + 1
      <4>1. cut[k].startAdress = bs[k-1].startAdress /\ k - 1 \in 1 .. Len(bs) /\ i < k - 1
        BY <1>1, <2>4, <2>5, <3>4
      <4>2. CASE j < i
        BY <1>1, <2>4, <2>5, <3>1, <4>1, <4>2
      <4>3. CASE j = i
        <5>1. bs[i].startAdress + bs[i].size <= bs[k-1].startAdress
          BY <1>1, <3>1, <4>1
        <5>2. cut[j].startAdress + cut[j].size = bs[i].startAdress + size
          BY <1>1, <2>5, <4>3
        <5>3. bs[k-1].startAdress \in Nat
          BY <1>2, <4>1
        <5> QED  BY <1>1, <1>2, <4>1, <5>1, <5>2, <5>3, SMTT(20)
      <4>4. CASE j > i
        <5>1. j - 1 \in 1 .. Len(bs) /\ j - 1 < k - 1
          BY <1>1, <4>4
        <5>2. cut[j].startAdress + cut[j].size = bs[j-1].startAdress + bs[j-1].size
          BY <1>1, <2>5, <4>4
        <5> QED  BY <3>1, <4>1, <5>1, <5>2
      <4> QED  BY <1>1, <4>2, <4>3, <4>4
    <3> QED  BY <1>1, <3>2, <3>3, <3>4
  <2>10. Coalesced(cut)
    <3> SUFFICES ASSUME NEW j \in 1 .. n, j < n
                 PROVE  cut[j].isUsed \/ cut[j+1].isUsed
      BY <2>3 DEF Coalesced
    <3>1. j + 1 \in 1 .. n
      BY <1>1
    <3>2. CASE j = i \/ j + 1 = i
      BY <1>4, <2>4, <3>1, <3>2
    <3>3. CASE j + 1 < i
      BY <1>1, <1>3, <2>4, <3>1, <3>3
    <3>4. CASE j = i + 1
      <4>1. cut[j+1] = bs[i+1] /\ i < Len(bs)
        BY <1>1, <2>4, <3>1, <3>4
      <4> QED  BY <1>1, <1>3, <4>1
    <3>5. CASE j > i + 1
      <4>1. j - 1 \in 1 .. Len(bs) /\ j - 1 < Len(bs) /\ (j - 1) + 1 = j /\ (j + 1) - 1 = j
        BY <1>1, <3>5
      <4>2. cut[j] = bs[j-1] /\ cut[j+1] = bs[j]
        BY <1>1, <2>4, <3>1, <3>5, <4>1
      <4> QED  BY <1>3, <4>1, <4>2
    <3> QED  BY <1>1, <3>2, <3>3, <3>4, <3>5
  <2> QED  BY <2>3, <2>7, <2>8, <2>9, <2>10 DEF WellFormed, Layout
<1> QED  BY <1>5, <1>6

(* mem_resize keeps the array well formed when it grows a block in place. *)
LEMMA GrowRightWellFormed ==
  ASSUME NEW total \in Nat, NEW bs, WellFormed(bs, total), NEW size \in Nat,
         NEW i \in DOMAIN bs, bs[i].size < size, CanGrowRight(bs, i, size)
  PROVE  WellFormed(GrowRight(bs, i, size), total)
<1> DEFINE k == i + 1
           rest == bs[k].size + bs[i].size - size
           a == Block(bs[i].startAdress, size, bs[i].isUsed)
           c == Block(bs[i].startAdress + size, rest, FALSE)
           wide == [bs EXCEPT ![i] = a]
           grown == [wide EXCEPT ![k] = c]
<1>1. /\ bs \in Seq(BlockType) /\ Len(bs) \in Nat /\ DOMAIN bs = 1 .. Len(bs)
      /\ i \in 1 .. Len(bs) /\ k \in 1 .. Len(bs) /\ i < Len(bs)
      /\ ~bs[k].isUsed /\ size <= bs[k].size + bs[i].size
  <2>1. bs \in Seq(BlockType) /\ Len(bs) \in Nat /\ DOMAIN bs = 1 .. Len(bs)
    BY LenProperties DEF WellFormed, Layout
  <2> QED  BY <2>1 DEF CanGrowRight, FreeAfter
<1>2. \A j \in 1 .. Len(bs) : /\ bs[j].startAdress \in Nat /\ bs[j].size \in Nat
                              /\ bs[j].isUsed \in BOOLEAN
  BY <1>1, BlocksTyped
<1>3. \A j \in 1 .. Len(bs) : bs[j].size > 0
  BY <1>1, <1>2 DEF WellFormed, Layout, NoEmptyBlock
<1>4. \A j \in 1 .. Len(bs) : j < Len(bs) =>
         /\ bs[j+1].startAdress = bs[j].startAdress + bs[j].size
         /\ bs[j].isUsed \/ bs[j+1].isUsed
  BY <1>1 DEF WellFormed, Layout, Tiles, Coalesced
<1>5. rest \in Nat /\ bs[i].startAdress + size \in Nat
  BY <1>1, <1>2, SMTT(20)
<1>6. /\ a \in BlockType /\ a.startAdress = bs[i].startAdress
      /\ a.size = size /\ a.isUsed = bs[i].isUsed
  <2>1. bs[i].startAdress \in Nat /\ size \in Nat /\ bs[i].isUsed \in BOOLEAN
    BY <1>1, <1>2
  <2> QED  BY ONLY <2>1, BlockFields
<1>7. /\ c \in BlockType /\ c.startAdress = bs[i].startAdress + size
      /\ c.size = rest /\ c.isUsed = FALSE
  BY <1>5, BlockFields
<1>8. GrowRight(bs, i, size) = IF rest = 0 THEN RemoveAt(grown, k) ELSE grown
  BY <1>1 DEF GrowRight
<1> HIDE DEF a, c
<1>9. /\ grown \in Seq(BlockType) /\ Len(grown) = Len(bs)
      /\ \A j \in 1 .. Len(bs) : grown[j] = IF j = k THEN c ELSE IF j = i THEN a ELSE bs[j]
  <2>1. bs \in Seq(BlockType) /\ i \in DOMAIN bs /\ a \in BlockType /\ c \in BlockType
    BY <1>1, <1>6, <1>7
  <2>2. /\ wide \in Seq(BlockType) /\ Len(wide) = Len(bs)
        /\ \A j \in 1 .. Len(bs) : wide[j] = IF j = i THEN a ELSE bs[j]
    BY ONLY <2>1, Replaced
  <2>3. k \in DOMAIN wide
    BY <1>1, <2>2, LenProperties
  <2> HIDE DEF wide, k
  <2>4. /\ grown \in Seq(BlockType) /\ Len(grown) = Len(wide)
        /\ \A j \in 1 .. Len(wide) : grown[j] = IF j = k THEN c ELSE wide[j]
    BY ONLY <2>1, <2>2, <2>3, Replaced
  <2> QED  BY ONLY <2>2, <2>4
<1> HIDE DEF grown, wide
<1>10. bs[i].isUsed
  BY <1>1, <1>4
<1>11. CASE rest = 0
  <2> DEFINE joined == Absorb(bs, i)
             b == Block(bs[i].startAdress, bs[i].size + bs[i+1].size, bs[i].isUsed)
             less == RemoveAt(grown, k)
  <2>1. b = a
    <3>1. \A x, y \in Nat : x + y - size = 0 => y + x = size
      OBVIOUS
    <3>2. bs[i].size + bs[i+1].size = size
      BY <1>1, <1>2, <1>11, <3>1
    <3> QED  BY <3>2 DEF a
  <2>2. /\ joined \in Seq(BlockType) /\ Len(joined) = Len(bs) - 1
        /\ \A j \in 1 .. Len(bs) - 1 :
             joined[j] = IF j < i THEN bs[j] ELSE IF j = i THEN b ELSE bs[j+1]
    <3>1. bs \in Seq(BlockType) /\ i \in DOMAIN bs /\ i < Len(bs)
      BY <1>1
    <3> QED  BY ONLY <3>1, AbsorbJoins
  <2>3. /\ Layout(joined, total)
        /\ \A j \in 1 .. Len(bs) - 1 :
             joined[j].isUsed = IF j <= i THEN bs[j].isUsed ELSE bs[j+1].isUsed
    BY <1>1, AbsorbLayout DEF WellFormed
  <2> HIDE DEF joined, b
  <2>4. k \in 1 .. Len(grown)
    BY <1>1, <1>9
  <2> HIDE DEF k
  <2>5. /\ less \in Seq(BlockType) /\ Len(less) = Len(grown) - 1
        /\ \A j \in 1 .. Len(grown) - 1 :
             less[j] = IF j < k THEN grown[j] ELSE grown[j+1]
    BY ONLY <1>9, <2>4, RemoveAtProperties
  <2> HIDE DEF less
  <2>6. \A j \in 1 .. Len(bs) - 1 : less[j] = joined[j]
    <3> TAKE j \in 1 .. Len(bs) - 1
    <3>1. j \in 1 .. Len(bs) /\ j + 1 \in 1 .. Len(bs)
      BY <1>1
    <3>2. less[j] = IF j < k THEN grown[j] ELSE grown[j+1]
      BY <1>9, <2>5
    <3>3. CASE j < i
      <4>1. j < k /\ j # k /\ j # i
        BY <1>1, <3>3 DEF k
      <4> QED  BY <1>9, <2>2, <3>1, <3>2, <3>3, <4>1
    <3>4. CASE j = i
      <4>1. j < k /\ j # k /\ ~(j < i)
        BY <1>1, <3>4 DEF k
      <4>2. less[j] = a
        BY <1>9, <3>1, <3>2, <3>4, <4>1
      <4>3. joined[j] = b
        BY <2>2, <3>4, <4>1
      <4> QED  BY <2>1, <4>2, <4>3
    <3>5. CASE j > i
      <4>1. ~(j < k) /\ j + 1 # k /\ j + 1 # i /\ ~(j < i) /\ j # i
        BY <1>1, <3>5 DEF k
      <4>2. less[j] = bs[j+1]
        BY <1>9, <3>1, <3>2, <4>1
      <4>3. joined[j] = bs[j+1]
        BY <2>2, <4>1
      <4> QED  BY <4>2, <4>3
    <3> QED  BY <1>1, <3>3, <3>4, <3>5
  <2>7. less = joined
    <3>1. Len(less) = Len(joined)
      BY <1>9, <2>2, <2>5
    <3>2. \A j \in 1 .. Len(less) : less[j] = joined[j]
      BY <2>2, <2>6, <3>1
    <3>3. less \in Seq(BlockType) /\ joined \in Seq(BlockType)
      BY <2>2, <2>5
    <3> QED  BY ONLY <3>1, <3>2, <3>3, SeqEqual
  <2>8. Coalesced(joined)
    <3> SUFFICES ASSUME NEW j \in 1 .. Len(bs) - 1, j < Len(bs) - 1
                 PROVE  joined[j].isUsed \/ joined[j+1].isUsed
      BY <2>2, LenProperties DEF Coalesced
    <3>1. j \in 1 .. Len(bs) /\ j + 1 \in 1 .. Len(bs) - 1 /\ j + 1 \in 1 .. Len(bs)
      BY <1>1
    <3>2. CASE j < i
      <4>1. joined[j].isUsed = bs[j].isUsed /\ joined[j+1].isUsed = bs[j+1].isUsed
        BY <1>1, <2>3, <3>1, <3>2
      <4> QED  BY <1>1, <1>4, <3>1, <4>1
    <3>3. CASE j = i
      BY <1>1, <1>10, <2>3, <3>3
    <3>4. CASE j > i
      <4>1. joined[j].isUsed = bs[j+1].isUsed /\ joined[j+1].isUsed = bs[(j+1)+1].isUsed
        BY <1>1, <2>3, <3>1, <3>4
      <4>2. bs[j+1].isUsed \/ bs[(j+1)+1].isUsed
        BY <1>1, <1>4, <3>1
      <4> QED  BY <4>1, <4>2
    <3> QED  BY <1>1, <3>2, <3>3, <3>4
  <2>9. GrowRight(bs, i, size) = less
    BY <1>8, <1>11 DEF less
  <2> QED  BY <2>3, <2>7, <2>8, <2>9 DEF WellFormed
<1>12. CASE rest # 0
  <2>1. GrowRight(bs, i, size) = grown /\ DOMAIN grown = 1 .. Len(bs)
    BY <1>8, <1>9, <1>12, LenProperties
  <2>2. \A j \in 1 .. Len(bs) :
          /\ j = i => grown[j] = a
          /\ j = k => grown[j] = c
          /\ j # i /\ j # k => grown[j] = bs[j]
    BY <1>1, <1>9
  (* Only the border between the two blocks has moved. *)
  <2>3. \A j \in 1 .. Len(bs) :
          /\ grown[j].startAdress = IF j = k THEN bs[i].startAdress + size
                                    ELSE bs[j].startAdress
          /\ grown[j].startAdress + grown[j].size =
                IF j = i THEN bs[i].startAdress + size
                ELSE bs[j].startAdress + bs[j].size
          /\ grown[j].size > 0
          /\ grown[j].isUsed = bs[j].isUsed
    <3> TAKE j \in 1 .. Len(bs)
    <3>1. CASE j = i
      BY <1>1, <1>2, <1>3, <1>6, <2>2, <3>1
    <3>2. CASE j = k
      <4>1. bs[k].startAdress = bs[i].startAdress + bs[i].size
        BY <1>1, <1>4
      <4>2. /\ bs[i].startAdress \in Nat /\ bs[i].size \in Nat /\ bs[k].size \in Nat
            /\ bs[k].isUsed = FALSE
        BY <1>1, <1>2
      <4>3. (bs[i].startAdress + size) + rest = (bs[i].startAdress + bs[i].size) + bs[k].size
        <5>1. \A x, y, z \in Nat : (x + size) + (z + y - size) = (x + y) + z
          OBVIOUS
        <5> QED  BY <4>2, <5>1
      <4>4. grown[j] = c /\ rest > 0
        BY <1>5, <1>12, <2>2, <3>2
      <4> HIDE DEF rest
      <4>5. j # i
        BY <1>1, <3>2
      <4>6. grown[j].startAdress + grown[j].size = bs[j].startAdress + bs[j].size
        BY <1>7, <3>2, <4>1, <4>3, <4>4
      <4> QED  BY <1>7, <3>2, <4>2, <4>4, <4>5, <4>6
    <3>3. CASE j # i /\ j # k
      BY <1>3, <2>2, <3>3
    <3> QED  BY <3>1, <3>2, <3>3
  <2>4. Tiles(grown, total)
    <3>1. 1 \in 1 .. Len(bs) /\ 1 # k /\ Len(bs) \in 1 .. Len(bs) /\ Len(bs) # i /\ grown # <<>>
      BY <1>1, <2>1, EmptySeq
    <3>2. grown[1].startAdress = 0
      BY <2>3, <3>1 DEF WellFormed, Layout, Tiles
    <3>3. \A j \in DOMAIN grown : j < Len(grown) =>
             grown[j+1].startAdress = grown[j].startAdress + grown[j].size
      <4> SUFFICES ASSUME NEW j \in 1 .. Len(bs), j < Len(bs)
                   PROVE  grown[j+1].startAdress = grown[j].startAdress + grown[j].size
        BY <1>9, <2>1
      <4>1. j + 1 \in 1 .. Len(bs) /\ (j + 1 = k <=> j = i)
        BY <1>1
      <4> HIDE DEF k
      <4> QED  BY <1>4, <2>3, <4>1
    <3>4. bs[Len(bs)].startAdress + bs[Len(bs)].size = total
      BY DEF WellFormed, Layout, Tiles
    <3>5. grown[Len(grown)].startAdress + grown[Len(grown)].size = total
      BY <1>9, <2>3, <3>1, <3>4
    <3> QED  BY <3>1, <3>2, <3>3, <3>5 DEF Tiles
  <2>5. NoEmptyBlock(grown)
    BY <2>1, <2>3 DEF NoEmptyBlock
  <2>6. Ordered(grown)
    <3> SUFFICES ASSUME NEW j \in 1 .. Len(bs), NEW m \in 1 .. Len(bs), j < m
                 PROVE  grown[j].startAdress + grown[j].size <= grown[m].startAdress
      BY <2>1 DEF Ordered
    <3>1. \A x, y \in 1 .. Len(bs) : x < y => bs[x].startAdress + bs[x].size <= bs[y].startAdress
      BY <1>1 DEF WellFormed, Layout, Ordered
    <3>2. bs[i].startAdress + size <= bs[k].startAdress + bs[k].size
      <4>1. bs[k].startAdress = bs[i].startAdress + bs[i].size
        BY <1>1, <1>4
      <4>2. \A x, y, z \in Nat : size <= z + y => x + size <= (x + y) + z
        OBVIOUS
      <4> QED  BY <1>1, <1>2, <4>1, <4>2
    <3>3. CASE m = k
      <4>1. j = i \/ (j < i /\ j # k)
        BY <1>1, <3>3
      <4>2. grown[m].startAdress = bs[i].startAdress + size
        BY <2>3, <3>3
      <4>3. CASE j = i
        BY <1>1, <1>2, <2>3, <4>2, <4>3
      <4>4. CASE j < i
        <5>1. grown[j].startAdress + grown[j].size = bs[j].startAdress + bs[j].size
          BY <1>1, <2>3, <4>4
        <5>2. bs[j].startAdress + bs[j].size <= bs[i].startAdress
          BY <1>1, <3>1, <4>4
        <5>3. i \in 1 .. Len(bs) /\ j \in 1 .. Len(bs)
          BY <1>1
        <5>4. bs[j].startAdress \in Nat /\ bs[j].size \in Nat /\ bs[i].startAdress \in Nat
          BY ONLY <1>2, <5>3
        <5> QED  BY ONLY size \in Nat, <4>2, <5>1, <5>2, <5>4
      <4> QED  BY <4>1, <4>3, <4>4
    <3>4. CASE m # k
      <4>1. grown[m].startAdress = bs[m].startAdress
        BY <2>3, <3>4
      <4>2. CASE j = i
        <5>1. k < m
          BY <1>1, <3>4, <4>2
        <5>2. bs[k].startAdress + bs[k].size <= bs[m].startAdress
          BY <1>1, <3>1, <5>1
        <5>3. grown[j].startAdress + grown[j].size = bs[i].startAdress + size
          BY <2>3, <4>2
        <5>4. \A x, y, z \in Nat : x <= y /\ y <= z => x <= z
          OBVIOUS
        <5>5. /\ bs[i].startAdress + size \in Nat /\ bs[m].startAdress \in Nat
              /\ bs[k].startAdress + bs[k].size \in Nat
          <6>1. bs[m].startAdress \in Nat
            BY <1>2
          <6>2. bs[k].startAdress \in Nat /\ bs[k].size \in Nat
            BY <1>1, <1>2
          <6>3. \A x, y \in Nat : x + y \in Nat
            OBVIOUS
          <6>4. bs[k].startAdress + bs[k].size \in Nat
            BY ONLY <6>2, <6>3
          <6> HIDE DEF k, rest
          <6> QED  BY ONLY <1>5, <6>1, <6>4
        <5> QED  BY <3>2, <4>1, <5>2, <5>3, <5>4, <5>5
      <4>3. CASE j # i
        BY <2>3, <3>1, <4>1, <4>3
      <4> QED  BY <4>2, <4>3
    <3> QED  BY <3>3, <3>4
  <2>7. Coalesced(grown)
    <3> SUFFICES ASSUME NEW j \in 1 .. Len(bs), j < Len(bs)
                 PROVE  grown[j].isUsed \/ grown[j+1].isUsed
      BY <1>9, <2>1 DEF Coalesced
    <3>1. j + 1 \in 1 .. Len(bs)
      BY <1>1
    <3> QED  BY <1>4, <2>3, <3>1
  <2> QED  BY <1>9, <2>1, <2>4, <2>5, <2>6, <2>7 DEF WellFormed, Layout
<1> QED  BY <1>11, <1>12

(* Where the blocks are after a growth: the border to the right neighbour    *)
(* has moved, or the neighbour is gone.                                     *)
IsGrown(new, bs, i, size) ==
  LET rest == bs[i+1].size + bs[i].size - size
      a    == Block(bs[i].startAdress, size, bs[i].isUsed)
      c    == Block(bs[i].startAdress + size, rest, FALSE)
  IN  /\ new \in Seq(BlockType)
      /\ rest # 0 => /\ Len(new) = Len(bs)
                     /\ \A j \in 1 .. Len(bs) :
                          new[j] = IF j = i + 1 THEN c ELSE IF j = i THEN a ELSE bs[j]
      /\ rest = 0 => /\ Len(new) = Len(bs) - 1
                     /\ \A j \in 1 .. Len(bs) - 1 :
                          new[j] = IF j < i THEN bs[j] ELSE IF j = i THEN a ELSE bs[j+1]

LEMMA GrowRightPositions ==
  ASSUME NEW bs \in Seq(BlockType), NEW size \in Nat, NEW i \in DOMAIN bs,
         CanGrowRight(bs, i, size)
  PROVE  IsGrown(GrowRight(bs, i, size), bs, i, size)
<1> DEFINE k == i + 1
           rest == bs[k].size + bs[i].size - size
           a == Block(bs[i].startAdress, size, bs[i].isUsed)
           c == Block(bs[i].startAdress + size, rest, FALSE)
           wide == [bs EXCEPT ![i] = a]
           grown == [wide EXCEPT ![k] = c]
           new == GrowRight(bs, i, size)
<1>1. /\ Len(bs) \in Nat /\ DOMAIN bs = 1 .. Len(bs) /\ i \in 1 .. Len(bs)
      /\ bs[i].startAdress \in Nat /\ bs[i].size \in Nat /\ bs[i].isUsed \in BOOLEAN
  BY BlocksTyped
<1>2. k \in DOMAIN bs /\ size <= bs[k].size + bs[i].size
  BY <1>1 DEF CanGrowRight, FreeAfter
<1>3. bs[k].size \in Nat
  BY <1>2, BlocksTyped
<1>4. rest \in Nat /\ bs[i].startAdress + size \in Nat
  BY <1>1, <1>2, <1>3
<1>5. a \in BlockType /\ c \in BlockType
  BY <1>1, <1>4, BlockFields
<1>6. new = IF rest = 0 THEN RemoveAt(grown, k) ELSE grown
  BY DEF GrowRight
<1> HIDE DEF a, c, new
<1>7. /\ grown \in Seq(BlockType) /\ Len(grown) = Len(bs)
      /\ \A j \in 1 .. Len(bs) : grown[j] = IF j = k THEN c ELSE IF j = i THEN a ELSE bs[j]
  <2>1. bs \in Seq(BlockType) /\ i \in DOMAIN bs /\ a \in BlockType /\ c \in BlockType
    BY <1>1, <1>5
  <2>2. /\ wide \in Seq(BlockType) /\ Len(wide) = Len(bs)
        /\ \A j \in 1 .. Len(bs) : wide[j] = IF j = i THEN a ELSE bs[j]
    BY ONLY <2>1, Replaced
  <2>3. k \in DOMAIN wide
    BY <1>1, <1>2, <2>2, LenProperties
  <2> HIDE DEF wide, k
  <2>4. /\ grown \in Seq(BlockType) /\ Len(grown) = Len(wide)
        /\ \A j \in 1 .. Len(wide) : grown[j] = IF j = k THEN c ELSE wide[j]
    BY ONLY <2>1, <2>2, <2>3, Replaced
  <2> QED  BY ONLY <2>2, <2>4
<1> HIDE DEF grown
<1>8. CASE rest # 0
  <2>1. new = grown
    BY <1>6, <1>8
  <2>2. /\ new \in Seq(BlockType) /\ Len(new) = Len(bs)
        /\ \A j \in 1 .. Len(bs) : new[j] = IF j = i + 1 THEN c ELSE IF j = i THEN a ELSE bs[j]
    BY <1>7, <2>1
  <2> QED  BY ONLY <1>8, <2>2 DEF IsGrown, rest, a, c, new
<1>9. CASE rest = 0
  <2>1. new = RemoveAt(grown, k)
    BY <1>6, <1>9
  <2>2. grown \in Seq(BlockType) /\ k \in 1 .. Len(grown)
    BY <1>1, <1>2, <1>7
  <2>3. /\ new \in Seq(BlockType) /\ Len(new) = Len(grown) - 1
        /\ \A j \in 1 .. Len(grown) - 1 : new[j] = IF j < k THEN grown[j] ELSE grown[j+1]
    <3> HIDE DEF k
    <3> QED  BY ONLY <2>1, <2>2, RemoveAtProperties
  <2>4. \A j \in 1 .. Len(bs) - 1 :
           new[j] = IF j < i THEN bs[j] ELSE IF j = i THEN a ELSE bs[j+1]
    <3> TAKE j \in 1 .. Len(bs) - 1
    <3>1. j \in 1 .. Len(bs) /\ j + 1 \in 1 .. Len(bs) /\ (j < k <=> j <= i)
      BY <1>1
    <3>2. j <= i => j # k
      BY <1>1
    <3>3. ~(j <= i) => j + 1 # k /\ j + 1 # i
      BY <1>1
    <3>4. new[j] = IF j <= i THEN grown[j] ELSE grown[j+1]
      BY <1>7, <2>3, <3>1
    <3> QED  BY <1>1, <1>7, <3>1, <3>2, <3>3, <3>4
  <2>5. new \in Seq(BlockType) /\ Len(new) = Len(bs) - 1
    BY <1>7, <2>3
  <2> QED  BY ONLY <1>9, <2>4, <2>5 DEF IsGrown, rest, a, c, new
<1> QED  BY <1>8, <1>9 DEF new

-----------------------------------------------------------------------------
(* Where blocks are. *)
LEMMA BlockInPool ==
  ASSUME NEW total \in Nat, NEW bs, Layout(bs, total), NEW i \in DOMAIN bs
  PROVE  /\ bs[i].startAdress \in Nat /\ bs[i].size \in Nat
         /\ bs[i].startAdress + bs[i].size <= total
<1>1. bs \in Seq(BlockType) /\ Len(bs) \in Nat /\ DOMAIN bs = 1 .. Len(bs)
  BY LenProperties DEF Layout
<1>2. Len(bs) \in DOMAIN bs
  BY <1>1
<1>3. \A j \in DOMAIN bs : bs[j].startAdress \in Nat /\ bs[j].size \in Nat
  BY <1>1, BlocksTyped
<1>4. bs[Len(bs)].startAdress + bs[Len(bs)].size = total
  BY DEF Layout, Tiles
<1>5. i < Len(bs) => bs[i].startAdress + bs[i].size <= bs[Len(bs)].startAdress
  BY <1>2 DEF Layout, Ordered
<1> QED  BY <1>1, <1>2, <1>3, <1>4, <1>5

(* In a well-formed array an address starts one block. *)
LEMMA OneBlockPerAddress ==
  ASSUME NEW total \in Nat, NEW bs, WellFormed(bs, total),
         NEW i \in DOMAIN bs, NEW j \in DOMAIN bs,
         bs[i].startAdress = bs[j].startAdress
  PROVE  i = j
<1>1. bs \in Seq(BlockType)
  BY DEF WellFormed, Layout
<1>2. Len(bs) \in Nat /\ DOMAIN bs = 1 .. Len(bs)
  BY <1>1, LenProperties
<1>3. \A k \in DOMAIN bs : bs[k].startAdress \in Nat /\ bs[k].size \in Nat
  BY <1>1, BlocksTyped
<1>4. i < j => bs[i].size > 0
  BY <1>2, <1>3 DEF WellFormed, Layout, NoEmptyBlock
<1>5. j < i => bs[j].size > 0
  BY <1>2, <1>3 DEF WellFormed, Layout, NoEmptyBlock
<1>6. i < j => bs[i].startAdress + bs[i].size <= bs[j].startAdress
  BY DEF WellFormed, Layout, Ordered
<1>7. j < i => bs[j].startAdress + bs[j].size <= bs[i].startAdress
  BY DEF WellFormed, Layout, Ordered
<1>8. \A x, y \in Nat : y > 0 => ~(x + y <= x)
  OBVIOUS
<1> QED  BY <1>2, <1>3, <1>4, <1>5, <1>6, <1>7, <1>8

(* The one block of a fresh pool. *)
LEMMA FreshPool ==
  ASSUME NEW size \in Nat
  PROVE  WellFormed(<<Block(0, size, FALSE)>>, size)
<1> DEFINE b == Block(0, size, FALSE)
<1>1. b \in BlockType /\ b.startAdress = 0 /\ b.size = size /\ b.isUsed = FALSE
  BY BlockFields
<1> HIDE DEF b
<1>2. /\ <<b>> \in Seq(BlockType) /\ Len(<<b>>) = 1 /\ DOMAIN <<b>> = {1}
      /\ <<b>>[1] = b /\ <<b>> # <<>>
  BY <1>1
<1>3. WellFormed(<<b>>, size)
  BY <1>1, <1>2 DEF WellFormed, Layout, Tiles, Coalesced, NoEmptyBlock, Ordered
<1> QED  BY <1>3 DEF b

-----------------------------------------------------------------------------
(* What the updates do to the blocks that are handed out, wherever the array *)
(* has them.                                                                 *)
HandedOut(bs) == {bs[i] : i \in {j \in DOMAIN bs : bs[j].isUsed}}

LEMMA UsedBlocksApart ==
  ASSUME NEW total \in Nat, NEW bs, WellFormed(bs, total),
         NEW b \in HandedOut(bs), NEW c \in HandedOut(bs), b.startAdress = c.startAdress
  PROVE  b = c
<1> PICK i \in DOMAIN bs : b = bs[i]
  BY DEF HandedOut
<1> PICK j \in DOMAIN bs : c = bs[j]
  BY DEF HandedOut
<1> QED  BY OneBlockPerAddress

LEMMA UsedBlocksDisjoint ==
  ASSUME NEW total \in Nat, NEW bs, WellFormed(bs, total),
         NEW b \in HandedOut(bs), NEW c \in HandedOut(bs)
  PROVE  /\ b.startAdress \in Nat /\ b.size \in Nat /\ b.startAdress + b.size <= total
         /\ b # c => \/ b.startAdress + b.size <= c.startAdress
                     \/ c.startAdress + c.size <= b.startAdress
<1> PICK i \in DOMAIN bs : b = bs[i]
  BY DEF HandedOut
<1> PICK j \in DOMAIN bs : c = bs[j]
  BY DEF HandedOut
<1>1. DOMAIN bs = 1 .. Len(bs) /\ Len(bs) \in Nat
  BY LenProperties DEF WellFormed, Layout
<1>2. i < j => bs[i].startAdress + bs[i].size <= bs[j].startAdress
  BY DEF WellFormed, Layout, Ordered
<1>3. j < i => bs[j].startAdress + bs[j].size <= bs[i].startAdress
  BY DEF WellFormed, Layout, Ordered
<1>4. b # c => i < j \/ j < i
  BY <1>1
<1>5. b.startAdress \in Nat /\ b.size \in Nat /\ b.startAdress + b.size <= total
  BY BlockInPool DEF WellFormed
<1> QED  BY <1>2, <1>3, <1>4, <1>5

LEMMA UsedBlocksTyped ==
  ASSUME NEW bs \in Seq(BlockType), NEW b \in HandedOut(bs)
  PROVE  /\ b.startAdress \in Nat /\ b.size \in Nat /\ b.isUsed
         /\ b = Block(b.startAdress, b.size, TRUE)
<1> PICK i \in DOMAIN bs : b = bs[i] /\ bs[i].isUsed
  BY DEF HandedOut
<1>1. i \in 1 .. Len(bs)
  BY LenProperties
<1>2. b \in BlockType
  BY <1>1, ElementOfSeq
<1> QED  BY <1>2 DEF BlockType, Block

LEMMA AbsorbUsed ==
  ASSUME NEW bs \in Seq(BlockType), NEW i \in DOMAIN bs, i < Len(bs),
         ~bs[i].isUsed, ~bs[i+1].isUsed
  PROVE  HandedOut(Absorb(bs, i)) = HandedOut(bs) /\ ~Absorb(bs, i)[i].isUsed
<1> PICK new : new = Absorb(bs, i)
  OBVIOUS
<1> PICK n : n = Len(bs)
  OBVIOUS
<1> PICK e : e = Block(bs[i].startAdress, bs[i].size + bs[i+1].size, bs[i].isUsed)
  OBVIOUS
<1>1. n \in Nat /\ DOMAIN bs = 1 .. n /\ i \in 1 .. n /\ i < n
  BY LenProperties
<1>2. /\ DOMAIN new = 1 .. n - 1
      /\ \A j \in 1 .. n - 1 : new[j] = IF j < i THEN bs[j] ELSE IF j = i THEN e ELSE bs[j+1]
  <2>1. /\ DOMAIN new = 1 .. Len(bs) - 1
        /\ \A j \in 1 .. Len(bs) - 1 :
              new[j] = IF j < i THEN bs[j]
                       ELSE IF j = i
                       THEN Block(bs[i].startAdress, bs[i].size + bs[i+1].size, bs[i].isUsed)
                       ELSE bs[j+1]
    <3>1. bs \in Seq(BlockType) /\ i \in DOMAIN bs /\ i < Len(bs) /\ new = Absorb(bs, i)
      OBVIOUS
    <3> QED  BY ONLY <3>1, AbsorbJoins
  <2> QED  BY <2>1
<1>3. e.isUsed = bs[i].isUsed
  BY DEF Block
<1>4. i \in 1 .. n - 1 /\ ~(i < i)
  BY ONLY <1>1
<1>5. ~new[i].isUsed
  BY <1>2, <1>3, <1>4
<1>6. ASSUME NEW j \in DOMAIN new, new[j].isUsed
      PROVE  \E k \in DOMAIN bs : bs[k].isUsed /\ bs[k] = new[j]
  <2>1. j # i
    BY <1>5, <1>6
  <2>2. /\ n \in Nat /\ i \in 1 .. n /\ j \in 1 .. n - 1 /\ j # i
    BY <1>1, <1>2, <2>1
  <2>3. j \in 1 .. n /\ j + 1 \in 1 .. n /\ (j < i \/ i < j) /\ (i < j => ~(j < i))
    BY ONLY <2>2
  <2>4. j < i => new[j] = bs[j]
    BY <1>2, <2>2
  <2>5. i < j => new[j] = bs[j+1]
    BY <1>2, <2>2, <2>3
  <2> QED  BY <1>1, <1>6, <2>3, <2>4, <2>5
<1>7. ASSUME NEW k \in DOMAIN bs, bs[k].isUsed
      PROVE  \E j \in DOMAIN new : new[j].isUsed /\ new[j] = bs[k]
  <2>1. k # i /\ k # i + 1
    BY <1>7
  <2>2. /\ n \in Nat /\ i \in 1 .. n - 1 /\ k \in 1 .. n /\ k # i /\ k # i + 1
    BY <1>1, <1>4, <2>1
  <2>3. /\ k < i \/ i + 1 < k
        /\ k < i => k \in 1 .. n - 1
        /\ i + 1 < k => k - 1 \in 1 .. n - 1 /\ ~(k - 1 < i) /\ k - 1 # i /\ (k - 1) + 1 = k
    BY ONLY <2>2
  <2>4. k < i => new[k] = bs[k]
    BY <1>2, <2>3
  <2>5. i + 1 < k => new[k-1] = bs[k]
    BY <1>2, <2>3
  <2> QED  BY <1>2, <1>7, <2>3, <2>4, <2>5
<1>8. HandedOut(new) = HandedOut(bs)
  BY <1>6, <1>7 DEF HandedOut
<1> QED  BY <1>5, <1>8

LEMMA UnmarkUsed ==
  ASSUME NEW total \in Nat, NEW bs, WellFormed(bs, total), NEW i \in DOMAIN bs
  PROVE  HandedOut(Unmark(bs, i)) = {b \in HandedOut(bs) : b.startAdress # bs[i].startAdress}
<1>1. bs \in Seq(BlockType) /\ DOMAIN bs = 1 .. Len(bs)
  BY LenProperties DEF WellFormed, Layout
<1> PICK e : e = Block(bs[i].startAdress, bs[i].size, FALSE)
  OBVIOUS
<1> PICK new : new = Unmark(bs, i)
  OBVIOUS
<1>2. e \in BlockType /\ e.isUsed = FALSE
  <2>1. bs[i].startAdress \in Nat /\ bs[i].size \in Nat
    BY <1>1, BlocksTyped
  <2> QED  BY <2>1 DEF Block, BlockType
<1>3. /\ DOMAIN new = DOMAIN bs
      /\ \A j \in DOMAIN bs : new[j] = IF j = i THEN e ELSE bs[j]
  BY <1>1, <1>2, Replaced DEF Unmark
<1>4. ASSUME NEW j \in DOMAIN bs
      PROVE  new[j].isUsed <=> bs[j].isUsed /\ bs[j].startAdress # bs[i].startAdress
  <2>1. CASE j = i
    BY <1>2, <1>3, <2>1
  <2>2. CASE j # i
    <3>1. bs[j].startAdress # bs[i].startAdress
      BY <2>2, OneBlockPerAddress
    <3> QED  BY <1>3, <2>2, <3>1
  <2> QED  BY <2>1, <2>2
<1>5. \A j \in DOMAIN bs : new[j].isUsed => new[j] = bs[j]
  BY <1>2, <1>3
<1>6. HandedOut(new) = {b \in HandedOut(bs) : b.startAdress # bs[i].startAdress}
  BY <1>3, <1>4, <1>5 DEF HandedOut
<1> QED  BY <1>6

LEMMA JoinRightUsed ==
  ASSUME NEW bs \in Seq(BlockType), NEW i \in DOMAIN bs, ~bs[i].isUsed
  PROVE  HandedOut(JoinRight(bs, i)) = HandedOut(bs)
<1>1. CASE FreeAfter(bs, i)
  <2>1. i < Len(bs) /\ ~bs[i+1].isUsed
    BY <1>1 DEF FreeAfter
  <2> QED  BY <1>1, <2>1, AbsorbUsed DEF JoinRight
<1>2. CASE ~FreeAfter(bs, i)
  BY <1>2 DEF JoinRight
<1> QED  BY <1>1, <1>2

LEMMA JoinLeftUsed ==
  ASSUME NEW bs \in Seq(BlockType), NEW i \in DOMAIN bs, ~bs[i].isUsed
  PROVE  HandedOut(JoinLeft(bs, i)) = HandedOut(bs)
<1>1. CASE FreeBefore(bs, i)
  <2> PICK k : k = i - 1
    OBVIOUS
  <2>1. Len(bs) \in Nat /\ DOMAIN bs = 1 .. Len(bs) /\ i > 1 /\ ~bs[k].isUsed
    BY <1>1, LenProperties DEF FreeBefore
  <2>2. k \in DOMAIN bs /\ k < Len(bs) /\ k + 1 = i
    BY <2>1
  <2>3. HandedOut(Absorb(bs, k)) = HandedOut(bs)
    BY <2>1, <2>2, AbsorbUsed
  <2> QED  BY <1>1, <2>3 DEF JoinLeft
<1>2. CASE ~FreeBefore(bs, i)
  BY <1>2 DEF JoinLeft
<1> QED  BY <1>1, <1>2

(* mem_free hands in the block it is given and none of the others ... *)
LEMMA ReleaseUsed ==
  ASSUME NEW total \in Nat, NEW bs, WellFormed(bs, total), NEW i \in DOMAIN bs
  PROVE  HandedOut(Release(bs, i)) = {b \in HandedOut(bs) : b.startAdress # bs[i].startAdress}
<1> PICK clear : clear = Unmark(bs, i)
  OBVIOUS
<1> PICK k : k = IF FreeBefore(bs, i) THEN i - 1 ELSE i
  OBVIOUS
<1> PICK left : left = JoinLeft(clear, i)
  OBVIOUS
<1>1. Layout(left, total) /\ k \in DOMAIN left /\ ~left[k].isUsed
  BY ReleaseLeft
<1>2. Release(bs, i) = JoinRight(left, k)
  BY DEF Release
<1>3. left \in Seq(BlockType)
  BY <1>1 DEF Layout
<1>4. HandedOut(JoinRight(left, k)) = HandedOut(left)
  BY <1>1, <1>3, JoinRightUsed
<1>5. clear \in Seq(BlockType) /\ i \in DOMAIN clear /\ ~clear[i].isUsed
  BY ReleaseLeft DEF Layout
<1>6. HandedOut(left) = HandedOut(clear)
  BY <1>5, JoinLeftUsed
<1> QED  BY <1>2, <1>4, <1>6, UnmarkUsed

(* ... whatever address it is given. *)
LEMMA AfterFreeUsed ==
  ASSUME NEW total \in Nat, NEW bs, WellFormed(bs, total), NEW p
  PROVE  HandedOut(AfterFree(bs, p)) = {b \in HandedOut(bs) : b.startAdress # p}
<1>1. CASE \E i \in FirstAt(bs, p) : bs[i].isUsed
  <2> PICK i : i = CHOOSE k \in FirstAt(bs, p) : TRUE
    OBVIOUS
  <2>1. i \in FirstAt(bs, p)
    BY <1>1
  <2>2. i \in DOMAIN bs /\ bs[i].startAdress = p /\ AfterFree(bs, p) = Release(bs, i)
    BY <1>1, <2>1 DEF FirstAt, AfterFree
  <2>3. HandedOut(Release(bs, i)) = {b \in HandedOut(bs) : b.startAdress # bs[i].startAdress}
    BY <2>2, ReleaseUsed, ZenonT(40)
  <2> QED  BY <2>2, <2>3
<1>2. CASE ~\E i \in FirstAt(bs, p) : bs[i].isUsed
  <2>1. ASSUME NEW i \in DOMAIN bs, bs[i].startAdress = p PROVE i \in FirstAt(bs, p)
    <3>1. \A j \in DOMAIN bs : bs[j].startAdress = p => j = i
      BY <2>1, OneBlockPerAddress
    <3>2. i \in Int
      BY LenProperties DEF WellFormed, Layout
    <3> QED  BY <2>1, <3>1, <3>2 DEF FirstAt
  <2>2. \A b \in HandedOut(bs) : b.startAdress # p
    BY <1>2, <2>1 DEF HandedOut
  <2> QED  BY <1>2, <2>2 DEF AfterFree
<1> QED  BY <1>1, <1>2

(* mem_alloc hands out one block more, which nobody has ... *)
LEMMA CarveUsed ==
  ASSUME NEW bs \in Seq(BlockType), NEW size \in Nat, NEW i \in FirstFit(bs, size)
  PROVE  HandedOut(Carve(bs, i, size)) = HandedOut(bs) \cup {Block(bs[i].startAdress, size, TRUE)}
<1> PICK n : n = Len(bs)
  OBVIOUS
<1> PICK new : new = Carve(bs, i, size)
  OBVIOUS
<1> PICK a : a = Block(bs[i].startAdress, size, TRUE)
  OBVIOUS
<1>1. /\ n \in Nat /\ DOMAIN bs = 1 .. n /\ i \in DOMAIN bs /\ i \in 1 .. n
      /\ bs[i].startAdress \in Nat /\ bs[i].size \in Nat /\ ~bs[i].isUsed /\ size <= bs[i].size
  BY LenProperties, BlocksTyped DEF FirstFit, Fits
<1>2. a \in BlockType /\ a.isUsed
  BY <1>1, BlockFields
<1>3. CASE bs[i].size = size
  <2>1. /\ DOMAIN new = 1 .. n
        /\ \A j \in 1 .. n : new[j] = IF j = i THEN a ELSE bs[j]
    BY <1>1, <1>2, <1>3, Replaced DEF Carve
  <2> QED  BY <1>1, <1>2, <2>1 DEF HandedOut
<1>4. CASE bs[i].size # size
  <2>1. size < bs[i].size
    BY <1>1, <1>4
  <2> PICK r : r = Block(bs[i].startAdress + size, bs[i].size - size, FALSE)
    OBVIOUS
  <2>2. r.isUsed = FALSE
    BY DEF Block
  <2>3. IsSplit(new, bs, i, size)
    BY <1>1, <2>1, CarvePositions
  <2>4. /\ DOMAIN new = 1 .. n + 1
        /\ \A j \in 1 .. n + 1 : new[j] = IF j < i THEN bs[j] ELSE IF j = i THEN a
                                          ELSE IF j = i + 1 THEN r ELSE bs[j-1]
    BY <2>3 DEF IsSplit
  <2>5. ASSUME NEW j \in DOMAIN new, new[j].isUsed
        PROVE  new[j] = a \/ \E k \in DOMAIN bs : bs[k].isUsed /\ bs[k] = new[j]
    <3>1. n \in Nat /\ i \in 1 .. n /\ j \in 1 .. n + 1
      BY <1>1, <2>4
    <3>2. /\ j < i \/ j = i \/ j = i + 1 \/ i + 1 < j
          /\ j < i => j \in 1 .. n
          /\ j = i => ~(j < i)
          /\ j = i + 1 => ~(j < i) /\ j # i
          /\ i + 1 < j => j - 1 \in 1 .. n /\ ~(j < i) /\ j # i /\ j # i + 1
      BY ONLY <3>1
    <3>3. j < i => new[j] = bs[j]
      BY <2>4
    <3>4. j = i => new[j] = a
      BY <2>4, <3>2
    <3>5. j # i + 1
      BY <2>2, <2>4, <2>5, <3>2
    <3>6. i + 1 < j => new[j] = bs[j-1]
      BY <2>4, <3>2
    <3> QED  BY <1>1, <2>5, <3>2, <3>3, <3>4, <3>5, <3>6
  <2>6. ASSUME NEW k \in DOMAIN bs, bs[k].isUsed
        PROVE  \E j \in DOMAIN new : new[j].isUsed /\ new[j] = bs[k]
    <3>1. n \in Nat /\ i \in 1 .. n /\ k \in 1 .. n /\ k # i
      BY <1>1, <2>6
    <3>2. /\ k < i \/ i < k
          /\ k < i => k \in 1 .. n + 1
          /\ i < k => k + 1 \in 1 .. n + 1 /\ ~(k + 1 < i) /\ k + 1 # i /\ k + 1 # i + 1
                      /\ (k + 1) - 1 = k
      BY ONLY <3>1
    <3>3. k < i => new[k] = bs[k]
      BY <2>4, <3>2
    <3>4. i < k => new[k+1] = bs[k]
      BY <2>4, <3>2
    <3> QED  BY <2>4, <2>6, <3>2, <3>3, <3>4
  <2>7. i \in DOMAIN new /\ new[i] = a
    <3>1. i \in 1 .. n + 1 /\ ~(i < i)
      <4>1. n \in Nat /\ i \in 1 .. n
        BY <1>1
      <4> QED  BY ONLY <4>1
    <3> QED  BY <2>4, <3>1
  <2>8. HandedOut(new) \subseteq HandedOut(bs) \cup {a}
    BY <2>5 DEF HandedOut
  <2>9. HandedOut(bs) \subseteq HandedOut(new)
    BY <2>6 DEF HandedOut
  <2>10. a \in HandedOut(new)
    BY <1>2, <2>7 DEF HandedOut
  <2> QED  BY <2>8, <2>9, <2>10
<1> QED  BY <1>3, <1>4

(* ... and mem_resize exchanges one in place. *)
LEMMA GrowRightUsed ==
  ASSUME NEW total \in Nat, NEW bs, WellFormed(bs, total), NEW size \in Nat,
         NEW i \in DOMAIN bs, CanGrowRight(bs, i, size), bs[i].isUsed
  PROVE  HandedOut(GrowRight(bs, i, size)) =
           (HandedOut(bs) \ {bs[i]}) \cup {Block(bs[i].startAdress, size, TRUE)}
<1> PICK n : n = Len(bs)
  OBVIOUS
<1> PICK new : new = GrowRight(bs, i, size)
  OBVIOUS
<1> PICK a : a = Block(bs[i].startAdress, size, TRUE)
  OBVIOUS
<1> PICK rest : rest = bs[i+1].size + bs[i].size - size
  OBVIOUS
<1> PICK c : c = Block(bs[i].startAdress + size, rest, FALSE)
  OBVIOUS
<1>1. /\ bs \in Seq(BlockType) /\ n \in Nat /\ DOMAIN bs = 1 .. n /\ i \in 1 .. n
      /\ bs[i].startAdress \in Nat /\ bs[i].isUsed = TRUE
      /\ i < n /\ ~bs[i+1].isUsed
  BY LenProperties, BlocksTyped DEF WellFormed, Layout, CanGrowRight, FreeAfter
<1>2. a.isUsed = TRUE /\ c.isUsed = FALSE
  BY DEF Block
<1>3. IsGrown(new, bs, i, size)
  BY <1>1, GrowRightPositions
<1>4. /\ new \in Seq(BlockType)
      /\ rest # 0 => /\ Len(new) = n
                     /\ \A j \in 1 .. n :
                          new[j] = IF j = i + 1 THEN c ELSE IF j = i THEN a ELSE bs[j]
      /\ rest = 0 => /\ Len(new) = n - 1
                     /\ \A j \in 1 .. n - 1 :
                          new[j] = IF j < i THEN bs[j] ELSE IF j = i THEN a ELSE bs[j+1]
  BY <1>1, <1>3 DEF IsGrown
<1>5. DOMAIN new = 1 .. Len(new)
  BY <1>4, LenProperties
<1>6. ASSUME NEW k \in DOMAIN bs PROVE bs[k] = bs[i] => k = i
  BY OneBlockPerAddress
<1>7. ASSUME NEW j \in DOMAIN new, new[j].isUsed
      PROVE  new[j] = a \/ \E k \in DOMAIN bs : bs[k].isUsed /\ k # i /\ bs[k] = new[j]
  <2>1. CASE rest # 0
    BY <1>1, <1>2, <1>4, <1>5, <1>7, <2>1
  <2>2. CASE rest = 0
    <3>1. n \in Nat /\ i \in 1 .. n /\ j \in 1 .. n - 1
      BY <1>1, <1>4, <1>5, <2>2
    <3>2. /\ j < i \/ j = i \/ i < j
          /\ j < i => j \in 1 .. n /\ j # i
          /\ i < j => j + 1 \in 1 .. n /\ j + 1 # i /\ ~(j < i) /\ j # i
          /\ j = i => ~(j < i)
      BY ONLY <3>1
    <3>3. j < i => new[j] = bs[j]
      BY <1>4, <2>2, <3>1
    <3>4. j = i => new[j] = a
      BY <1>4, <2>2, <3>1, <3>2
    <3>5. i < j => new[j] = bs[j+1]
      BY <1>4, <2>2, <3>1, <3>2
    <3> QED  BY <1>1, <1>7, <3>2, <3>3, <3>4, <3>5
  <2> QED  BY <2>1, <2>2
<1>8. ASSUME NEW k \in DOMAIN bs, bs[k].isUsed, k # i
      PROVE  \E j \in DOMAIN new : new[j].isUsed /\ new[j] = bs[k]
  <2>1. k # i + 1
    BY <1>1, <1>8
  <2>2. CASE rest # 0
    BY <1>1, <1>4, <1>5, <1>8, <2>1, <2>2
  <2>3. CASE rest = 0
    <3>1. n \in Nat /\ i \in 1 .. n /\ k \in 1 .. n /\ k # i /\ k # i + 1 /\ i < n
      BY <1>1, <1>8, <2>1
    <3>2. /\ k < i \/ i + 1 < k
          /\ k < i => k \in 1 .. n - 1
          /\ i + 1 < k => k - 1 \in 1 .. n - 1 /\ ~(k - 1 < i) /\ k - 1 # i /\ (k - 1) + 1 = k
      BY ONLY <3>1
    <3>3. k < i => new[k] = bs[k]
      BY <1>4, <2>3, <3>2
    <3>4. i + 1 < k => new[k-1] = bs[k]
      BY <1>4, <2>3, <3>2
    <3> QED  BY <1>4, <1>5, <1>8, <2>3, <3>2, <3>3, <3>4
  <2> QED  BY <2>2, <2>3
<1>9. i \in DOMAIN new /\ new[i] = a
  <2>1. i \in 1 .. n /\ i \in 1 .. n - 1 /\ ~(i < i) /\ i # i + 1
    <3>1. n \in Nat /\ i \in 1 .. n /\ i < n
      BY <1>1
    <3> QED  BY ONLY <3>1
  <2> QED  BY <1>4, <1>5, <2>1
<1>10. HandedOut(new) \subseteq (HandedOut(bs) \ {bs[i]}) \cup {a}
  <2> SUFFICES ASSUME NEW j \in DOMAIN new, new[j].isUsed, new[j] # a
               PROVE  new[j] \in HandedOut(bs) /\ new[j] # bs[i]
    BY DEF HandedOut
  <2> PICK k \in DOMAIN bs : bs[k].isUsed /\ k # i /\ bs[k] = new[j]
    BY <1>7
  <2> QED  BY <1>6 DEF HandedOut
<1>11. HandedOut(bs) \ {bs[i]} \subseteq HandedOut(new)
  <2> SUFFICES ASSUME NEW k \in DOMAIN bs, bs[k].isUsed, bs[k] # bs[i]
               PROVE  bs[k] \in HandedOut(new)
    BY DEF HandedOut
  <2>1. \E j \in DOMAIN new : new[j].isUsed /\ new[j] = bs[k]
    BY <1>8
  <2> QED  BY <2>1 DEF HandedOut
<1>12. a \in HandedOut(new)
  BY <1>2, <1>9 DEF HandedOut
<1> QED  BY <1>10, <1>11, <1>12

-----------------------------------------------------------------------------
(* Where a request fits, and that mem_alloc's search finds it. *)

(* The natural numbers are well ordered: what stands in for an induction     *)
(* along the array.                                                          *)
LessOnNat == {ss \in Nat \X Nat : ss[1] < ss[2]}

LEMMA LeastNumber ==
  ASSUME NEW S \in SUBSET Nat, S # {}
  PROVE  \E m \in S : \A n \in S : m <= n
<1>1. IsWellFoundedOn(LessOnNat, Nat)
  BY ONLY NatLessThanWellFounded DEF OpToRel, LessOnNat
<1>2. PICK m \in S : \A n \in S : ~(<<n, m>> \in LessOnNat)
  BY <1>1, WFMin
<1>3. m \in Nat /\ \A n \in S : n \in Nat
  OBVIOUS
<1>4. \A x, y \in Nat : <<x, y>> \in LessOnNat <=> x < y
  BY DEF LessOnNat
<1>5. \A n \in S : ~(n < m)
  BY <1>2, <1>3, <1>4
<1> QED  BY <1>3, <1>5

(* What the lemmas below use of a well-formed array of n blocks. *)
InRow(bs, total, n) ==
  /\ n \in Nat \ {0} /\ DOMAIN bs = 1 .. n
  /\ \A i \in 1 .. n : /\ bs[i].startAdress \in Nat /\ bs[i].size \in Nat
                       /\ bs[i].isUsed \in BOOLEAN
                       /\ bs[i].startAdress + bs[i].size <= total
                       /\ bs[i].size > 0 \/ n = 1
  /\ bs[1].startAdress = 0 /\ bs[n].startAdress + bs[n].size = total
  /\ \A i \in 1 .. n : i < n =>
        /\ bs[i+1].startAdress = bs[i].startAdress + bs[i].size
        /\ bs[i].isUsed \/ bs[i+1].isUsed
  /\ \A i, j \in 1 .. n : i < j => bs[i].startAdress + bs[i].size <= bs[j].startAdress

LEMMA InARow ==
  ASSUME NEW total \in Nat, NEW bs, WellFormed(bs, total), NEW n, n = Len(bs)
  PROVE  InRow(bs, total, n)
<1>1. bs \in Seq(BlockType) /\ Layout(bs, total) /\ bs # <<>>
  BY DEF WellFormed, Layout, Tiles
<1>2. n \in Nat \ {0} /\ DOMAIN bs = 1 .. n
  BY <1>1, LenProperties, EmptySeq
<1>3. \A i \in 1 .. n : bs[i].startAdress \in Nat /\ bs[i].size \in Nat /\ bs[i].isUsed \in BOOLEAN
  BY <1>1, <1>2, BlocksTyped
<1>4. \A i \in 1 .. n : bs[i].startAdress + bs[i].size <= total
  BY <1>1, <1>2, BlockInPool
<1>5. \A i \in 1 .. n : bs[i].size > 0 \/ n = 1
  BY <1>1, <1>2 DEF Layout, NoEmptyBlock
<1>6. bs[1].startAdress = 0 /\ bs[n].startAdress + bs[n].size = total
  BY <1>1 DEF Layout, Tiles
<1>7. \A i \in 1 .. n : i < n => bs[i+1].startAdress = bs[i].startAdress + bs[i].size
  BY <1>1, <1>2 DEF Layout, Tiles
<1>8. \A i \in 1 .. n : i < n => bs[i].isUsed \/ bs[i+1].isUsed
  BY <1>2 DEF WellFormed, Coalesced
<1>9. \A i, j \in 1 .. n : i < j => bs[i].startAdress + bs[i].size <= bs[j].startAdress
  BY <1>1, <1>2 DEF Layout, Ordered
<1> QED  BY <1>2, <1>3, <1>4, <1>5, <1>6, <1>7, <1>8, <1>9 DEF InRow

(* Every byte of the pool lies in a block. *)
LEMMA EveryByteInABlock ==
  ASSUME NEW total \in Nat, NEW bs, WellFormed(bs, total), NEW a \in Nat, a < total
  PROVE  \E i \in DOMAIN bs : /\ bs[i].startAdress <= a
                              /\ a < bs[i].startAdress + bs[i].size
<1> PICK n : n = Len(bs)
  OBVIOUS
<1>1. /\ n \in Nat \ {0} /\ DOMAIN bs = 1 .. n
      /\ \A i \in 1 .. n : bs[i].startAdress \in Nat /\ bs[i].size \in Nat
      /\ bs[1].startAdress = 0 /\ bs[n].startAdress + bs[n].size = total
      /\ \A i \in 1 .. n : i < n => bs[i+1].startAdress = bs[i].startAdress + bs[i].size
  <2>1. InRow(bs, total, n)
    BY InARow
  <2> QED  BY <2>1 DEF InRow
<1> DEFINE behind == {i \in 1 .. n : a < bs[i].startAdress + bs[i].size}
<1>2. n \in behind
  BY <1>1
<1>3. PICK m \in behind : \A i \in behind : m <= i
  <2>1. behind \in SUBSET Nat /\ behind # {}
    BY <1>1, <1>2
  <2> HIDE DEF behind
  <2> QED  BY <2>1, LeastNumber
<1>4. m \in 1 .. n /\ a < bs[m].startAdress + bs[m].size
  OBVIOUS
<1>5. CASE m = 1
  BY <1>1, <1>4, <1>5
<1>6. CASE m # 1
  <2>1. m - 1 \in 1 .. n /\ m - 1 < n /\ (m - 1) + 1 = m
    BY <1>1, <1>4, <1>6
  <2>2. bs[m].startAdress = bs[m-1].startAdress + bs[m-1].size
    BY <1>1, <2>1
  <2>3. ~(a < bs[m-1].startAdress + bs[m-1].size)
    BY <1>1, <1>3, <2>1
  <2>4. bs[m].startAdress \in Nat
    BY <1>1, <1>4
  <2> QED  BY <1>1, <1>4, <2>2, <2>3, <2>4
<1> QED  BY <1>5, <1>6

(* The bytes a .. a + size - 1 do not meet those of b. *)
Apart(a, size, b) == a + size <= b.startAdress \/ b.startAdress + b.size <= a

(* They are in the pool, and no block that is handed out meets them. *)
Vacant(bs, total, a, size) ==
  a + size <= total /\ \A b \in HandedOut(bs) : Apart(a, size, b)

LEMMA HandedOutPositions ==
  ASSUME NEW bs, NEW i \in DOMAIN bs, bs[i].isUsed
  PROVE  bs[i] \in HandedOut(bs)
BY DEF HandedOut

(* A free block that is large enough is a place for the request. *)
LEMMA FitIsVacant ==
  ASSUME NEW total \in Nat, NEW bs, WellFormed(bs, total), NEW size \in Nat,
         NEW i \in DOMAIN bs, Fits(bs, i, size)
  PROVE  Vacant(bs, total, bs[i].startAdress, size)
<1> PICK n : n = Len(bs)
  OBVIOUS
<1>1. /\ n \in Nat \ {0} /\ DOMAIN bs = 1 .. n
      /\ \A j \in 1 .. n : /\ bs[j].startAdress \in Nat /\ bs[j].size \in Nat
                           /\ bs[j].startAdress + bs[j].size <= total
      /\ \A j, k \in 1 .. n : j < k => bs[j].startAdress + bs[j].size <= bs[k].startAdress
  <2>1. InRow(bs, total, n)
    BY InARow
  <2> QED  BY <2>1 DEF InRow
<1>2. ~bs[i].isUsed /\ size <= bs[i].size /\ i \in 1 .. n
  BY <1>1 DEF Fits
<1>3. ASSUME NEW b \in HandedOut(bs) PROVE Apart(bs[i].startAdress, size, b)
  <2>1. PICK j \in 1 .. n : b = bs[j] /\ bs[j].isUsed
    BY <1>1 DEF HandedOut
  <2>2. i < j \/ j < i
    BY <1>1, <1>2, <2>1
  <2>3. i < j => bs[i].startAdress + bs[i].size <= bs[j].startAdress
    BY <1>1, <1>2
  <2>4. j < i => bs[j].startAdress + bs[j].size <= bs[i].startAdress
    BY <1>1, <1>2
  <2> QED  BY <1>1, <1>2, <2>1, <2>2, <2>3, <2>4 DEF Apart
<1>4. bs[i].startAdress + size <= total
  BY <1>1, <1>2
<1> QED  BY <1>3, <1>4 DEF Vacant

(* A place for the request lies within one free block: free blocks are      *)
(* joined, so that nothing fits across two of them.                         *)
LEMMA VacantIsFit ==
  ASSUME NEW total \in Nat, NEW bs, WellFormed(bs, total), NEW size \in Nat \ {0},
         NEW a \in Nat, Vacant(bs, total, a, size)
  PROVE  \E i \in DOMAIN bs : Fits(bs, i, size) /\ bs[i].startAdress <= a
<1> PICK n : n = Len(bs)
  OBVIOUS
<1>1. /\ n \in Nat \ {0} /\ DOMAIN bs = 1 .. n
      /\ \A j \in 1 .. n : /\ bs[j].startAdress \in Nat /\ bs[j].size \in Nat
                           /\ bs[j].size > 0 \/ n = 1
      /\ bs[n].startAdress + bs[n].size = total
      /\ \A j \in 1 .. n : j < n => /\ bs[j+1].startAdress = bs[j].startAdress + bs[j].size
                                    /\ bs[j].isUsed \/ bs[j+1].isUsed
  <2>1. InRow(bs, total, n)
    BY InARow
  <2> QED  BY <2>1 DEF InRow
<1>2. a + size <= total /\ \A j \in 1 .. n : bs[j].isUsed =>
         a + size <= bs[j].startAdress \/ bs[j].startAdress + bs[j].size <= a
  BY <1>1, HandedOutPositions DEF Vacant, Apart
<1>3. PICK i \in 1 .. n : bs[i].startAdress <= a /\ a < bs[i].startAdress + bs[i].size
  <2>1. a < total
    BY <1>2
  <2> QED  BY <1>1, <2>1, EveryByteInABlock
<1>4. bs[i].startAdress \in Nat /\ bs[i].size \in Nat
  BY <1>1
<1>5. ~bs[i].isUsed
  <2> SUFFICES ASSUME bs[i].isUsed PROVE FALSE
    OBVIOUS
  <2>1. a + size <= bs[i].startAdress \/ bs[i].startAdress + bs[i].size <= a
    BY <1>2
  <2> QED  BY <1>3, <1>4, <2>1
<1>6. a + size <= bs[i].startAdress + bs[i].size
  <2> SUFFICES ASSUME bs[i].startAdress + bs[i].size < a + size PROVE FALSE
    BY <1>4
  <2>1. i < n
    BY <1>1, <1>2, <1>4
  <2>2. i + 1 \in 1 .. n
    BY <1>1, <2>1
  <2>3. bs[i+1].isUsed /\ bs[i+1].startAdress = bs[i].startAdress + bs[i].size
    BY <1>1, <1>5, <2>1
  <2>4. bs[i+1].size \in Nat /\ bs[i+1].size > 0
    <3>1. n # 1 /\ i \in Nat
      BY <1>1, <2>1, SMTT(20)
    <3> QED  BY <1>1, <2>2, <3>1
  <2>5. a + size <= bs[i+1].startAdress \/ bs[i+1].startAdress + bs[i+1].size <= a
    BY <1>2, <2>2, <2>3
  <2> QED  BY <1>3, <1>4, <2>3, <2>4, <2>5
<1>7. size <= bs[i].size
  BY <1>3, <1>4, <1>6
<1> QED  BY <1>1, <1>3, <1>5, <1>7 DEF Fits

(* The search of mem_alloc answers with the lowest place there is, and with *)
(* nothing only when there is none.                                         *)
LEMMA FirstFitIsLowest ==
  ASSUME NEW total \in Nat, NEW bs, WellFormed(bs, total), NEW size \in Nat \ {0}
  PROVE  /\ \A i \in FirstFit(bs, size) :
               /\ bs[i].startAdress \in Nat
               /\ Vacant(bs, total, bs[i].startAdress, size)
               /\ \A a \in Nat : Vacant(bs, total, a, size) => bs[i].startAdress <= a
         /\ FirstFit(bs, size) = {} => \A a \in Nat : ~Vacant(bs, total, a, size)
<1> PICK n : n = Len(bs)
  OBVIOUS
<1>1. /\ n \in Nat \ {0} /\ DOMAIN bs = 1 .. n
      /\ \A j \in 1 .. n : bs[j].startAdress \in Nat /\ bs[j].size \in Nat
      /\ \A j, k \in 1 .. n : j < k => bs[j].startAdress + bs[j].size <= bs[k].startAdress
  <2>1. InRow(bs, total, n)
    BY InARow
  <2> QED  BY <2>1 DEF InRow
<1>2. ASSUME NEW i \in FirstFit(bs, size)
      PROVE  /\ bs[i].startAdress \in Nat
             /\ Vacant(bs, total, bs[i].startAdress, size)
             /\ \A a \in Nat : Vacant(bs, total, a, size) => bs[i].startAdress <= a
  <2>1. i \in 1 .. n /\ Fits(bs, i, size) /\ \A j \in 1 .. n : Fits(bs, j, size) => i <= j
    BY <1>1 DEF FirstFit
  <2>2. Vacant(bs, total, bs[i].startAdress, size)
    BY <1>1, <2>1, FitIsVacant
  <2>3. ASSUME NEW a \in Nat, Vacant(bs, total, a, size) PROVE bs[i].startAdress <= a
    <3>1. PICK j \in 1 .. n : Fits(bs, j, size) /\ bs[j].startAdress <= a
      BY <1>1, <2>3, VacantIsFit
    <3>2. i = j \/ i < j
      BY <2>1, <3>1
    <3>3. bs[i].startAdress \in Nat /\ bs[i].size \in Nat /\ bs[j].startAdress \in Nat
      BY <1>1, <2>1
    <3>4. i < j => bs[i].startAdress + bs[i].size <= bs[j].startAdress
      BY <1>1, <2>1
    <3> QED  BY <3>1, <3>2, <3>3, <3>4
  <2> QED  BY <1>1, <2>1, <2>2, <2>3
<1>3. ASSUME NEW a \in Nat, Vacant(bs, total, a, size) PROVE FirstFit(bs, size) # {}
  <2> DEFINE fitting == {j \in 1 .. n : Fits(bs, j, size)}
  <2>1. fitting # {} /\ fitting \in SUBSET Nat
    BY <1>1, <1>3, VacantIsFit
  <2>2. PICK m \in fitting : \A j \in fitting : m <= j
    <3> HIDE DEF fitting
    <3> QED  BY <2>1, LeastNumber
  <2>3. m \in FirstFit(bs, size)
    BY <1>1, <2>2 DEF FirstFit
  <2> QED  BY <2>3
<1> QED  BY <1>2, <1>3

-----------------------------------------------------------------------------
(* What mem_resize's comparisons say about the places for the block. *)

(* The blocks but block i stay clear of the bytes a .. a + size - 1. *)
ClearBut(bs, i, a, size) ==
  \A j \in DOMAIN bs : bs[j].isUsed /\ j # i => Apart(a, size, bs[j])

(* A block that is handed out finds no room where it lies when the block on *)
(* its right is too short or in use.                                        *)
LEMMA NoRoomToTheRight ==
  ASSUME NEW total \in Nat, NEW bs, WellFormed(bs, total), NEW size \in Nat,
         NEW i \in DOMAIN bs, bs[i].size < size, ~CanGrowRight(bs, i, size),
         bs[i].startAdress + size <= total
  PROVE  ~ClearBut(bs, i, bs[i].startAdress, size)
<1> PICK n : n = Len(bs)
  OBVIOUS
<1>1. /\ n \in Nat \ {0} /\ DOMAIN bs = 1 .. n /\ i \in 1 .. n
      /\ \A j \in 1 .. n : /\ bs[j].startAdress \in Nat /\ bs[j].size \in Nat
                           /\ bs[j].isUsed \in BOOLEAN
                           /\ bs[j].size > 0 \/ n = 1
      /\ bs[n].startAdress + bs[n].size = total
      /\ \A j \in 1 .. n : j < n => /\ bs[j+1].startAdress = bs[j].startAdress + bs[j].size
                                    /\ bs[j].isUsed \/ bs[j+1].isUsed
  <2>1. i \in DOMAIN bs /\ WellFormed(bs, total) /\ total \in Nat /\ n = Len(bs)
    OBVIOUS
  <2>2. InRow(bs, total, n)
    BY ONLY <2>1, InARow
  <2> QED  BY ONLY <2>1, <2>2 DEF InRow
<1>2. i < n /\ i + 1 \in 1 .. n /\ i + 1 # i /\ n # 1
  <2>1. i # n
    BY <1>1
  <2> QED  BY <1>1, <2>1
<1>3. /\ bs[i].startAdress \in Nat /\ bs[i].size \in Nat
      /\ bs[i+1].startAdress \in Nat /\ bs[i+1].size \in Nat /\ bs[i+1].size > 0
      /\ bs[i+1].startAdress = bs[i].startAdress + bs[i].size
  BY <1>1, <1>2
<1>4. CASE bs[i+1].isUsed
  <2>1. ~Apart(bs[i].startAdress, size, bs[i+1])
    BY <1>3, SMTT(20) DEF Apart
  <2> QED  BY <1>1, <1>2, <1>4, <2>1 DEF ClearBut
<1>5. CASE ~bs[i+1].isUsed
  <2>1. bs[i+1].size + bs[i].size < size
    <3>1. ~(size <= bs[i+1].size + bs[i].size)
      BY <1>2, <1>5 DEF CanGrowRight, FreeAfter
    <3> QED  BY <1>3, <3>1
  <2>2. i + 1 < n /\ (i + 1) + 1 \in 1 .. n /\ (i + 1) + 1 # i
    <3>1. i + 1 # n
      BY <1>1, <1>3, <2>1, SMTT(20)
    <3> QED  BY <1>1, <1>2, <3>1, SMTT(20)
  <2>3. /\ bs[(i+1)+1].isUsed
        /\ bs[(i+1)+1].startAdress = bs[i+1].startAdress + bs[i+1].size
    BY <1>1, <1>2, <1>5, <2>2
  <2>4. bs[(i+1)+1].size \in Nat /\ bs[(i+1)+1].size > 0
    BY <1>1, <1>2, <2>2
  <2>5. ~Apart(bs[i].startAdress, size, bs[(i+1)+1])
    BY ONLY size \in Nat, <1>3, <2>1, <2>3, <2>4 DEF Apart
  <2> QED  BY <1>1, <2>2, <2>3, <2>5 DEF ClearBut
<1> QED  BY <1>4, <1>5

(* What mem_resize calls available starts at the block's own address or at  *)
(* that of the free block on its left, and is room for "size".              *)
LEMMA AvailableIsRoom ==
  ASSUME NEW total \in Nat, NEW bs, WellFormed(bs, total), NEW size \in Nat,
         NEW i \in DOMAIN bs, size <= Available(bs, i)
  PROVE  \E a \in Nat : a + size <= total /\ ClearBut(bs, i, a, size)
<1> PICK n : n = Len(bs)
  OBVIOUS
<1>0. \A j, k \in DOMAIN bs : j < k => bs[j].startAdress + bs[j].size <= bs[k].startAdress
  BY DEF WellFormed, Layout, Ordered
<1>1. /\ n \in Nat \ {0} /\ DOMAIN bs = 1 .. n /\ i \in 1 .. n
      /\ \A j \in 1 .. n : /\ bs[j].startAdress \in Nat /\ bs[j].size \in Nat
                           /\ bs[j].isUsed \in BOOLEAN
                           /\ bs[j].startAdress + bs[j].size <= total
      /\ \A j \in 1 .. n : j < n => bs[j+1].startAdress = bs[j].startAdress + bs[j].size
  <2>1. i \in DOMAIN bs /\ WellFormed(bs, total) /\ total \in Nat /\ n = Len(bs)
    OBVIOUS
  <2>2. InRow(bs, total, n)
    BY ONLY <2>1, InARow
  <2> QED  BY ONLY <2>1, <2>2 DEF InRow
<1>2. CASE ~FreeBefore(bs, i)
  <2>1. size <= bs[i].size /\ bs[i].startAdress \in Nat /\ bs[i].size \in Nat
    BY <1>1, <1>2 DEF Available
  <2>2. ASSUME NEW j \in 1 .. n, j # i PROVE Apart(bs[i].startAdress, size, bs[j])
    <3>1. i < j \/ j < i
      BY <1>1, <2>2
    <3>2. bs[j].startAdress \in Nat /\ bs[j].size \in Nat
      BY <1>1
    <3>3. i < j => bs[i].startAdress + bs[i].size <= bs[j].startAdress
      BY <1>0, <1>1
    <3>4. j < i => bs[j].startAdress + bs[j].size <= bs[i].startAdress
      BY <1>0, <1>1
    <3> QED  BY <2>1, <3>1, <3>2, <3>3, <3>4 DEF Apart
  <2>3. bs[i].startAdress + size <= total
    BY <1>1, <2>1
  <2> QED  BY <1>1, <2>1, <2>2, <2>3 DEF ClearBut
<1>3. CASE FreeBefore(bs, i)
  <2>1. i > 1 /\ i - 1 \in 1 .. n /\ i - 1 < n /\ (i - 1) + 1 = i /\ ~bs[i-1].isUsed
    BY <1>1, <1>3 DEF FreeBefore
  <2>2. /\ bs[i-1].startAdress \in Nat /\ bs[i-1].size \in Nat
        /\ bs[i].startAdress \in Nat /\ bs[i].size \in Nat
        /\ bs[i].startAdress = bs[i-1].startAdress + bs[i-1].size
        /\ bs[i].startAdress + bs[i].size <= total
    BY <1>1, <2>1
  <2>3. ASSUME NEW j \in 1 .. n, j < i, j # i - 1 PROVE Apart(bs[i-1].startAdress, size, bs[j])
    <3>1. j < i - 1
      BY <1>1, <2>3
    <3>2. bs[j].startAdress + bs[j].size <= bs[i-1].startAdress
      BY <1>0, <1>1, <2>1, <3>1
    <3> QED  BY <3>2 DEF Apart
  <2>4. CASE FreeAfter(bs, i)
    <3>1. i < n /\ i + 1 \in 1 .. n /\ ~bs[i+1].isUsed
      BY <1>1, <2>4 DEF FreeAfter
    <3>2. /\ bs[i+1].startAdress \in Nat /\ bs[i+1].size \in Nat
          /\ bs[i+1].startAdress = bs[i].startAdress + bs[i].size
          /\ bs[i+1].startAdress + bs[i+1].size <= total
      BY <1>1, <3>1
    <3>3. size <= bs[i].size + (bs[i-1].size + bs[i+1].size)
      BY <1>3, <2>4 DEF Available
    <3>4. ASSUME NEW j \in 1 .. n, i < j, j # i + 1 PROVE Apart(bs[i-1].startAdress, size, bs[j])
      <4>1. i + 1 < j
        BY <1>1, <3>4
      <4>2. bs[i+1].startAdress + bs[i+1].size <= bs[j].startAdress /\ bs[j].startAdress \in Nat
        BY <1>0, <1>1, <3>1, <4>1
      <4> QED  BY ONLY size \in Nat, <2>2, <3>2, <3>3, <4>2 DEF Apart
    <3>5. bs[i-1].startAdress + size <= total
      BY ONLY <2>2, <3>2, <3>3, size \in Nat, total \in Nat
    <3>6. ASSUME NEW j \in 1 .. n, bs[j].isUsed, j # i PROVE Apart(bs[i-1].startAdress, size, bs[j])
      <4>1. j # i - 1 /\ j # i + 1 /\ (j < i \/ i < j)
        BY <1>1, <2>1, <3>1, <3>6
      <4> QED  BY <2>3, <3>4, <4>1
    <3> QED  BY <1>1, <2>2, <3>5, <3>6 DEF ClearBut
  <2>5. CASE ~FreeAfter(bs, i)
    <3>1. size <= bs[i].size + bs[i-1].size
      BY <1>3, <2>2, <2>5 DEF Available
    <3>2. ASSUME NEW j \in 1 .. n, i < j PROVE Apart(bs[i-1].startAdress, size, bs[j])
      <4>1. bs[i].startAdress + bs[i].size <= bs[j].startAdress /\ bs[j].startAdress \in Nat
        BY <1>0, <1>1, <3>2
      <4> QED  BY ONLY size \in Nat, <2>2, <3>1, <4>1 DEF Apart
    <3>3. bs[i-1].startAdress + size <= total
      BY ONLY <2>2, <3>1, size \in Nat, total \in Nat
    <3>4. ASSUME NEW j \in 1 .. n, bs[j].isUsed, j # i PROVE Apart(bs[i-1].startAdress, size, bs[j])
      <4>1. j # i - 1 /\ (j < i \/ i < j)
        BY <1>1, <2>1, <3>4
      <4> QED  BY <2>3, <3>2, <4>1
    <3> QED  BY <1>1, <2>2, <3>3, <3>4 DEF ClearBut
  <2> QED  BY <2>4, <2>5
<1> QED  BY <1>2, <1>3

(* When neither comparison finds room, giving the block back would open no  *)
(* place for "size": mem_resize may look for one while it keeps the block.  *)
LEMMA FreeingOpensNoPlace ==
  ASSUME NEW total \in Nat, NEW bs, WellFormed(bs, total), NEW size \in Nat,
         NEW i \in DOMAIN bs, bs[i].size < size,
         ~CanGrowRight(bs, i, size), Available(bs, i) < size,
         NEW a \in Nat, a + size <= total, ClearBut(bs, i, a, size)
  PROVE  Apart(a, size, bs[i])
<1> PICK n : n = Len(bs)
  OBVIOUS
<1>1. /\ n \in Nat \ {0} /\ DOMAIN bs = 1 .. n /\ i \in 1 .. n
      /\ \A j \in 1 .. n : /\ bs[j].startAdress \in Nat /\ bs[j].size \in Nat
                           /\ bs[j].isUsed \in BOOLEAN
                           /\ bs[j].size > 0 \/ n = 1
      /\ bs[1].startAdress = 0 /\ bs[n].startAdress + bs[n].size = total
      /\ \A j \in 1 .. n : j < n => /\ bs[j+1].startAdress = bs[j].startAdress + bs[j].size
                                    /\ bs[j].isUsed \/ bs[j+1].isUsed
  <2>1. i \in DOMAIN bs /\ WellFormed(bs, total) /\ total \in Nat /\ n = Len(bs)
    OBVIOUS
  <2>2. InRow(bs, total, n)
    BY ONLY <2>1, InARow
  <2> QED  BY ONLY <2>1, <2>2 DEF InRow
<1> SUFFICES ASSUME ~Apart(a, size, bs[i]) PROVE FALSE
  OBVIOUS
<1> DEFINE s == bs[i].startAdress
           e == bs[i].startAdress + bs[i].size
<1>2. s \in Nat /\ bs[i].size \in Nat /\ s < a + size /\ a < e
  BY <1>1 DEF Apart
(* How far the place can reach to the left ... *)
<1>3. CASE FreeBefore(bs, i)
  <2>1. i > 1 /\ i - 1 \in 1 .. n /\ i - 1 < n /\ (i - 1) + 1 = i /\ ~bs[i-1].isUsed
    BY <1>1, <1>3 DEF FreeBefore
  <2>2. bs[i-1].startAdress \in Nat /\ bs[i-1].size \in Nat /\ s = bs[i-1].startAdress + bs[i-1].size
    BY <1>1, <2>1
  <2>3. bs[i-1].startAdress <= a
    <3> SUFFICES ASSUME a < bs[i-1].startAdress PROVE FALSE
      BY <2>2
    <3>1. i - 1 # 1
      BY <1>1
    <3>2. (i - 1) - 1 \in 1 .. n /\ (i - 1) - 1 < n /\ ((i - 1) - 1) + 1 = i - 1 /\ n # 1
          /\ (i - 1) - 1 # i
      BY <1>1, <2>1, <3>1, SMTT(20)
    <3>3. /\ bs[(i-1)-1].isUsed
          /\ bs[i-1].startAdress = bs[(i-1)-1].startAdress + bs[(i-1)-1].size
      BY <1>1, <2>1, <3>2
    <3>4. bs[(i-1)-1].startAdress \in Nat /\ bs[(i-1)-1].size \in Nat /\ bs[(i-1)-1].size > 0
      BY <1>1, <3>2
    <3>5. Apart(a, size, bs[(i-1)-1])
      BY <1>1, <3>2, <3>3 DEF ClearBut
    <3> QED  BY ONLY a \in Nat, size \in Nat, <1>2, <2>2, <3>3, <3>4, <3>5,
                     a < bs[i-1].startAdress DEF Apart
  <2>4. CASE FreeAfter(bs, i)
    <3>1. i < n /\ i + 1 \in 1 .. n /\ ~bs[i+1].isUsed
      BY <1>1, <2>4 DEF FreeAfter
    <3>2. bs[i+1].size \in Nat /\ bs[i+1].startAdress = e /\ bs[i+1].startAdress \in Nat
      BY <1>1, <3>1
    <3>3. bs[i].size + (bs[i-1].size + bs[i+1].size) < size
      BY <1>3, <2>4 DEF Available
    <3>4. a + size <= bs[i+1].startAdress + bs[i+1].size
      <4> SUFFICES ASSUME bs[i+1].startAdress + bs[i+1].size < a + size PROVE FALSE
        BY <3>2
      <4>1. i + 1 # n
        BY <1>1, <3>2
      <4>2. i + 1 < n /\ (i + 1) + 1 \in 1 .. n /\ (i + 1) + 1 # i /\ n # 1
        BY ONLY <1>1, <3>1, <4>1
      <4>3. bs[(i+1)+1].isUsed /\ bs[(i+1)+1].startAdress = bs[i+1].startAdress + bs[i+1].size
        BY <1>1, <3>1, <4>2
      <4>4. bs[(i+1)+1].size \in Nat /\ bs[(i+1)+1].size > 0
        BY <1>1, <4>2
      <4>5. Apart(a, size, bs[(i+1)+1])
        BY <1>1, <4>2, <4>3 DEF ClearBut
      <4> QED  BY ONLY a \in Nat, size \in Nat, <1>2, <3>2, <4>3, <4>4, <4>5,
                       bs[i+1].startAdress + bs[i+1].size < a + size DEF Apart
    <3> QED  BY ONLY a \in Nat, size \in Nat, <1>2, <2>2, <2>3, <3>2, <3>3, <3>4
  <2>5. CASE ~FreeAfter(bs, i)
    <3>1. bs[i].size + bs[i-1].size < size
      BY <1>3, <2>2, <2>5 DEF Available
    <3>2. a + size <= e
      <4> SUFFICES ASSUME e < a + size PROVE FALSE
        BY <1>2
      <4>1. i # n
        BY <1>1, <1>2
      <4>2. i < n /\ i + 1 \in 1 .. n /\ i + 1 # i /\ n # 1
        BY <1>1, <4>1
      <4>3. bs[i+1].isUsed /\ bs[i+1].startAdress = e /\ bs[i+1].size \in Nat /\ bs[i+1].size > 0
        BY <1>1, <2>5, <4>2 DEF FreeAfter
      <4>4. Apart(a, size, bs[i+1])
        BY <1>1, <4>2, <4>3 DEF ClearBut
      <4> QED  BY <1>2, <4>3, <4>4 DEF Apart
    <3> QED  BY ONLY a \in Nat, size \in Nat, <1>2, <2>2, <2>3, <3>1, <3>2
  <2> QED  BY <2>4, <2>5
(* ... and, with a block in use on the left, to the right. *)
<1>4. CASE ~FreeBefore(bs, i)
  <2>1. s <= a
    <3> SUFFICES ASSUME a < s PROVE FALSE
      BY <1>2
    <3>1. i # 1
      BY <1>1, <1>2
    <3>2. i - 1 \in 1 .. n /\ i - 1 < n /\ (i - 1) + 1 = i /\ i > 1 /\ n # 1 /\ i - 1 # i
      BY <1>1, <3>1
    <3>3. bs[i-1].isUsed /\ s = bs[i-1].startAdress + bs[i-1].size
      BY <1>1, <1>4, <3>2 DEF FreeBefore
    <3>4. bs[i-1].startAdress \in Nat /\ bs[i-1].size \in Nat /\ bs[i-1].size > 0
      BY <1>1, <3>2
    <3>5. Apart(a, size, bs[i-1])
      BY <1>1, <3>2, <3>3 DEF ClearBut
    <3> QED  BY <1>2, <3>3, <3>4, <3>5, SMTT(20) DEF Apart
  <2>2. s + size <= total
    BY <1>2, <2>1
  <2>3. ~ClearBut(bs, i, s, size)
    BY <2>2, NoRoomToTheRight
  <2>4. PICK j \in 1 .. n : bs[j].isUsed /\ j # i /\ ~Apart(s, size, bs[j])
    BY <1>1, <2>3 DEF ClearBut
  <2>5. Apart(a, size, bs[j])
    BY <1>1, <2>4 DEF ClearBut
  <2>6. bs[j].startAdress \in Nat /\ bs[j].size \in Nat
    BY <1>1
  <2>7. bs[j].startAdress + bs[j].size <= a /\ s < bs[j].startAdress + bs[j].size
        /\ bs[j].startAdress < s + size
    BY <1>2, <2>1, <2>4, <2>5, <2>6, SMTT(20) DEF Apart
  <2>8. i < j => e <= bs[j].startAdress
    BY <1>1 DEF WellFormed, Layout, Ordered
  <2>9. j < i => bs[j].startAdress + bs[j].size <= s
    BY <1>1 DEF WellFormed, Layout, Ordered
  <2>10. i < j \/ j < i
    BY <1>1, <2>4
  <2>11. n # 1
    BY <1>1, <2>4
  <2> QED  BY ONLY a \in Nat, size \in Nat, <1>2, <2>6, <2>7, <2>8, <2>9, <2>10
<1> QED  BY <1>3, <1>4

(* What mem_resize calls available counts the block itself. *)
LEMMA AvailableCounts ==
  ASSUME NEW total \in Nat, NEW bs, WellFormed(bs, total), NEW i \in DOMAIN bs
  PROVE  bs[i].size <= Available(bs, i) /\ Available(bs, i) \in Nat
<1>1. bs \in Seq(BlockType) /\ DOMAIN bs = 1 .. Len(bs) /\ Len(bs) \in Nat
  BY LenProperties DEF WellFormed, Layout
<1>2. \A j \in DOMAIN bs : bs[j].size \in Nat
  BY <1>1, BlocksTyped
<1>3. FreeBefore(bs, i) => bs[i-1].size \in Nat
  BY <1>1, <1>2 DEF FreeBefore
<1>4. FreeAfter(bs, i) => bs[i+1].size \in Nat
  BY <1>1, <1>2 DEF FreeAfter
<1> QED  BY <1>2, <1>3, <1>4 DEF Available

(* A block that can grow to the right has room where it lies. *)
LEMMA RoomToTheRight ==
  ASSUME NEW total \in Nat, NEW bs, WellFormed(bs, total), NEW size \in Nat,
         NEW i \in DOMAIN bs, CanGrowRight(bs, i, size)
  PROVE  bs[i].startAdress + size <= total /\ ClearBut(bs, i, bs[i].startAdress, size)
<1> PICK n : n = Len(bs)
  OBVIOUS
<1>0. \A j, k \in DOMAIN bs : j < k => bs[j].startAdress + bs[j].size <= bs[k].startAdress
  BY DEF WellFormed, Layout, Ordered
<1>1. /\ n \in Nat \ {0} /\ DOMAIN bs = 1 .. n /\ i \in 1 .. n
      /\ \A j \in 1 .. n : bs[j].startAdress \in Nat /\ bs[j].size \in Nat
      /\ \A j \in 1 .. n : j < n => bs[j+1].startAdress = bs[j].startAdress + bs[j].size
  <2>1. i \in DOMAIN bs /\ WellFormed(bs, total) /\ total \in Nat /\ n = Len(bs)
    OBVIOUS
  <2>2. InRow(bs, total, n)
    BY ONLY <2>1, InARow
  <2> QED  BY ONLY <2>1, <2>2 DEF InRow
<1>2. i < n /\ i + 1 \in 1 .. n /\ ~bs[i+1].isUsed /\ size <= bs[i+1].size + bs[i].size
  BY <1>1 DEF CanGrowRight, FreeAfter
<1>3. /\ bs[i].startAdress \in Nat /\ bs[i].size \in Nat
      /\ bs[i+1].startAdress \in Nat /\ bs[i+1].size \in Nat
      /\ bs[i+1].startAdress = bs[i].startAdress + bs[i].size
      /\ bs[i+1].startAdress + bs[i+1].size <= total
  BY <1>1, <1>2, BlockInPool DEF WellFormed
<1>4. ASSUME NEW j \in 1 .. n, bs[j].isUsed, j # i PROVE Apart(bs[i].startAdress, size, bs[j])
  <2>1. j < i \/ i + 1 < j
    BY <1>1, <1>2, <1>4
  <2>2. j < i => bs[j].startAdress + bs[j].size <= bs[i].startAdress
    BY <1>0, <1>1
  <2>3. i + 1 < j => bs[i+1].startAdress + bs[i+1].size <= bs[j].startAdress
    BY <1>0, <1>1, <1>2
  <2>4. bs[j].startAdress \in Nat
    BY <1>1
  <2> QED  BY ONLY size \in Nat, <1>2, <1>3, <2>1, <2>2, <2>3, <2>4 DEF Apart
<1>5. bs[i].startAdress + size <= total
  BY ONLY size \in Nat, total \in Nat, <1>2, <1>3
<1> QED  BY <1>1, <1>4, <1>5 DEF ClearBut


(* What mem_resize has compared with is there once its block is freed:      *)
(* mem_alloc, called then, finds a place.                                   *)
LEMMA FreedRoomIsFound ==
  ASSUME NEW total \in Nat, NEW bs, WellFormed(bs, total), NEW size \in Nat \ {0},
         NEW i \in DOMAIN bs, size <= Available(bs, i), NEW p, p = bs[i].startAdress
  PROVE  FirstFit(AfterFree(bs, p), size) # {}
<1>1. PICK a \in Nat : a + size <= total /\ ClearBut(bs, i, a, size)
  BY AvailableIsRoom
<1> PICK freed : freed = AfterFree(bs, p)
  OBVIOUS
<1>2. WellFormed(freed, total) /\ HandedOut(freed) = {b \in HandedOut(bs) : b.startAdress # p}
  BY AfterFreeWellFormed, AfterFreeUsed
<1>3. ASSUME NEW b \in HandedOut(freed) PROVE Apart(a, size, b)
  <2>1. b \in HandedOut(bs) /\ b.startAdress # p
    BY <1>2
  <2>2. PICK j \in DOMAIN bs : b = bs[j] /\ bs[j].isUsed
    BY <2>1 DEF HandedOut
  <2>3. j # i
    BY <2>1, <2>2
  <2> QED  BY <1>1, <2>2, <2>3 DEF ClearBut
<1>4. Vacant(freed, total, a, size)
  BY <1>1, <1>3 DEF Vacant
<1>5. FirstFit(freed, size) # {}
  <2>1. total \in Nat /\ size \in Nat \ {0} /\ a \in Nat
    OBVIOUS
  <2> QED  BY ONLY <1>2, <1>4, <2>1, FirstFitIsLowest
<1> QED  BY <1>5

-----------------------------------------------------------------------------
(* A pool whose free neighbours are not all joined, as a refused realloc     *)
(* leaves it, stays covered too.                                             *)
LEMMA MarkedLayout ==
  ASSUME NEW total \in Nat, NEW bs, Layout(bs, total), NEW i \in DOMAIN bs,
         NEW b \in BlockType, b.startAdress = bs[i].startAdress, b.size = bs[i].size,
         NEW other, other = [bs EXCEPT ![i] = b]
  PROVE  /\ Layout(other, total) /\ Len(other) = Len(bs)
         /\ \A j \in 1 .. Len(bs) : other[j] = IF j = i THEN b ELSE bs[j]
<1>1. bs \in Seq(BlockType)
  BY DEF Layout
<1>2. /\ other \in Seq(BlockType) /\ Len(other) = Len(bs)
      /\ \A j \in 1 .. Len(bs) : other[j] = IF j = i THEN b ELSE bs[j]
  <2>1. bs \in Seq(BlockType) /\ i \in DOMAIN bs /\ b \in BlockType /\ other = [bs EXCEPT ![i] = b]
    BY <1>1
  <2> QED  BY ONLY <2>1, Replaced
<1>3. \A j \in 1 .. Len(bs) : /\ other[j].startAdress = bs[j].startAdress
                              /\ other[j].size = bs[j].size
  BY <1>2
<1>4. Layout(other, total)
  BY <1>2, <1>3, MarksDoNotMatter
<1> QED  BY <1>2, <1>4

LEMMA MarkOnly ==
  ASSUME NEW bs \in Seq(BlockType), NEW i \in DOMAIN bs, NEW used \in BOOLEAN,
         NEW b, b = Block(bs[i].startAdress, bs[i].size, used)
  PROVE  b \in BlockType /\ b.startAdress = bs[i].startAdress /\ b.size = bs[i].size
<1>1. bs[i].startAdress \in Nat /\ bs[i].size \in Nat
  BY BlocksTyped
<1> QED  BY <1>1 DEF Block, BlockType

LEMMA UnmarkedLayout ==
  ASSUME NEW total \in Nat, NEW bs, Layout(bs, total), NEW i \in DOMAIN bs,
         NEW clear, clear = Unmark(bs, i)
  PROVE  /\ Layout(clear, total) /\ Len(clear) = Len(bs)
         /\ \A j \in 1 .. Len(bs) : j # i => clear[j] = bs[j]
<1> PICK b : b = Block(bs[i].startAdress, bs[i].size, FALSE)
  OBVIOUS
<1>1. clear = [bs EXCEPT ![i] = b]
  BY DEF Unmark
<1>2. b \in BlockType /\ b.startAdress = bs[i].startAdress /\ b.size = bs[i].size
  BY MarkOnly DEF Layout
<1>3. bs \in Seq(BlockType)
  BY DEF Layout
<1>4. Layout(clear, total)
  BY ONLY total \in Nat, Layout(bs, total), i \in DOMAIN bs, <1>1, <1>2, MarkedLayout
<1>5. Len(clear) = Len(bs) /\ \A j \in 1 .. Len(bs) : clear[j] = IF j = i THEN b ELSE bs[j]
  BY ONLY <1>1, <1>2, <1>3, i \in DOMAIN bs, Replaced
<1> QED  BY <1>4, <1>5

LEMMA ReleaseLayout ==
  ASSUME NEW total \in Nat, NEW bs, Layout(bs, total), NEW i \in DOMAIN bs
  PROVE  Layout(Release(bs, i), total)
<1> PICK clear : clear = Unmark(bs, i)
  OBVIOUS
<1> PICK k : k = IF FreeBefore(bs, i) THEN i - 1 ELSE i
  OBVIOUS
<1> PICK left : left = JoinLeft(clear, i)
  OBVIOUS
<1>1. Len(bs) \in Nat /\ DOMAIN bs = 1 .. Len(bs) /\ i \in 1 .. Len(bs)
  BY LenProperties DEF Layout
<1>2. /\ Layout(clear, total) /\ Len(clear) = Len(bs)
      /\ \A j \in 1 .. Len(bs) : j # i => clear[j] = bs[j]
  <2>1. total \in Nat /\ Layout(bs, total) /\ i \in DOMAIN bs /\ clear = Unmark(bs, i)
    OBVIOUS
  <2> QED  BY ONLY <2>1, UnmarkedLayout
<1>3. DOMAIN clear = 1 .. Len(bs)
  BY <1>2, LenProperties DEF Layout
<1>4. FreeBefore(clear, i) <=> FreeBefore(bs, i)
  <2>1. i > 1 => i - 1 \in 1 .. Len(bs) /\ i - 1 # i
    BY <1>1
  <2>2. i > 1 => clear[i-1] = bs[i-1]
    BY <1>2, <2>1
  <2> QED  BY <2>2 DEF FreeBefore
<1>5. Layout(left, total) /\ k \in DOMAIN left
  <2>1. CASE FreeBefore(bs, i)
    <3>1. i - 1 \in DOMAIN clear /\ i - 1 < Len(clear)
      BY <1>1, <1>2, <1>3, <2>1 DEF FreeBefore
    <3>2. left = Absorb(clear, i - 1)
      BY <1>4, <2>1 DEF JoinLeft
    <3>3. Layout(left, total) /\ Len(left) = Len(bs) - 1
      BY <1>2, <3>1, <3>2, AbsorbLayout
    <3>4. DOMAIN left = 1 .. Len(bs) - 1
      BY <3>3, LenProperties DEF Layout
    <3> QED  BY <1>1, <1>2, <2>1, <3>1, <3>3, <3>4
  <2>2. CASE ~FreeBefore(bs, i)
    <3>1. left = clear /\ k = i
      BY <1>4, <2>2 DEF JoinLeft
    <3> QED  BY <1>1, <1>2, <1>3, <3>1
  <2> QED  BY <2>1, <2>2
<1>6. Release(bs, i) = JoinRight(left, k)
  BY DEF Release
<1>7. CASE FreeAfter(left, k)
  <2>1. k < Len(left) /\ JoinRight(left, k) = Absorb(left, k)
    BY <1>7 DEF FreeAfter, JoinRight
  <2> QED  BY <1>5, <1>6, <2>1, AbsorbLayout
<1>8. CASE ~FreeAfter(left, k)
  BY <1>5, <1>6, <1>8 DEF JoinRight
<1> QED  BY <1>7, <1>8

LEMMA AfterFreeLayout ==
  ASSUME NEW total \in Nat, NEW bs, Layout(bs, total), NEW p
  PROVE  Layout(AfterFree(bs, p), total)
<1>1. CASE \E i \in FirstAt(bs, p) : bs[i].isUsed
  <2> DEFINE i == CHOOSE i \in FirstAt(bs, p) : TRUE
  <2>1. i \in DOMAIN bs /\ AfterFree(bs, p) = Release(bs, i)
    <3>1. i \in FirstAt(bs, p)
      BY <1>1
    <3> QED  BY <1>1, <3>1 DEF FirstAt, AfterFree
  <2> QED  BY <2>1, ReleaseLayout
<1>2. CASE ~\E i \in FirstAt(bs, p) : bs[i].isUsed
  BY <1>2 DEF AfterFree
<1> QED  BY <1>1, <1>2

(* The same blocks, all in use but one: how they lie does not depend on the  *)
(* marks, and such an array is well formed.                                  *)
UsedBut(bs, i) == [j \in DOMAIN bs |-> Block(bs[j].startAdress, bs[j].size, j # i)]

LEMMA UsedButOne ==
  ASSUME NEW total \in Nat, NEW bs, Layout(bs, total), NEW i,
         NEW other, other = UsedBut(bs, i)
  PROVE  /\ WellFormed(other, total) /\ Len(other) = Len(bs)
         /\ \A j \in 1 .. Len(bs) : /\ other[j].startAdress = bs[j].startAdress
                                    /\ other[j].size = bs[j].size
                                    /\ other[j].isUsed = (j # i)
<1> PICK len : len = Len(bs)
  OBVIOUS
<1>1. len \in Nat /\ DOMAIN bs = 1 .. len /\ bs \in Seq(BlockType)
  BY LenProperties DEF Layout
<1>2. ASSUME NEW j \in 1 .. len
      PROVE  /\ other[j] \in BlockType /\ other[j].startAdress = bs[j].startAdress
             /\ other[j].size = bs[j].size /\ other[j].isUsed = (j # i)
  <2> PICK m \in BOOLEAN : m = (j # i)
    OBVIOUS
  <2>1. other[j] = Block(bs[j].startAdress, bs[j].size, m)
    BY <1>1 DEF UsedBut
  <2>2. bs[j].startAdress \in Nat /\ bs[j].size \in Nat
    BY <1>1, BlocksTyped
  <2> QED  BY <2>1, <2>2 DEF Block, BlockType
<1>3. other \in Seq(BlockType) /\ Len(other) = len /\ DOMAIN other = 1 .. len
  <2>1. DOMAIN other = 1 .. len /\ other = [j \in 1 .. len |-> other[j]]
    BY <1>1 DEF UsedBut
  <2>2. other \in [1 .. len -> BlockType]
    BY <1>2, <2>1
  <2>3. other \in Seq(BlockType)
    BY ONLY <1>1, <2>2, SeqDef
  <2> QED  BY ONLY <1>1, <2>1, <2>3, LenProperties
<1>4. Layout(other, total)
  BY <1>2, <1>3, MarksDoNotMatter
<1>5. Coalesced(other)
  <2> SUFFICES ASSUME NEW j \in 1 .. len, j < len
               PROVE  other[j].isUsed \/ other[j+1].isUsed
    BY <1>3 DEF Coalesced
  <2>1. j + 1 \in 1 .. len /\ j + 1 # j
    BY <1>1
  <2> QED  BY <1>2, <2>1
<1> QED  BY <1>2, <1>3, <1>4, <1>5 DEF WellFormed

LEMMA CarveLayout ==
  ASSUME NEW total \in Nat, NEW bs, Layout(bs, total),
         NEW size \in Nat \ {0}, NEW i \in FirstFit(bs, size)
  PROVE  Layout(Carve(bs, i, size), total)
<1> PICK cut : cut = Carve(bs, i, size)
  OBVIOUS
<1>1. /\ bs \in Seq(BlockType) /\ Len(bs) \in Nat /\ DOMAIN bs = 1 .. Len(bs)
      /\ i \in 1 .. Len(bs) /\ size <= bs[i].size
  BY LenProperties DEF Layout, FirstFit, Fits
<1>2. bs[i].size \in Nat
  BY <1>1, BlocksTyped
<1>3. CASE bs[i].size = size
  <2> PICK b : b = Block(bs[i].startAdress, bs[i].size, TRUE)
    OBVIOUS
  <2>1. cut = [bs EXCEPT ![i] = b]
    BY <1>3 DEF Carve
  <2>2. b \in BlockType /\ b.startAdress = bs[i].startAdress /\ b.size = bs[i].size
    <3>1. bs \in Seq(BlockType) /\ i \in DOMAIN bs /\ TRUE \in BOOLEAN
          /\ b = Block(bs[i].startAdress, bs[i].size, TRUE)
      BY <1>1
    <3> QED  BY ONLY <3>1, MarkOnly
  <2>3. i \in DOMAIN bs
    BY <1>1
  <2>4. Layout(cut, total)
    BY ONLY total \in Nat, Layout(bs, total), <2>1, <2>2, <2>3, MarkedLayout
  <2> QED  BY <2>4
<1>4. CASE bs[i].size # size
  <2> PICK other : other = UsedBut(bs, i)
    OBVIOUS
  <2> PICK ref : ref = Carve(other, i, size)
    OBVIOUS
  <2>1. size < bs[i].size /\ size \in Nat
    BY <1>1, <1>2, <1>4
  <2>2. /\ WellFormed(other, total) /\ other \in Seq(BlockType)
        /\ Len(other) = Len(bs) /\ DOMAIN other = 1 .. Len(bs)
        /\ \A j \in 1 .. Len(bs) : /\ other[j].startAdress = bs[j].startAdress
                                   /\ other[j].size = bs[j].size
                                   /\ other[j].isUsed = (j # i)
    BY UsedButOne, LenProperties DEF WellFormed, Layout
  <2>3. i \in FirstFit(other, size)
    BY <1>1, <2>1, <2>2 DEF FirstFit, Fits
  <2>4. Layout(ref, total)
    BY <2>2, <2>3, CarveWellFormed DEF WellFormed
  <2>5. IsSplit(cut, bs, i, size)
    BY <1>1, <2>1, CarvePositions
  <2>6. IsSplit(ref, other, i, size)
    <3>1. i \in DOMAIN other /\ size < other[i].size
      BY <1>1, <2>1, <2>2
    <3> QED  BY <2>1, <2>2, <3>1, CarvePositions
  <2>7. \A j \in 1 .. Len(bs) + 1 : /\ cut[j].startAdress = ref[j].startAdress
                                    /\ cut[j].size = ref[j].size
    <3> SUFFICES ASSUME NEW j \in 1 .. Len(bs) + 1
                 PROVE  cut[j].startAdress = ref[j].startAdress /\ cut[j].size = ref[j].size
      OBVIOUS
    <3>1. (j < i => j \in 1 .. Len(bs)) /\ (j > i + 1 => j - 1 \in 1 .. Len(bs))
      BY <1>1
    <3>2. other[i].startAdress = bs[i].startAdress /\ other[i].size = bs[i].size
      BY <1>1, <2>2
    <3> PICK b, r : /\ b = Block(bs[i].startAdress, size, TRUE)
                    /\ r = Block(bs[i].startAdress + size, bs[i].size - size, FALSE)
      OBVIOUS
    <3>3. cut[j] = IF j < i THEN bs[j] ELSE IF j = i THEN b
                   ELSE IF j = i + 1 THEN r ELSE bs[j-1]
      BY <2>5 DEF IsSplit
    <3>4. ref[j] = IF j < i THEN other[j] ELSE IF j = i THEN b
                   ELSE IF j = i + 1 THEN r ELSE other[j-1]
      BY <2>2, <2>6, <3>2 DEF IsSplit
    <3>5. j < i => other[j].startAdress = bs[j].startAdress /\ other[j].size = bs[j].size
      BY <2>2, <3>1
    <3>6. j > i + 1 => /\ other[j-1].startAdress = bs[j-1].startAdress
                       /\ other[j-1].size = bs[j-1].size
      BY <2>2, <3>1
    <3>7. j \in Int /\ i \in Int
      BY <1>1
    <3>8. CASE j < i
      BY ONLY <3>3, <3>4, <3>5, <3>8
    <3>9. CASE j = i
      <4>1. ~(j < i)
        BY ONLY <3>7, <3>9
      <4> QED  BY ONLY <3>3, <3>4, <3>9, <4>1
    <3>10. CASE j = i + 1
      <4>1. ~(j < i) /\ j # i
        BY ONLY <3>7, <3>10
      <4> QED  BY ONLY <3>3, <3>4, <3>10, <4>1
    <3>11. CASE j > i + 1
      <4>1. ~(j < i) /\ j # i /\ j # i + 1
        BY ONLY <3>7, <3>11
      <4> QED  BY ONLY <3>3, <3>4, <3>6, <3>11, <4>1
    <3> QED  BY ONLY <3>7, <3>8, <3>9, <3>10, <3>11
  <2>8. cut \in Seq(BlockType) /\ Len(cut) = Len(ref) /\ Len(ref) = Len(bs) + 1
    BY <2>2, <2>5, <2>6 DEF IsSplit
  <2> QED  BY <2>4, <2>7, <2>8, MarksDoNotMatter
<1> QED  BY <1>3, <1>4

LEMMA GrowRightLayout ==
  ASSUME NEW total \in Nat, NEW bs, Layout(bs, total), NEW size \in Nat,
         NEW i \in DOMAIN bs, bs[i].size < size, CanGrowRight(bs, i, size)
  PROVE  Layout(GrowRight(bs, i, size), total)
<1> PICK new : new = GrowRight(bs, i, size)
  OBVIOUS
<1> PICK len : len = Len(bs)
  OBVIOUS
<1> PICK other : other = UsedBut(bs, i + 1)
  OBVIOUS
<1> PICK ref : ref = GrowRight(other, i, size)
  OBVIOUS
<1> PICK rest : rest = bs[i+1].size + bs[i].size - size
  OBVIOUS
<1>1. /\ bs \in Seq(BlockType) /\ len \in Nat /\ DOMAIN bs = 1 .. len
      /\ i \in 1 .. len /\ i + 1 \in 1 .. len /\ i < len
      /\ size <= bs[i+1].size + bs[i].size
  <2>1. bs \in Seq(BlockType) /\ len \in Nat /\ DOMAIN bs = 1 .. len
    BY LenProperties DEF Layout
  <2> QED  BY <2>1 DEF CanGrowRight, FreeAfter
<1>2. /\ WellFormed(other, total) /\ other \in Seq(BlockType)
      /\ Len(other) = len /\ DOMAIN other = 1 .. len
      /\ \A j \in 1 .. len : /\ other[j].startAdress = bs[j].startAdress
                             /\ other[j].size = bs[j].size
                             /\ other[j].isUsed = (j # i + 1)
  BY UsedButOne, LenProperties DEF WellFormed, Layout
<1>3. /\ other[i].startAdress = bs[i].startAdress /\ other[i].size = bs[i].size
      /\ other[i+1].size = bs[i+1].size /\ ~other[i+1].isUsed
  BY <1>1, <1>2
<1>4. CanGrowRight(other, i, size) /\ other[i].size < size /\ i \in DOMAIN other
  BY <1>1, <1>2, <1>3 DEF CanGrowRight, FreeAfter
<1>5. Layout(ref, total)
  BY <1>2, <1>4, GrowRightWellFormed DEF WellFormed
<1>6. IsGrown(new, bs, i, size)
  BY <1>1, GrowRightPositions
<1>7. IsGrown(ref, other, i, size)
  BY <1>2, <1>4, GrowRightPositions
<1> PICK a, c, d : /\ a = Block(bs[i].startAdress, size, bs[i].isUsed)
                   /\ d = Block(bs[i].startAdress, size, other[i].isUsed)
                   /\ c = Block(bs[i].startAdress + size, rest, FALSE)
  OBVIOUS
<1>8. a.startAdress = d.startAdress /\ a.size = d.size
  BY DEF Block
<1>9. /\ new \in Seq(BlockType)
      /\ rest # 0 => /\ Len(new) = len
                     /\ \A j \in 1 .. len :
                          new[j] = IF j = i + 1 THEN c ELSE IF j = i THEN a ELSE bs[j]
      /\ rest = 0 => /\ Len(new) = len - 1
                     /\ \A j \in 1 .. len - 1 :
                          new[j] = IF j < i THEN bs[j] ELSE IF j = i THEN a ELSE bs[j+1]
  BY <1>6 DEF IsGrown
<1>10. /\ rest # 0 => /\ Len(ref) = len
                      /\ \A j \in 1 .. len :
                           ref[j] = IF j = i + 1 THEN c ELSE IF j = i THEN d ELSE other[j]
       /\ rest = 0 => /\ Len(ref) = len - 1
                      /\ \A j \in 1 .. len - 1 :
                           ref[j] = IF j < i THEN other[j] ELSE IF j = i THEN d ELSE other[j+1]
  BY <1>2, <1>3, <1>7 DEF IsGrown
<1>11. CASE rest # 0
  <2>1. \A j \in 1 .. len : /\ new[j].startAdress = ref[j].startAdress
                            /\ new[j].size = ref[j].size
    BY ONLY <1>2, <1>8, <1>9, <1>10, <1>11
  <2> QED  BY <1>5, <1>9, <1>10, <1>11, <2>1, MarksDoNotMatter
<1>12. CASE rest = 0
  <2>1. \A j \in 1 .. len - 1 : j \in 1 .. len /\ j + 1 \in 1 .. len
    BY <1>1
  <2>2. ASSUME NEW j \in 1 .. len - 1
        PROVE  new[j].startAdress = ref[j].startAdress /\ new[j].size = ref[j].size
    <3>1. new[j] = IF j < i THEN bs[j] ELSE IF j = i THEN a ELSE bs[j+1]
      BY <1>9, <1>12
    <3>2. ref[j] = IF j < i THEN other[j] ELSE IF j = i THEN d ELSE other[j+1]
      BY <1>10, <1>12
    <3> QED  BY <1>2, <1>8, <2>1, <3>1, <3>2
  <2> QED  BY <1>5, <1>9, <1>10, <1>12, <2>2, MarksDoNotMatter
<1> QED  BY <1>11, <1>12
=============================================================================

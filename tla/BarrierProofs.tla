--------------------------- MODULE BarrierProofs ---------------------------
(***************************************************************************)
(* Proofs about Barrier, for any number of threads and of rounds.          *)
(***************************************************************************)
EXTENDS Barrier, FiniteSetTheorems, TLAPS

Asleep == {t \in party : pc[t] = "asleep"}

(* The rounds that are over for a thread: it has been let through. *)
Passed(t) == IF pc[t] \in {"wake", "unlock"} THEN left[t] + 1 ELSE left[t]

(* Threads of other tests are not in my_barrier_wait. *)
OnlyParty == \A t \in Threads \ party : pc[t] = "outside"

(* A thread has come once more than it has left, or is not there. *)
Balanced ==
  \A t \in Threads : entered[t] = IF pc[t] = "outside" THEN left[t] ELSE left[t] + 1

(* All are let through at the same moment. *)
Together == \A t, u \in party : Passed(t) = Passed(u)

PartyCounted == party # {} => num_threads = Cardinality(party)

IInv ==
  /\ TypeOK /\ OnlyParty /\ Balanced /\ PartyCounted
  /\ ~surprised => Together /\ count = Cardinality(Asleep)

LEMMA InitSound == Init => IInv
<1> SUFFICES ASSUME Init PROVE IInv
  OBVIOUS
<1>1. TypeOK /\ OnlyParty /\ Balanced /\ PartyCounted
  BY DEF Init, TypeOK, OnlyParty, Balanced, PartyCounted
<1>2. Together
  BY DEF Init, Together
<1>3. Asleep = {}
  BY DEF Init, Asleep
<1>4. count = Cardinality(Asleep)
  BY <1>3, FS_EmptySet DEF Init
<1> QED
  BY <1>1, <1>2, <1>4 DEF IInv

(* The party is a finite set of threads. *)
LEMMA PartyFinite ==
  ASSUME TypeOK
  PROVE  /\ IsFiniteSet(party) /\ Cardinality(party) \in Nat
         /\ IsFiniteSet(Asleep) /\ Cardinality(Asleep) \in Nat
<1>1. IsFiniteSet(party)
  BY FS_Subset, BarrierAssumption DEF TypeOK
<1>2. Asleep \subseteq party
  BY DEF Asleep
<1>3. IsFiniteSet(Asleep)
  BY <1>1, <1>2, FS_Subset
<1> QED
  BY <1>1, <1>3, FS_CardinalityType

(* The last thread to come finds all others asleep. *)
LEMMA LastFindsAllAsleep ==
  ASSUME IInv, NEW t \in party, pc[t] = "arrive", ~surprised, IsLast
  PROVE  \A u \in party : u = t \/ pc[u] = "asleep"
<1> DEFINE here == Asleep \cup {t}
<1>1. /\ IsFiniteSet(party) /\ IsFiniteSet(Asleep) /\ Cardinality(Asleep) \in Nat
  BY PartyFinite DEF IInv
<1>2. t \notin Asleep
  BY DEF Asleep
<1>3. Cardinality(here) = Cardinality(Asleep) + 1
  BY <1>1, <1>2, FS_AddElement
<1>4. Cardinality(Asleep) + 1 = Cardinality(party)
  BY DEF IInv, IsLast, PartyCounted
<1>5. here \subseteq party
  BY DEF Asleep
<1>6. here = party
  BY <1>1, <1>3, <1>4, <1>5, FS_Subset
<1> QED
  BY <1>6 DEF Asleep

LEMMA StepSound == IInv /\ [Next]_vars => IInv'
<1> SUFFICES ASSUME IInv, [Next]_vars PROVE IInv'
  OBVIOUS
<1> USE DEF IInv
<1>1. CASE my_barrier_init
  <2>1. party' \subseteq Threads /\ party' # {}
    BY <1>1 DEF my_barrier_init
  <2>2. IsFiniteSet(party')
    BY <2>1, FS_Subset, BarrierAssumption
  <2>3. Cardinality(party') \in Nat /\ Cardinality(party') # 0
    BY <2>1, <2>2, FS_CardinalityType, FS_EmptySet
  <2>4. \A t \in Threads : pc[t] = "outside"
    BY <1>1 DEF my_barrier_init, OnlyParty
  <2>5. TypeOK'
    <3>1. num_threads' \in Nat /\ num_threads' # 0 /\ count' = 0
      BY <1>1, <2>3 DEF my_barrier_init
    <3>2. /\ pc' \in [Threads -> {"outside", "lock", "arrive", "asleep", "wake", "unlock"}]
          /\ entered' \in [Threads -> Nat] /\ left' \in [Threads -> Nat]
          /\ mutex' = NoThread /\ surprised' \in BOOLEAN
      BY <1>1 DEF my_barrier_init, TypeOK
    <3> QED
      BY <2>1, <3>1, <3>2 DEF TypeOK
  <2>6. OnlyParty' /\ Balanced' /\ PartyCounted'
    BY <1>1, <2>4 DEF my_barrier_init, OnlyParty, Balanced, PartyCounted
  <2>7. Together'
    BY <1>1, <2>1, <2>4 DEF my_barrier_init, Together, Passed
  <2>8. Asleep' = {}
    BY <1>1, <2>1, <2>4 DEF my_barrier_init, Asleep
  <2>9. count' = Cardinality(Asleep')
    BY <1>1, <2>8, FS_EmptySet DEF my_barrier_init
  <2> QED
    BY <2>5, <2>6, <2>7, <2>9
<1>2. CASE my_barrier_destroy
  <2>1. \A t \in Threads : pc[t] = "outside"
    BY <1>2 DEF my_barrier_destroy, OnlyParty
  <2>2. TypeOK'
    BY <1>2 DEF my_barrier_destroy, TypeOK
  <2>3. OnlyParty' /\ Balanced' /\ PartyCounted' /\ Together'
    BY <1>2, <2>1 DEF my_barrier_destroy, OnlyParty, Balanced, PartyCounted, Together
  <2>4. Asleep = {} /\ Asleep' = {}
    BY <1>2, <2>1 DEF my_barrier_destroy, Asleep
  <2>5. ~surprised' => count' = Cardinality(Asleep')
    BY <1>2, <2>4 DEF my_barrier_destroy
  <2> QED
    BY <2>2, <2>3, <2>5
<1>3. ASSUME NEW t \in party, my_barrier_wait(t) PROVE IInv'
  <2>1. t \in Threads
    BY DEF TypeOK
  <2>2. TypeOK'
    BY <1>3, <2>1 DEF my_barrier_wait, TypeOK, Goto
  <2>3. OnlyParty' /\ PartyCounted'
    BY <1>3, <2>1 DEF my_barrier_wait, TypeOK, Goto, OnlyParty, PartyCounted
  <2>4. Balanced'
    BY <1>3, <2>1 DEF my_barrier_wait, TypeOK, Goto, Balanced
  <2>5. \A u \in party : Passed(u)' = Passed(u)
    BY <1>3, <2>1 DEF my_barrier_wait, TypeOK, Goto, Passed
  <2>6. Asleep' = Asleep
    BY <1>3, <2>1 DEF my_barrier_wait, TypeOK, Goto, Asleep
  <2> QED
    BY <1>3, <2>2, <2>3, <2>4, <2>5, <2>6 DEF my_barrier_wait, Together
<1>4. ASSUME NEW t \in party, lock(t) PROVE IInv'
  <2>1. t \in Threads
    BY DEF TypeOK
  <2>2. TypeOK'
    BY <1>4, <2>1 DEF lock, TypeOK, Goto
  <2>3. OnlyParty' /\ PartyCounted'
    BY <1>4, <2>1 DEF lock, TypeOK, Goto, OnlyParty, PartyCounted
  <2>4. Balanced'
    BY <1>4, <2>1 DEF lock, TypeOK, Goto, Balanced
  <2>5. \A u \in party : Passed(u)' = Passed(u)
    BY <1>4, <2>1 DEF lock, TypeOK, Goto, Passed
  <2>6. Asleep' = Asleep
    BY <1>4, <2>1 DEF lock, TypeOK, Goto, Asleep
  <2> QED
    BY <1>4, <2>2, <2>3, <2>4, <2>5, <2>6 DEF lock, Together
<1>5. ASSUME NEW t \in party, arrive(t) PROVE IInv'
  <2>1. t \in Threads /\ pc[t] = "arrive"
    BY <1>5 DEF TypeOK, arrive
  <2>2. CASE IsLast /\ reset /\ broadcast(t) /\ UNCHANGED mutex
    <3>1. TypeOK'
      BY <1>5, <2>1, <2>2 DEF arrive, TypeOK, IsLast, reset, broadcast
    <3>2. OnlyParty' /\ PartyCounted'
      BY <1>5, <2>1, <2>2 DEF arrive, broadcast, OnlyParty, PartyCounted
    <3>3. Balanced'
      BY <1>5, <2>1, <2>2 DEF arrive, broadcast, Balanced, TypeOK
    <3>4. Asleep' = {}
      BY <1>5, <2>1, <2>2 DEF arrive, broadcast, Asleep, TypeOK
    <3>5. count' = Cardinality(Asleep')
      BY <2>2, <3>4, FS_EmptySet DEF reset
    <3>6. ASSUME ~surprised PROVE Together'
      <4>1. \A u \in party : u = t \/ pc[u] = "asleep"
        BY <2>1, <2>2, <3>6, LastFindsAllAsleep
      <4>2. \A u \in party : Passed(u) = left[u] /\ Passed(u)' = left[u] + 1
        BY <1>5, <2>1, <2>2, <4>1 DEF arrive, broadcast, Passed, TypeOK
      <4>3. Together /\ party' = party
        BY <1>5, <3>6 DEF arrive
      <4> QED
        BY <4>2, <4>3 DEF Together
    <3>7. surprised' = surprised
      BY <1>5 DEF arrive
    <3> QED
      BY <3>1, <3>2, <3>3, <3>5, <3>6, <3>7
  <2>3. CASE ~IsLast /\ count' = count + 1 /\ mutex' = NoThread /\ Goto(t, "asleep")
    <3>0. num_threads \in Nat /\ party # {}
      BY DEF TypeOK
    <3>1. TypeOK'
      BY <1>5, <2>1, <2>3, <3>0 DEF arrive, TypeOK, IsLast, Goto
    <3>2. OnlyParty' /\ PartyCounted'
      BY <1>5, <2>1, <2>3 DEF arrive, TypeOK, Goto, OnlyParty, PartyCounted
    <3>3. Balanced'
      BY <1>5, <2>1, <2>3 DEF arrive, TypeOK, Goto, Balanced
    <3>4. \A u \in party : Passed(u)' = Passed(u)
      BY <1>5, <2>1, <2>3 DEF arrive, TypeOK, Goto, Passed
    <3>5. Asleep' = Asleep \cup {t} /\ t \notin Asleep
      BY <1>5, <2>1, <2>3 DEF arrive, TypeOK, Goto, Asleep
    <3>6. ~surprised => count' = Cardinality(Asleep')
      BY <2>3, <3>5, PartyFinite, FS_AddElement
    <3> QED
      BY <1>5, <3>1, <3>2, <3>3, <3>4, <3>6 DEF arrive, Together
  <2> QED
    BY <1>5, <2>2, <2>3 DEF arrive
<1>6. ASSUME NEW t \in party, wake_spuriously(t) PROVE IInv'
  <2>1. t \in Threads
    BY DEF TypeOK
  <2>2. TypeOK' /\ surprised'
    BY <1>6, <2>1 DEF wake_spuriously, TypeOK, Goto
  <2>3. OnlyParty' /\ PartyCounted'
    BY <1>6, <2>1 DEF wake_spuriously, TypeOK, Goto, OnlyParty, PartyCounted
  <2>4. Balanced'
    BY <1>6, <2>1 DEF wake_spuriously, TypeOK, Goto, Balanced
  <2> QED
    BY <2>2, <2>3, <2>4
<1>7. ASSUME NEW t \in party, wake(t) PROVE IInv'
  <2>1. t \in Threads
    BY DEF TypeOK
  <2>2. TypeOK'
    BY <1>7, <2>1 DEF wake, TypeOK, Goto
  <2>3. OnlyParty' /\ PartyCounted'
    BY <1>7, <2>1 DEF wake, TypeOK, Goto, OnlyParty, PartyCounted
  <2>4. Balanced'
    BY <1>7, <2>1 DEF wake, TypeOK, Goto, Balanced
  <2>5. \A u \in party : Passed(u)' = Passed(u)
    BY <1>7, <2>1 DEF wake, TypeOK, Goto, Passed
  <2>6. Asleep' = Asleep
    BY <1>7, <2>1 DEF wake, TypeOK, Goto, Asleep
  <2> QED
    BY <1>7, <2>2, <2>3, <2>4, <2>5, <2>6 DEF wake, Together
<1>8. ASSUME NEW t \in party, unlock(t) PROVE IInv'
  <2>1. t \in Threads
    BY DEF TypeOK
  <2>2. TypeOK'
    BY <1>8, <2>1 DEF unlock, TypeOK, Goto
  <2>3. OnlyParty' /\ PartyCounted'
    BY <1>8, <2>1 DEF unlock, TypeOK, Goto, OnlyParty, PartyCounted
  <2>4. Balanced'
    BY <1>8, <2>1 DEF unlock, TypeOK, Goto, Balanced
  <2>5. \A u \in party : Passed(u)' = Passed(u)
    BY <1>8, <2>1 DEF unlock, TypeOK, Goto, Passed
  <2>6. Asleep' = Asleep
    BY <1>8, <2>1 DEF unlock, TypeOK, Goto, Asleep
  <2> QED
    BY <1>8, <2>2, <2>3, <2>4, <2>5, <2>6 DEF unlock, Together
<1>9. CASE UNCHANGED vars
  BY <1>9 DEF vars, TypeOK, OnlyParty, Balanced, PartyCounted, Together, Passed, Asleep
<1> QED
  BY <1>1, <1>2, <1>3, <1>4, <1>5, <1>6, <1>7, <1>8, <1>9 DEF Next, Waiting

(* The inductive invariant holds in every reachable state: as long as nobody *)
(* is woken unasked, all threads of a test are let through round by round    *)
(* together.                                                                 *)
THEOREM BarrierSound == Spec => []IInv
BY InitSound, StepSound, PTL DEF Spec

(* The barrier's fields keep their types, and the count stays below the      *)
(* number of threads, spurious wakeups or not.                               *)
THEOREM BarrierKeepsTypes == Spec => []TypeOK
<1>1. IInv => TypeOK
  BY DEF IInv
<1> QED
  BY <1>1, BarrierSound, PTL

(* The count my_barrier_wait compares is that of the threads asleep.         *)
THEOREM SleepersAreCounted == Spec => []CountsSleepers
<1>1. IInv => CountsSleepers
  BY DEF IInv, CountsSleepers, Asleep
<1> QED
  BY <1>1, BarrierSound, PTL

(* With any number of threads, over any number of rounds, nobody leaves      *)
(* my_barrier_wait before all have come, unless somebody was woken unasked.  *)
THEOREM RoundsStayApart == Spec => []RoundsDoNotMix
<1>1. IInv => RoundsDoNotMix
  <2> SUFFICES ASSUME IInv, ~surprised, NEW t \in party, NEW u \in party
               PROVE  left[t] <= entered[u]
    BY DEF RoundsDoNotMix, NobodyLeavesEarly
  <2>1. t \in Threads /\ u \in Threads
    BY DEF IInv, TypeOK
  <2>2. /\ left[t] \in Nat /\ left[u] \in Nat /\ entered[u] \in Nat
    BY <2>1 DEF IInv, TypeOK
  <2>3. left[t] <= Passed(t) /\ Passed(t) = Passed(u)
    BY <2>2 DEF IInv, Together, Passed
  <2>4. Passed(u) <= entered[u]
    BY <2>1, <2>2 DEF IInv, Balanced, Passed
  <2> QED
    BY <2>2, <2>3, <2>4 DEF Passed
<1> QED
  BY <1>1, BarrierSound, PTL
=============================================================================

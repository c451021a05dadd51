------------------------------ MODULE Barrier ------------------------------
(***************************************************************************)
(* my_barrier_t of common_defs.h: the threads of a test meet at the        *)
(* barrier up to Rounds times, between the my_barrier_init and the         *)
(* my_barrier_destroy of the main thread, which creates and joins them.    *)
(* Fragmentation has such a test.                                          *)
(***************************************************************************)
EXTENDS Integers, FiniteSets

CONSTANTS Threads,
          Rounds,            \* how often each thread waits at a barrier
          NoThread

ASSUME BarrierAssumption ==
  /\ IsFiniteSet(Threads) /\ Rounds \in Nat
  /\ NoThread \notin Threads

VARIABLES party,              \* the threads of this test
          num_threads, count,
          mutex,              \* who has it
          pc,                 \* where each thread is in my_barrier_wait
          entered, left,      \* how often each thread has called it, and returned
          surprised           \* history: a thread has been woken unasked

vars == <<party, num_threads, count, mutex, pc, entered, left, surprised>>

TypeOK ==
  /\ party \subseteq Threads
  /\ num_threads \in Nat
  /\ count \in Nat /\ (party # {} => count < num_threads)
  /\ mutex \in Threads \cup {NoThread}
  /\ pc \in [Threads -> {"outside", "lock", "arrive", "asleep", "wake", "unlock"}]
  /\ entered \in [Threads -> Nat] /\ left \in [Threads -> Nat]
  /\ surprised \in BOOLEAN

Init ==
  /\ party = {}
  /\ num_threads = 0 /\ count = 0
  /\ mutex = NoThread
  /\ pc = [t \in Threads |-> "outside"]
  /\ entered = [t \in Threads |-> 0] /\ left = [t \in Threads |-> 0]
  /\ surprised = FALSE

Goto(t, label) == pc' = [pc EXCEPT ![t] = label]

-----------------------------------------------------------------------------
(* Tests tell the barrier how many threads they will create. *)
my_barrier_init ==
  /\ party = {}
  /\ party' \in (SUBSET Threads) \ {{}}
  /\ num_threads' = Cardinality(party')
  /\ count' = 0 /\ mutex' = NoThread
  /\ entered' = [t \in Threads |-> 0] /\ left' = [t \in Threads |-> 0]
  /\ surprised' = FALSE
  /\ UNCHANGED pc

my_barrier_destroy ==
  /\ party # {}
  /\ \A t \in party : pc[t] = "outside"
  /\ party' = {}
  /\ UNCHANGED <<num_threads, count, mutex, pc, entered, left, surprised>>

my_barrier_wait(t) ==
  /\ pc[t] = "outside" /\ entered[t] < Rounds
  /\ entered' = [entered EXCEPT ![t] = @ + 1]
  /\ Goto(t, "lock")
  /\ UNCHANGED <<party, num_threads, count, mutex, left, surprised>>

lock(t) ==
  /\ pc[t] = "lock" /\ mutex = NoThread
  /\ mutex' = t
  /\ Goto(t, "arrive")
  /\ UNCHANGED <<party, num_threads, count, entered, left, surprised>>

(* Mutation of IsLast: one thread too few is waited for. *)
IsLastButOne == count + 1 = num_threads - 1 \/ count + 1 = num_threads

IsLast == count + 1 = num_threads

(* Mutation of broadcast: one of the waiting threads is woken, not all. *)
broadcast_One(t) ==
  LET asleep == {u \in Threads : pc[u] = "asleep"}
  IN  \E woken \in SUBSET asleep :
         /\ asleep # {} => Cardinality(woken) = 1
         /\ pc' = [u \in Threads |-> IF u \in woken THEN "wake"
                                     ELSE IF u = t THEN "unlock" ELSE pc[u]]

broadcast(t) ==
  pc' = [u \in Threads |-> IF pc[u] = "asleep" THEN "wake"
                           ELSE IF u = t THEN "unlock" ELSE pc[u]]

(* Mutation of reset: the count is left where it is. *)
reset_Never == count' = count + 1

reset == count' = 0

(* pthread_cond_wait lets go of the mutex and sleeps in one step. *)
arrive(t) ==
  /\ pc[t] = "arrive"
  /\ \/ /\ IsLast
        /\ reset
        /\ broadcast(t)
        /\ UNCHANGED mutex
     \/ /\ ~IsLast
        /\ count' = count + 1
        /\ mutex' = NoThread
        /\ Goto(t, "asleep")
  /\ UNCHANGED <<party, num_threads, entered, left, surprised>>

(* POSIX lets pthread_cond_wait return unasked. *)
wake_spuriously(t) ==
  /\ pc[t] = "asleep"
  /\ surprised' = TRUE
  /\ Goto(t, "wake")
  /\ UNCHANGED <<party, num_threads, count, mutex, entered, left>>

(* A woken thread has to get the mutex back. *)
wake(t) ==
  /\ pc[t] = "wake" /\ mutex = NoThread
  /\ mutex' = t
  /\ Goto(t, "unlock")
  /\ UNCHANGED <<party, num_threads, count, entered, left, surprised>>

unlock(t) ==
  /\ pc[t] = "unlock"
  /\ mutex' = NoThread
  /\ left' = [left EXCEPT ![t] = @ + 1]
  /\ Goto(t, "outside")
  /\ UNCHANGED <<party, num_threads, count, entered, surprised>>

-----------------------------------------------------------------------------
Waiting(t) == my_barrier_wait(t) \/ lock(t) \/ arrive(t) \/ wake(t) \/ unlock(t)

Next ==
  \/ my_barrier_init \/ my_barrier_destroy
  \/ \E t \in party : Waiting(t) \/ wake_spuriously(t)

Spec == Init /\ [][Next]_vars

-----------------------------------------------------------------------------
(* "Wait until all threads have reached the barrier" (my_barrier_wait): who  *)
(* has left it so many times knows that everybody has come as often.         *)
NobodyLeavesEarly == \A t, u \in party : left[t] <= entered[u]

(* It is so as long as pthread_cond_wait returns only after a broadcast,     *)
(* although one set of variables serves round after round: threads that are  *)
(* back do not mix with those still on their way out.                        *)
RoundsDoNotMix == ~surprised => NobodyLeavesEarly

(* The count my_barrier_wait compares is that of the threads asleep in this  *)
(* round.                                                                    *)
CountsSleepers == ~surprised => count = Cardinality({t \in party : pc[t] = "asleep"})
=============================================================================

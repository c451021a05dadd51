---------------------------- MODULE MCLinkedList ----------------------------
(* The threads, their values and their numbers of calls TLC explores. *)
EXTENDS LinkedList

CONSTANTS t1, t2, CallsOfFirst, CallsOfSecond

TwoThreads == {t1, t2}

CallsPerThread == [t \in Threads |-> IF t = t1 THEN CallsOfFirst ELSE CallsOfSecond]

(* With two bits of data, 5 is stored as 1. *)
ValuesPerThread == [t \in Threads |-> IF t = t1 THEN {1, 5} ELSE {2}]
=============================================================================

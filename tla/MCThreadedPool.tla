--------------------------- MODULE MCThreadedPool ---------------------------
(* The threads, pools and numbers of calls TLC explores. *)
EXTENDS ThreadedPool

CONSTANTS t1, t2, CallsOfFirst, CallsOfSecond

TwoThreads == {t1, t2}

CallsPerThread == [t \in TwoThreads |-> IF t = t1 THEN CallsOfFirst ELSE CallsOfSecond]
=============================================================================

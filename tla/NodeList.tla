------------------------------ MODULE NodeList ------------------------------
(***************************************************************************)
(* What the calls of linked_list.c promise: the list is a sequence of      *)
(* nodes with their data, and each call does one thing to it at once.      *)
(* LinkedList implements this specification.                               *)
(***************************************************************************)
EXTENDS Integers, SequencesExt

CONSTANTS Nodes,    \* the nodes a pool can hold
          Values,   \* the ints callers pass as data
          Width,    \* how many values the data of a node can have
          NULL

VARIABLES room,   \* the nodes this pool can hold
          list,   \* the nodes in the list, with their data
          call    \* the last call: its arguments and what it answered

vars == <<room, list, call>>

Did(op, node, stop, value, ret, seen) ==
  call' = [op |-> op, node |-> node, stop |-> stop, value |-> value,
           ret |-> ret, seen |-> seen]

Init ==
  /\ room = {}
  /\ list = <<>>
  /\ call = [op |-> "start", node |-> NULL, stop |-> NULL, value |-> 0,
             ret |-> NULL, seen |-> <<>>]

Spare == room \ {list[i].node : i \in DOMAIN list}

(* Where a node is, and where a value is first. *)
Where(n) == {i \in DOMAIN list : list[i].node = n}

First(value) ==
  {i \in DOMAIN list : /\ list[i].data = value
                       /\ \A j \in DOMAIN list : list[j].data = value => i <= j}

DataOf(s) == [i \in DOMAIN s |-> s[i].data]

-----------------------------------------------------------------------------
list_init ==
  /\ room' \in SUBSET Nodes
  /\ list' = <<>>
  /\ Did("list_init", NULL, NULL, 0, NULL, <<>>)

list_cleanup ==
  /\ room' = {}
  /\ list' = <<>>
  /\ Did("list_cleanup", NULL, NULL, 0, NULL, <<>>)

(* A new node at position i, if the pool has one left.  Only so many bits of *)
(* the value are kept.                                                       *)
Put(i, value) ==
  \/ Spare = {} /\ UNCHANGED list
  \/ \E n \in Spare : list' = InsertAt(list, i, [node |-> n, data |-> value % Width])

list_insert(value) ==
  /\ Put(Len(list) + 1, value)
  /\ Did("list_insert", NULL, NULL, value, NULL, <<>>)
  /\ UNCHANGED room

list_insert_after(n, value) ==
  /\ \/ n = NULL /\ UNCHANGED list
     \/ \E i \in Where(n) : Put(i + 1, value)
  /\ Did("list_insert_after", n, NULL, value, NULL, <<>>)
  /\ UNCHANGED room

(* Not so before the head when there is no node left: see FullPoolIsHandled  *)
(* of LinkedList.                                                            *)
list_insert_before(n, value) ==
  /\ \/ n = NULL /\ UNCHANGED list
     \/ \E i \in Where(n) : Put(i, value)
  /\ Did("list_insert_before", n, NULL, value, NULL, <<>>)
  /\ UNCHANGED room

list_delete(value) ==
  /\ \/ First(value) = {} /\ UNCHANGED list
     \/ \E i \in First(value) : list' = RemoveAt(list, i)
  /\ Did("list_delete", NULL, NULL, value, NULL, <<>>)
  /\ UNCHANGED room

list_search(value) ==
  /\ \/ First(value) = {} /\ Did("list_search", NULL, NULL, value, NULL, <<>>)
     \/ \E i \in First(value) :
           Did("list_search", NULL, NULL, value, list[i].node, <<>>)
  /\ UNCHANGED <<room, list>>

list_count_nodes ==
  /\ Did("list_count_nodes", NULL, NULL, 0, NULL, DataOf(list))
  /\ UNCHANGED <<room, list>>

(* From the head or a given node, to a given node or, if that does not come, *)
(* to the end.                                                               *)
list_display_range(start, stop) ==
  /\ \E i \in IF start = NULL THEN {1} ELSE Where(start) :
        LET ends == {k \in Where(stop) : i <= k}
        IN  \E k \in IF ends = {} THEN {Len(list)} ELSE ends :
               Did("list_display_range", start, stop, 0, NULL, DataOf(SubSeq(list, i, k)))
  /\ UNCHANGED <<room, list>>

-----------------------------------------------------------------------------
Next ==
  \/ list_init \/ list_cleanup \/ list_count_nodes
  \/ \E value \in Values :
        \/ list_insert(value) \/ list_delete(value) \/ list_search(value)
        \/ \E n \in Nodes \cup {NULL} :
              list_insert_after(n, value) \/ list_insert_before(n, value)
  \/ \E start, stop \in Nodes \cup {NULL} : list_display_range(start, stop)

Spec == Init /\ [][Next]_vars
=============================================================================

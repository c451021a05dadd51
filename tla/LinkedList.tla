----------------------------- MODULE LinkedList -----------------------------
(***************************************************************************)
(* linked_list.c: nodes in the pool, and threads that call its operations  *)
(* between the list_init and the list_cleanup of the main thread.  A call  *)
(* takes readWriteLock, walks along the list one node per step, and reads  *)
(* or changes it.  The pool gives out nodes only, so what mem_alloc does   *)
(* is to hand out the lowest spare node of the pool, or NULL.              *)
(***************************************************************************)
EXTENDS Integers, FiniteSets, SequencesExt

CONSTANTS Threads,
          Capacities,   \* for how many nodes list_init asks
          Values,       \* the ints callers pass as data
          Width,        \* how many values the data of a node can have
          Mine,         \* the values each thread inserts and deletes
          Budget,       \* how many calls each thread makes
          Rounds,       \* how often list_init is called
          NULL

ASSUME ListAssumption ==
  /\ Capacities \subseteq Nat /\ IsFiniteSet(Capacities)
  /\ Values \subseteq Nat /\ Width \in Nat \ {0} /\ Rounds \in Nat
  /\ Mine \in [Threads -> SUBSET Values] /\ Budget \in [Threads -> Nat]

ASSUME NullAssumption == NULL \notin Int \cup Threads

(* "Assuming unique values" (thread_delete_function, test_linked_list.c): no  *)
(* value is inserted or deleted by two threads.                              *)
ASSUME UniqueValues ==
  \A t, u \in Threads : t # u => \A v \in Mine[t], w \in Mine[u] : v % Width # w % Width

VARIABLES head,
          cells,            \* the memory of each node
          pool, used,       \* the nodes of the pool, and those handed out
          rwlock,           \* where readWriteLock is in its life
          writer, readers,  \* who holds it
          pc, job,          \* where each thread is, and its call
          mark,             \* the node each thread found last
          calls, rounds,    \* how many calls are left
          phase,            \* whether there is a list
          crashed,          \* a null pointer was written through
          settled, done     \* history: the list as of the last time nobody
                            \* was writing, and the last call that returned

vars == <<head, cells, pool, used, rwlock, writer, readers, pc, job, mark,
          calls, rounds, phase, crashed, settled, done>>

Nodes == UNION {0 .. n - 1 : n \in Capacities}

Writing == {"list_insert", "list_insert_after", "list_insert_before", "list_delete"}
Reading == {"list_search", "list_count_nodes", "list_display_range"}

(* node, stop and value are the arguments; at is the pointer that walks, new *)
(* the node from mem_alloc, target the node before which the walk is to end  *)
(* and seen what has been counted or printed.                                *)
Job(op, node, stop, value) ==
  [op |-> op, node |-> node, stop |-> stop, value |-> value,
   at |-> NULL, new |-> NULL, target |-> NULL, seen |-> <<>>]

NoJob == Job("none", NULL, NULL, 0)

(* The nodes from the head on, at most one more than there are. *)
Chain ==
  LET step[n \in 0 .. Cardinality(Nodes)] ==
        IF n = 0 THEN head
        ELSE IF step[n-1] = NULL THEN NULL ELSE cells[step[n-1]].next
  IN  [i \in 1 .. Cardinality({n \in DOMAIN step : step[n] # NULL}) |-> step[i-1]]

Contents == [i \in DOMAIN Chain |-> [node |-> Chain[i], data |-> cells[Chain[i]].data]]

Pointer == Nodes \cup {NULL}

TypeOK ==
  /\ head \in Pointer
  /\ cells \in [Nodes -> [data : 0 .. Width - 1, next : Pointer]]
  /\ pool \subseteq Nodes /\ used \subseteq pool
  /\ rwlock \in {"zeroed", "initialised", "destroyed"}
  /\ writer \in Threads \cup {NULL} /\ readers \subseteq Threads
  /\ pc \in [Threads -> {"idle", "lock", "walk", "alloc", "link", "unlink", "free", "unlock"}]
  /\ job \in [Threads ->
                [op : Writing \cup Reading \cup {"none"}, node : Pointer, stop : Pointer,
                 value : Values \cup {0}, at : Pointer, new : Pointer, target : Pointer,
                 seen : Seq(0 .. Width - 1)]]
  /\ mark \in [Threads -> Pointer]
  /\ calls \in [Threads -> Nat] /\ rounds \in Nat
  /\ phase \in {"closed", "open"} /\ crashed \in BOOLEAN

Init ==
  /\ head = NULL
  /\ cells = [c \in Nodes |-> [data |-> 0, next |-> NULL]]
  /\ pool = {} /\ used = {}
  /\ rwlock = "zeroed" /\ writer = NULL /\ readers = {}
  /\ pc = [t \in Threads |-> "idle"]
  /\ job = [t \in Threads |-> NoJob]
  /\ mark = [t \in Threads |-> NULL]
  /\ calls = Budget /\ rounds = Rounds
  /\ phase = "closed" /\ crashed = FALSE
  /\ settled = <<>>
  /\ done = [op |-> "start", node |-> NULL, stop |-> NULL, value |-> 0,
             ret |-> NULL, seen |-> <<>>]

Goto(t, label) == pc' = [pc EXCEPT ![t] = label]

Returned(op, node, stop, value, ret, seen) ==
  done' = [op |-> op, node |-> node, stop |-> stop, value |-> value,
           ret |-> ret, seen |-> seen]

-----------------------------------------------------------------------------
(* The main thread, which has joined all others.  A pool that mem_init did   *)
(* not get holds no node.                                                    *)
Joined == \A t \in Threads : pc[t] = "idle"

(* Mutation of Emptied: the head keeps its node. *)
EmptiedButHead == used' = {} /\ UNCHANGED head

Emptied == used' = {} /\ head' = NULL

(* Mutation of LockMade: only the first list gets a lock. *)
LockMadeOnce == rwlock' = IF rwlock = "zeroed" THEN "initialised" ELSE rwlock

LockMade == rwlock' = "initialised"

list_init ==
  /\ Joined /\ rounds > 0
  /\ rounds' = rounds - 1
  /\ \E n \in Capacities \cup {0} : pool' = 0 .. n - 1
  /\ Emptied
  /\ LockMade
  /\ phase' = "open"
  /\ mark' = [t \in Threads |-> NULL]
  /\ settled' = <<>>
  /\ Returned("list_init", NULL, NULL, 0, NULL, <<>>)
  /\ UNCHANGED <<cells, calls, writer, readers, pc, job, crashed>>

(* The return for an empty list comes before the lock is destroyed. *)
list_cleanup ==
  /\ Joined /\ phase = "open"
  /\ pool' = {} /\ Emptied
  /\ rwlock' = IF head = NULL THEN rwlock ELSE "destroyed"
  /\ phase' = "closed"
  /\ mark' = [t \in Threads |-> NULL]
  /\ settled' = <<>>
  /\ Returned("list_cleanup", NULL, NULL, 0, NULL, <<>>)
  /\ UNCHANGED <<cells, calls, rounds, writer, readers, pc, job, crashed>>

-----------------------------------------------------------------------------
(* The threads call an operation.  A node pointer they pass is NULL or the   *)
(* node they found last, which they forget when they delete its value.       *)
Call(t, op, node, stop, value) ==
  /\ phase = "open" /\ pc[t] = "idle" /\ calls[t] > 0
  /\ calls' = [calls EXCEPT ![t] = @ - 1]
  /\ job' = [job EXCEPT ![t] = Job(op, node, stop, value)]
  /\ Goto(t, "lock")
  /\ UNCHANGED <<head, cells, pool, used, rwlock, writer, readers, rounds, phase,
                 crashed, settled, done>>

CallInsert(t) ==
  /\ \E value \in Mine[t] : Call(t, "list_insert", NULL, NULL, value)
  /\ UNCHANGED mark

CallDelete(t) ==
  \E value \in Mine[t] :
     /\ Call(t, "list_delete", NULL, NULL, value)
     /\ mark' = IF mark[t] # NULL /\ cells[mark[t]].data = value
                THEN [mark EXCEPT ![t] = NULL] ELSE mark

CallInsertAt(t) ==
  /\ mark[t] # NULL
  /\ \E op \in {"list_insert_after", "list_insert_before"}, value \in Mine[t] :
        Call(t, op, mark[t], NULL, value)
  /\ UNCHANGED mark

(* No node, no insertion: these two return before they take the lock. *)
CallInsertAtNull(t) ==
  /\ phase = "open" /\ pc[t] = "idle" /\ calls[t] > 0
  /\ calls' = [calls EXCEPT ![t] = @ - 1]
  /\ \E op \in {"list_insert_after", "list_insert_before"}, value \in Mine[t] :
        Returned(op, NULL, NULL, value, NULL, <<>>)
  /\ UNCHANGED <<head, cells, pool, used, rwlock, writer, readers, pc, job, mark,
                 rounds, phase, crashed, settled>>

(* list_display is list_display_range from NULL to NULL, but for a newline. *)
CallRead(t) ==
  /\ \/ \E value \in Values : Call(t, "list_search", NULL, NULL, value)
     \/ Call(t, "list_count_nodes", NULL, NULL, 0)
     \/ \E start, stop \in {NULL, mark[t]} : Call(t, "list_display_range", start, stop, 0)
  /\ UNCHANGED mark

-----------------------------------------------------------------------------
(* A call that has the lock goes to the pool or to the head of the list. *)
Enter(t) ==
  LET j == job[t]
      first == \/ j.op \in {"list_insert", "list_insert_after"}
               \/ j.op = "list_insert_before" /\ j.node = head
      from == IF j.op = "list_display_range" /\ j.node # NULL THEN j.node ELSE head
  IN  /\ Goto(t, IF first THEN "alloc" ELSE "walk")
      /\ job' = [job EXCEPT ![t] =
                   [j EXCEPT !.at = IF first THEN NULL ELSE from,
                             !.target = IF j.op = "list_insert_before" THEN j.node ELSE NULL]]

(* Mutation of NobodyWrites: readers do not wait for the writer. *)
NobodyMinds == TRUE

NobodyWrites == writer = NULL

rdlock(t) ==
  /\ pc[t] = "lock" /\ job[t].op \in Reading
  /\ NobodyWrites
  /\ readers' = readers \cup {t}
  /\ Enter(t)
  /\ UNCHANGED <<head, cells, pool, used, rwlock, writer, mark, calls, rounds, phase,
                 crashed, settled, done>>

wrlock(t) ==
  /\ pc[t] = "lock" /\ job[t].op \in Writing
  /\ writer = NULL /\ readers = {}
  /\ writer' = t
  /\ Enter(t)
  /\ UNCHANGED <<head, cells, pool, used, rwlock, readers, mark, calls, rounds, phase,
                 crashed, settled, done>>

(* Mutation of Found: the walk to the node before a node ends at that node. *)
FoundItself(j) ==
  \/ j.op = "list_insert" /\ cells[j.at].next = NULL
  \/ j.target # NULL /\ j.at = j.target
  \/ j.op \in {"list_search", "list_delete"} /\ j.target = NULL /\ cells[j.at].data = j.value
  \/ j.op = "list_display_range" /\ j.at = j.stop

(* The condition on which a loop ends at a node. *)
Found(j) ==
  \/ j.op = "list_insert" /\ cells[j.at].next = NULL
  \/ j.target # NULL /\ cells[j.at].next = j.target
  \/ j.op \in {"list_search", "list_delete"} /\ j.target = NULL /\ cells[j.at].data = j.value
  \/ j.op = "list_display_range" /\ j.at = j.stop

Seen(j) == IF j.op \in {"list_count_nodes", "list_display_range"}
           THEN Append(j.seen, cells[j.at].data) ELSE j.seen

(* list_delete walks twice: to the node with the value, and, unless that is  *)
(* the head, to the node before it, which it takes for granted.              *)
walk(t) ==
  LET j == job[t]
      twice == j.op = "list_delete" /\ j.target = NULL
  IN  /\ pc[t] = "walk"
      /\ \/ /\ j.at = NULL
            /\ Goto(t, "unlock")
            /\ crashed' = (j.op = "list_delete" /\ j.target # NULL)
            /\ UNCHANGED job
         \/ /\ j.at # NULL /\ ~Found(j)
            /\ job' = [job EXCEPT ![t] = [j EXCEPT !.at = cells[j.at].next, !.seen = Seen(j)]]
            /\ UNCHANGED <<pc, crashed>>
         \/ /\ j.at # NULL /\ Found(j) /\ twice
            /\ job' = [job EXCEPT ![t] =
                         [j EXCEPT !.target = j.at, !.at = IF j.at = head THEN NULL ELSE head]]
            /\ Goto(t, IF j.at = head THEN "unlink" ELSE "walk")
            /\ UNCHANGED crashed
         \/ /\ j.at # NULL /\ Found(j) /\ ~twice
            /\ job' = [job EXCEPT ![t] = [j EXCEPT !.seen = Seen(j)]]
            /\ Goto(t, CASE j.op = "list_insert"        -> "link"
                         [] j.op = "list_insert_before" -> "alloc"
                         [] j.op = "list_delete"        -> "unlink"
                         [] j.op \in Reading            -> "unlock")
            /\ UNCHANGED crashed
      /\ UNCHANGED <<head, cells, pool, used, rwlock, writer, readers, mark, calls,
                     rounds, phase, settled, done>>

(* Mutation of Stored: the value is kept whole. *)
StoredWhole(value) == value

(* An int goes into 16 bits. *)
Stored(value) == value % Width

(* mem_alloc and what is written into the new node.  list_insert_before does *)
(* not ask whether it got one when it inserts before the head.               *)
alloc(t) ==
  LET j == job[t]
      spare == pool \ used
      next == CASE j.op = "list_insert"        -> NULL
                [] j.op = "list_insert_after"  -> cells[j.node].next
                [] j.op = "list_insert_before" -> j.node
      from == CASE j.op = "list_insert"        -> head
                [] j.op = "list_insert_after"  -> j.node
                [] j.op = "list_insert_before" -> j.at
  IN  /\ pc[t] = "alloc"
      /\ \/ /\ spare = {} /\ j.op = "list_insert_before" /\ head = j.node
            /\ crashed' = TRUE
            /\ UNCHANGED <<cells, used, pc, job>>
         \/ /\ spare = {} /\ ~(j.op = "list_insert_before" /\ head = j.node)
            /\ Goto(t, "unlock")
            /\ UNCHANGED <<cells, used, job, crashed>>
         \/ /\ \E c \in spare :
                  /\ \A d \in spare : c <= d
                  /\ used' = used \cup {c}
                  /\ cells' = [cells EXCEPT ![c] = [data |-> Stored(j.value), next |-> next]]
                  /\ job' = [job EXCEPT ![t] = [j EXCEPT !.new = c, !.at = from]]
            /\ Goto(t, IF j.op = "list_insert" /\ head # NULL THEN "walk" ELSE "link")
            /\ UNCHANGED crashed
      /\ UNCHANGED <<head, pool, rwlock, writer, readers, mark, calls, rounds, phase,
                     settled, done>>

(* Mutation of SetNext: the head is not moved on. *)
SetNextNotHead(at, c) ==
  /\ cells' = IF at = NULL THEN cells ELSE [cells EXCEPT ![at].next = c]
  /\ head' = IF at = NULL /\ head = NULL THEN c ELSE head

(* The head, or the next pointer of a node, is set. *)
SetNext(at, c) ==
  IF at = NULL THEN head' = c /\ UNCHANGED cells
  ELSE cells' = [cells EXCEPT ![at].next = c] /\ UNCHANGED head

link(t) ==
  /\ pc[t] = "link"
  /\ SetNext(job[t].at, job[t].new)
  /\ Goto(t, "unlock")
  /\ UNCHANGED <<pool, used, rwlock, writer, readers, job, mark, calls, rounds, phase,
                 crashed, settled, done>>

unlink(t) ==
  /\ pc[t] = "unlink"
  /\ SetNext(job[t].at, cells[job[t].target].next)
  /\ Goto(t, "free")
  /\ UNCHANGED <<pool, used, rwlock, writer, readers, job, mark, calls, rounds, phase,
                 crashed, settled, done>>

free(t) ==
  /\ pc[t] = "free"
  /\ used' = used \ {job[t].target}
  /\ Goto(t, "unlock")
  /\ UNCHANGED <<head, cells, pool, rwlock, writer, readers, job, mark, calls, rounds,
                 phase, crashed, settled, done>>

(* Mutation of Release: one return of a writing call forgets the lock. *)
ReleaseUnlessFull(t) ==
  /\ writer' = IF writer = t /\ (pool # used \/ job[t].new # NULL) THEN NULL ELSE writer
  /\ readers' = readers \ {t}

Release(t) ==
  /\ writer' = IF writer = t THEN NULL ELSE writer
  /\ readers' = readers \ {t}

unlock(t) ==
  LET j == job[t]
      ret == IF j.op = "list_search" THEN j.at ELSE NULL
  IN  /\ pc[t] = "unlock"
      /\ Release(t)
      /\ settled' = IF writer = t THEN Contents ELSE settled
      /\ Returned(j.op, j.node, j.stop, j.value, ret, j.seen)
      /\ mark' = IF j.op = "list_search" /\ j.value \in Mine[t]
                 THEN [mark EXCEPT ![t] = ret] ELSE mark
      /\ job' = [job EXCEPT ![t] = NoJob]
      /\ Goto(t, "idle")
      /\ UNCHANGED <<head, cells, pool, used, rwlock, calls, rounds, phase, crashed>>

-----------------------------------------------------------------------------
(* What a thread does inside a call. *)
Inside(t) ==
  \/ rdlock(t) \/ wrlock(t) \/ walk(t) \/ alloc(t) \/ link(t) \/ unlink(t)
  \/ free(t) \/ unlock(t)

Next ==
  /\ ~crashed
  /\ \/ list_init \/ list_cleanup
     \/ \E t \in Threads :
           \/ CallInsert(t) \/ CallDelete(t) \/ CallInsertAt(t) \/ CallInsertAtNull(t)
           \/ CallRead(t) \/ Inside(t)

Spec == Init /\ [][Next]_vars

(* A thread that can go on inside a call does.  Nobody has to call.  The     *)
(* lock need not be fair: a writer may be passed by readers, but only as     *)
(* often as they have calls left.                                            *)
FairSpec == Spec /\ \A t \in Threads : WF_vars(~crashed /\ Inside(t))

-----------------------------------------------------------------------------
OnList == {Chain[i] : i \in DOMAIN Chain}

(* Many may read or one may write, and each call that is past its lock and  *)
(* not yet past its unlock has it, whichever of its returns it takes.        *)
LockMatchesCalls ==
  /\ writer # NULL => readers = {}
  /\ \A t \in Threads :
        LET inside == pc[t] \notin {"idle", "lock"}
        IN  /\ writer = t <=> inside /\ job[t].op \in Writing
            /\ t \in readers <=> inside /\ job[t].op \in Reading

(* Every node the pool has handed out is on the list once, or is on its way *)
(* onto it or back to the pool: none is lost and none is freed while it can  *)
(* be reached from the head.                                                 *)
OnTheWay ==
  {job[t].new : t \in {u \in Threads : pc[u] \in {"walk", "link"} /\ job[u].new # NULL}}
  \cup {job[t].target : t \in {u \in Threads : pc[u] = "free"}}

NoNodeLost ==
  /\ IsInjective(Chain)
  /\ used = OnList \cup OnTheWay
  /\ OnList \cap OnTheWay = {}

(* No thread follows a pointer out of the list, nor keeps one from a search *)
(* to a node that has been deleted: what list_insert_after and              *)
(* list_insert_before are given is on the list when they use it, and        *)
(* list_delete finds the node before the one it is about to unlink.         *)
PointersStayOnList ==
  \A t \in Threads :
     LET j == job[t]
     IN  /\ mark[t] \in OnList \cup {NULL}
         /\ pc[t] = "walk" => j.at \in OnList \cup {NULL}
         /\ pc[t] \in {"lock", "walk", "alloc"} => j.node \in OnList \cup {NULL}
         /\ pc[t] = "walk" /\ j.op = "list_delete" /\ j.target # NULL => j.at \in OnList

(* Each call does to the list at once what NodeList says, and answers so:    *)
(* readers never see half of a writer's work.                                *)
Serial == INSTANCE NodeList WITH list <- settled, room <- pool, call <- done

ImplementsNodeList == Serial!Spec

(* No call waits forever for the lock. *)
EveryCallReturns ==
  \A t \in Threads : pc[t] # "idle" ~> (crashed \/ pc[t] = "idle")

(* list_init and list_cleanup initialise and destroy the one lock there is,  *)
(* and list_cleanup not always: whatever lists there were before, a call     *)
(* finds a lock that has been initialised and not been destroyed since.      *)
LockIsReady ==
  (\E t \in Threads : pc[t] # "idle") => phase = "open" /\ rwlock = "initialised"

(* The calls that insert check whether mem_alloc failed ("checks if          *)
(* mem_alloc faild", list_insert_before): a full pool does no harm.          *)
FullPoolIsHandled == ~crashed
=============================================================================

-------------------------- MODULE LinkedListProofs --------------------------
(***************************************************************************)
(* LinkedList, for any number of threads, calls and lists and any sizes of *)
(* pools: its types, its lock, that no node is ever lost and no thread     *)
(* follows a pointer out of the list, and that each call does what         *)
(* NodeList says.                                                          *)
(***************************************************************************)
EXTENDS LinkedList, SequenceTheorems, FiniteSetTheorems, TLAPS

(* What is proved of sequences there holds here. *)
Arrays == INSTANCE MemoryBlocksProofs

Labels == {"idle", "lock", "walk", "alloc", "link", "unlink", "free", "unlock"}

JobType == [op : Writing \cup Reading \cup {"none"}, node : Pointer, stop : Pointer,
            value : Values \cup {0}, at : Pointer, new : Pointer, target : Pointer,
            seen : Seq(0 .. Width - 1)]

CellsType == [Nodes -> [data : 0 .. Width - 1, next : Pointer]]

AtNode == {"list_insert_after", "list_insert_before"}

(* Which call a thread can be in at each label, and which of its pointers    *)
(* are nodes then.                                                           *)
JobFits(label, j) ==
  /\ label # "idle" => j.op \in Writing \cup Reading
  /\ label = "walk" => j.op # "list_insert_after"
  /\ label \in {"alloc", "link"} => j.op \in {"list_insert"} \cup AtNode
  /\ label \in {"unlink", "free"} => j.op = "list_delete" /\ j.target # NULL
  /\ j.op \in AtNode => j.node # NULL

IInv ==
  /\ TypeOK
  /\ \A t \in Threads : JobFits(pc[t], job[t])
  /\ LockMatchesCalls

-----------------------------------------------------------------------------
LEMMA OpsDiffer ==
  /\ "none" \notin Writing \cup Reading
  /\ Writing \cap Reading = {}
  /\ AtNode \subseteq Writing /\ "list_insert" \in Writing /\ "list_delete" \in Writing
BY DEF Writing, Reading, AtNode

LEMMA InitSound == Init => IInv
<1> SUFFICES ASSUME Init PROVE IInv
  OBVIOUS
<1>1. NoJob \in JobType /\ NoJob.op = "none"
  <2>1. NULL \in Pointer /\ <<>> \in Seq(0 .. Width - 1)
    BY DEF Pointer
  <2> QED  BY <2>1 DEF NoJob, Job, JobType
<1>2. cells \in CellsType
  <2>1. 0 \in 0 .. Width - 1 /\ NULL \in Pointer
    BY ListAssumption DEF Pointer
  <2> QED  BY <2>1 DEF Init, CellsType
<1>3. job \in [Threads -> JobType] /\ pc \in [Threads -> Labels]
  BY <1>1 DEF Init, Labels
<1>4. TypeOK
  BY <1>2, <1>3, ListAssumption DEF Init, TypeOK, CellsType, JobType, Labels, Pointer
<1>5. \A t \in Threads : JobFits(pc[t], job[t])
  BY <1>1, OpsDiffer DEF Init, JobFits
<1>6. LockMatchesCalls
  BY NullAssumption DEF Init, LockMatchesCalls
<1> QED  BY <1>4, <1>5, <1>6 DEF IInv

(* A step of one thread, put together from what it does to each variable.    *)
LEMMA OneThreadMoves ==
  ASSUME IInv, NEW t \in Threads,
         NEW label \in Labels, pc' = [pc EXCEPT ![t] = label],
         NEW j \in JobType, job' = [job EXCEPT ![t] = j],
         JobFits(label, j), LockMatchesCalls',
         writer' \in Threads \cup {NULL}, readers' \subseteq Threads,
         head' \in Pointer, cells' \in CellsType, used' \subseteq pool,
         mark' \in [Threads -> Pointer], calls' \in [Threads -> Nat],
         crashed' \in BOOLEAN,
         UNCHANGED <<pool, rwlock, rounds, phase>>
  PROVE  IInv'
<1>1. pc \in [Threads -> Labels] /\ job \in [Threads -> JobType]
  BY DEF IInv, TypeOK, Labels, JobType
<1>2. pc' \in [Threads -> Labels] /\ job' \in [Threads -> JobType]
  BY <1>1
<1>3. TypeOK'
  BY <1>2 DEF IInv, TypeOK, Labels, JobType, CellsType
<1>4. \A u \in Threads : JobFits(pc[u], job[u])'
  <2> SUFFICES ASSUME NEW u \in Threads PROVE JobFits(pc[u], job[u])'
    OBVIOUS
  <2>1. CASE u = t
    BY <1>1, <2>1 DEF JobFits
  <2>2. CASE u # t
    BY <1>1, <2>2 DEF IInv, JobFits
  <2> QED  BY <2>1, <2>2
<1> QED  BY <1>3, <1>4 DEF IInv


LEMMA LockUntouched ==
  ASSUME IInv, NEW t \in Threads,
         NEW label, pc' = [pc EXCEPT ![t] = label],
         NEW j, job' = [job EXCEPT ![t] = j],
         UNCHANGED <<writer, readers>>,
         label \in {"idle", "lock"} <=> pc[t] \in {"idle", "lock"},
         label \notin {"idle", "lock"} => j.op = job[t].op
  PROVE  LockMatchesCalls'
<1>1. /\ pc'[t] = label /\ job'[t] = j
      /\ \A u \in Threads : u # t => pc'[u] = pc[u] /\ job'[u] = job[u]
  BY DEF IInv, TypeOK
<1>2. LockMatchesCalls
  BY DEF IInv
<1> QED  BY <1>1, <1>2 DEF LockMatchesCalls

(* A step of a thread that has the lock and keeps it. *)
LEMMA StepInside ==
  ASSUME IInv, NEW t \in Threads, pc[t] \notin {"idle", "lock"},
         NEW label \in Labels \ {"idle", "lock"}, pc' = [pc EXCEPT ![t] = label],
         NEW j \in JobType, job' = [job EXCEPT ![t] = j],
         j.op = job[t].op, JobFits(label, j),
         head' \in Pointer, cells' \in CellsType, used' \subseteq pool,
         crashed' \in BOOLEAN,
         UNCHANGED <<pool, rwlock, writer, readers, mark, calls, rounds, phase>>
  PROVE  IInv'
<1>1. LockMatchesCalls'
  BY LockUntouched
<1>2. /\ writer' \in Threads \cup {NULL} /\ readers' \subseteq Threads
      /\ mark' \in [Threads -> Pointer] /\ calls' \in [Threads -> Nat]
  BY DEF IInv, TypeOK
<1> QED  BY <1>1, <1>2, OneThreadMoves

(* What there is in the memory of a node. *)
LEMMA NodeTyped ==
  ASSUME TypeOK, NEW c \in Pointer, c # NULL
  PROVE  c \in Nodes /\ cells[c].data \in 0 .. Width - 1 /\ cells[c].next \in Pointer
<1>1. c \in Nodes
  BY DEF Pointer
<1> QED  BY <1>1 DEF TypeOK

LEMMA StoredFits ==
  ASSUME NEW value \in Values \cup {0}
  PROVE  Stored(value) \in 0 .. Width - 1
<1>1. value \in Nat
  BY ListAssumption
<1> QED  BY <1>1, ListAssumption DEF Stored

(* The record of a call, changed in some fields. *)
LEMMA JobEntered ==
  ASSUME NEW j \in JobType, NEW a \in Pointer, NEW b \in Pointer
  PROVE  /\ [j EXCEPT !.at = a, !.target = b] \in JobType
         /\ [j EXCEPT !.at = a, !.target = b].op = j.op
         /\ [j EXCEPT !.at = a, !.target = b].node = j.node
BY DEF JobType

LEMMA JobTurned ==
  ASSUME NEW j \in JobType, NEW a \in Pointer, NEW b \in Pointer
  PROVE  /\ [j EXCEPT !.target = b, !.at = a] \in JobType
         /\ [j EXCEPT !.target = b, !.at = a].op = j.op
         /\ [j EXCEPT !.target = b, !.at = a].node = j.node
         /\ [j EXCEPT !.target = b, !.at = a].target = b
BY DEF JobType

LEMMA JobGiven ==
  ASSUME NEW j \in JobType, NEW a \in Pointer, NEW b \in Pointer
  PROVE  /\ [j EXCEPT !.new = b, !.at = a] \in JobType
         /\ [j EXCEPT !.new = b, !.at = a].op = j.op
         /\ [j EXCEPT !.new = b, !.at = a].node = j.node
BY DEF JobType

LEMMA JobSeen ==
  ASSUME NEW j \in JobType, NEW a \in Pointer, NEW s \in Seq(0 .. Width - 1)
  PROVE  /\ [j EXCEPT !.at = a, !.seen = s] \in JobType
         /\ [j EXCEPT !.seen = s] \in JobType
         /\ [j EXCEPT !.at = a, !.seen = s].op = j.op
         /\ [j EXCEPT !.at = a, !.seen = s].node = j.node
         /\ [j EXCEPT !.seen = s].op = j.op
         /\ [j EXCEPT !.seen = s].node = j.node
         /\ [j EXCEPT !.seen = s].target = j.target
BY DEF JobType

-----------------------------------------------------------------------------
LEMMA Call_Sound ==
  ASSUME IInv, NEW t \in Threads,
         NEW op \in Writing \cup Reading, NEW node \in Pointer, NEW stop \in Pointer,
         NEW value \in Values \cup {0}, op \in AtNode => node # NULL,
         Call(t, op, node, stop, value), mark' \in [Threads -> Pointer]
  PROVE  IInv'
<1> DEFINE j == Job(op, node, stop, value)
<1>1. /\ pc[t] = "idle" /\ calls[t] > 0
      /\ calls' = [calls EXCEPT ![t] = @ - 1]
      /\ job' = [job EXCEPT ![t] = j]
      /\ pc' = [pc EXCEPT ![t] = "lock"]
      /\ UNCHANGED <<head, cells, pool, used, rwlock, writer, readers, rounds, phase, crashed>>
  BY DEF Call, Goto
<1>2. j \in JobType /\ j.op = op /\ j.node = node
  <2>1. NULL \in Pointer /\ <<>> \in Seq(0 .. Width - 1)
    BY DEF Pointer
  <2> QED  BY <2>1 DEF Job, JobType
<1> HIDE DEF j
<1>3. JobFits("lock", j)
  BY <1>2 DEF JobFits
<1>4. LockMatchesCalls'
  BY <1>1, LockUntouched
<1>5. calls' \in [Threads -> Nat]
  BY <1>1 DEF IInv, TypeOK
<1>6. /\ head' \in Pointer /\ cells' \in CellsType /\ used' \subseteq pool
      /\ writer' \in Threads \cup {NULL} /\ readers' \subseteq Threads /\ crashed' \in BOOLEAN
  BY <1>1 DEF IInv, TypeOK, CellsType
<1>7. "lock" \in Labels
  BY DEF Labels
<1> QED  BY <1>1, <1>2, <1>3, <1>4, <1>5, <1>6, <1>7, OneThreadMoves

(* The calls the threads make. *)
LEMMA Calls_Sound ==
  ASSUME IInv, NEW t \in Threads,
         CallInsert(t) \/ CallDelete(t) \/ CallInsertAt(t) \/ CallRead(t)
  PROVE  IInv'
<1>1. /\ mark \in [Threads -> Pointer] /\ NULL \in Pointer
      /\ Mine[t] \subseteq Values
  BY ListAssumption DEF IInv, TypeOK, Pointer
<1>2. CASE CallInsert(t)
  <2>1. PICK value \in Mine[t] : Call(t, "list_insert", NULL, NULL, value)
    BY <1>2 DEF CallInsert
  <2>2. mark' \in [Threads -> Pointer]
    BY <1>1, <1>2 DEF CallInsert
  <2> QED  BY <1>1, <2>1, <2>2, OpsDiffer, Call_Sound DEF AtNode
<1>3. CASE CallDelete(t)
  <2>1. PICK value \in Mine[t] :
           /\ Call(t, "list_delete", NULL, NULL, value)
           /\ mark' = IF mark[t] # NULL /\ cells[mark[t]].data = value
                      THEN [mark EXCEPT ![t] = NULL] ELSE mark
    BY <1>3 DEF CallDelete
  <2>2. mark' \in [Threads -> Pointer]
    BY <1>1, <2>1
  <2> QED  BY <1>1, <2>1, <2>2, OpsDiffer, Call_Sound DEF AtNode
<1>4. CASE CallInsertAt(t)
  <2>1. PICK op \in AtNode, value \in Mine[t] : Call(t, op, mark[t], NULL, value)
    BY <1>4 DEF CallInsertAt, AtNode
  <2>2. mark' \in [Threads -> Pointer] /\ mark[t] \in Pointer /\ mark[t] # NULL
    BY <1>1, <1>4 DEF CallInsertAt
  <2> QED  BY <1>1, <2>1, <2>2, OpsDiffer, Call_Sound
<1>5. CASE CallRead(t)
  <2>1. mark' \in [Threads -> Pointer] /\ mark[t] \in Pointer
    BY <1>1, <1>5 DEF CallRead
  <2>2. \E op \in Reading, start, stop \in Pointer, value \in Values \cup {0} :
           Call(t, op, start, stop, value)
    BY <1>1, <1>5, <2>1 DEF CallRead, Reading
  <2> QED  BY <2>1, <2>2, OpsDiffer, Call_Sound
<1> QED  BY <1>2, <1>3, <1>4, <1>5

LEMMA CallInsertAtNull_Sound ==
  ASSUME IInv, NEW t \in Threads, CallInsertAtNull(t)
  PROVE  IInv'
<1>1. /\ calls[t] > 0 /\ calls' = [calls EXCEPT ![t] = @ - 1]
      /\ UNCHANGED <<head, cells, pool, used, rwlock, writer, readers, pc, job, mark,
                     rounds, phase, crashed>>
  BY DEF CallInsertAtNull
<1>2. TypeOK'
  BY <1>1 DEF IInv, TypeOK
<1>3. LockMatchesCalls' /\ \A u \in Threads : JobFits(pc[u], job[u])'
  BY <1>1 DEF IInv, LockMatchesCalls, JobFits
<1> QED  BY <1>2, <1>3 DEF IInv

-----------------------------------------------------------------------------
(* A call that has got its lock. *)
LEMMA EnterLeads ==
  ASSUME IInv, NEW t \in Threads, pc[t] = "lock", Enter(t)
  PROVE  \E label \in {"walk", "alloc"}, j \in JobType :
            /\ pc' = [pc EXCEPT ![t] = label]
            /\ job' = [job EXCEPT ![t] = j]
            /\ j.op = job[t].op /\ JobFits(label, j)
<1> DEFINE j == job[t]
           first == \/ j.op \in {"list_insert", "list_insert_after"}
                    \/ j.op = "list_insert_before" /\ j.node = head
           from == IF j.op = "list_display_range" /\ j.node # NULL THEN j.node ELSE head
           a == IF first THEN NULL ELSE from
           b == IF j.op = "list_insert_before" THEN j.node ELSE NULL
           k == [j EXCEPT !.at = a, !.target = b]
           label == IF first THEN "alloc" ELSE "walk"
<1>1. pc' = [pc EXCEPT ![t] = label] /\ job' = [job EXCEPT ![t] = k]
  BY DEF Enter, Goto
<1>2. j \in JobType /\ JobFits("lock", j)
  BY DEF IInv, TypeOK, JobType
<1>3. a \in Pointer /\ b \in Pointer
  BY <1>2 DEF JobType, IInv, TypeOK, Pointer
<1>4. k \in JobType /\ k.op = j.op /\ k.node = j.node
  <2>1. j \in JobType /\ a \in Pointer /\ b \in Pointer
    BY <1>2, <1>3
  <2> HIDE DEF a, b, j
  <2> QED  BY ONLY <2>1, JobEntered
<1>5. label \in {"walk", "alloc"}
  OBVIOUS
<1>6. JobFits(label, k)
  <2> HIDE DEF k
  <2> QED  BY <1>2, <1>4 DEF JobFits, AtNode
<1> HIDE DEF k, label
<1> QED  BY <1>1, <1>4, <1>5, <1>6

LEMMA rdlock_Sound ==
  ASSUME IInv, NEW t \in Threads, rdlock(t)
  PROVE  IInv'
<1>1. /\ pc[t] = "lock" /\ job[t].op \in Reading /\ writer = NULL
      /\ readers' = readers \cup {t} /\ Enter(t)
      /\ UNCHANGED <<head, cells, pool, used, rwlock, writer, mark, calls, rounds, phase,
                     crashed>>
  BY DEF rdlock, NobodyWrites
<1>2. PICK label \in {"walk", "alloc"}, j \in JobType :
         /\ pc' = [pc EXCEPT ![t] = label]
         /\ job' = [job EXCEPT ![t] = j]
         /\ j.op = job[t].op /\ JobFits(label, j)
  BY <1>1, EnterLeads
<1>3. LockMatchesCalls'
  <2>1. /\ pc'[t] = label /\ job'[t] = j
        /\ \A u \in Threads : u # t => pc'[u] = pc[u] /\ job'[u] = job[u]
    BY <1>2 DEF IInv, TypeOK
  <2>2. LockMatchesCalls /\ NULL \notin Threads /\ writer' = NULL
    BY <1>1, NullAssumption DEF IInv
  <2>3. job[t].op \notin Writing
    BY <1>1, OpsDiffer
  <2> QED  BY <1>1, <1>2, <2>1, <2>2, <2>3 DEF LockMatchesCalls
<1>4. /\ head' \in Pointer /\ cells' \in CellsType /\ used' \subseteq pool
      /\ writer' \in Threads \cup {NULL} /\ readers' \subseteq Threads
      /\ crashed' \in BOOLEAN /\ mark' \in [Threads -> Pointer] /\ calls' \in [Threads -> Nat]
  BY <1>1 DEF IInv, TypeOK, CellsType
<1>5. label \in Labels
  BY DEF Labels
<1> QED  BY <1>1, <1>2, <1>3, <1>4, <1>5, OneThreadMoves

LEMMA wrlock_Sound ==
  ASSUME IInv, NEW t \in Threads, wrlock(t)
  PROVE  IInv'
<1>1. /\ pc[t] = "lock" /\ job[t].op \in Writing /\ writer = NULL /\ readers = {}
      /\ writer' = t /\ Enter(t)
      /\ UNCHANGED <<head, cells, pool, used, rwlock, readers, mark, calls, rounds, phase,
                     crashed>>
  BY DEF wrlock
<1>2. PICK label \in {"walk", "alloc"}, j \in JobType :
         /\ pc' = [pc EXCEPT ![t] = label]
         /\ job' = [job EXCEPT ![t] = j]
         /\ j.op = job[t].op /\ JobFits(label, j)
  BY <1>1, EnterLeads
<1>3. LockMatchesCalls'
  <2>1. /\ pc'[t] = label /\ job'[t] = j
        /\ \A u \in Threads : u # t => pc'[u] = pc[u] /\ job'[u] = job[u]
    BY <1>2 DEF IInv, TypeOK
  <2>2. LockMatchesCalls /\ NULL \notin Threads /\ readers' = {}
    BY <1>1, NullAssumption DEF IInv
  <2>3. job[t].op \notin Reading
    BY <1>1, OpsDiffer
  <2> QED  BY <1>1, <1>2, <2>1, <2>2, <2>3 DEF LockMatchesCalls
<1>4. /\ head' \in Pointer /\ cells' \in CellsType /\ used' \subseteq pool
      /\ writer' \in Threads \cup {NULL} /\ readers' \subseteq Threads
      /\ crashed' \in BOOLEAN /\ mark' \in [Threads -> Pointer] /\ calls' \in [Threads -> Nat]
  BY <1>1 DEF IInv, TypeOK, CellsType
<1>5. label \in Labels
  BY DEF Labels
<1> QED  BY <1>1, <1>2, <1>3, <1>4, <1>5, OneThreadMoves

-----------------------------------------------------------------------------
LEMMA walk_Sound ==
  ASSUME IInv, NEW t \in Threads, walk(t)
  PROVE  IInv'
<1> DEFINE j == job[t]
           twice == j.op = "list_delete" /\ j.target = NULL
<1>1. /\ pc[t] = "walk"
      /\ UNCHANGED <<head, cells, pool, used, rwlock, writer, readers, mark, calls,
                     rounds, phase>>
      /\ crashed' \in BOOLEAN
  BY DEF walk, IInv, TypeOK
<1>2. /\ TypeOK /\ j \in JobType /\ JobFits("walk", j)
      /\ head \in Pointer /\ NULL \in Pointer
  BY <1>1 DEF IInv, TypeOK, JobType, Pointer
<1>3. /\ pc[t] \notin {"idle", "lock"}
      /\ head' \in Pointer /\ cells' \in CellsType /\ used' \subseteq pool
      /\ crashed' \in BOOLEAN
      /\ UNCHANGED <<pool, rwlock, writer, readers, mark, calls, rounds, phase>>
  BY <1>1 DEF IInv, TypeOK, CellsType
<1>4. pc \in [Threads -> Labels] /\ job \in [Threads -> JobType]
  BY DEF IInv, TypeOK, Labels, JobType
<1>5. j.at # NULL => Seen(j) \in Seq(0 .. Width - 1)
  <2> HAVE j.at # NULL
  <2>1. j.seen \in Seq(0 .. Width - 1) /\ j.at \in Pointer
    BY <1>2 DEF JobType
  <2>2. cells[j.at].data \in 0 .. Width - 1
    BY <1>2, <2>1, NodeTyped
  <2> HIDE DEF j
  <2> QED  BY <2>1, <2>2, AppendProperties DEF Seen
<1>6. CASE j.at = NULL /\ Goto(t, "unlock") /\ UNCHANGED job
  <2>1. pc' = [pc EXCEPT ![t] = "unlock"] /\ job' = [job EXCEPT ![t] = j]
    BY <1>4, <1>6 DEF Goto
  <2>2. JobFits("unlock", j) /\ "unlock" \in Labels \ {"idle", "lock"}
    BY <1>2 DEF JobFits, Labels
  <2> QED  BY <1>2, <1>3, <2>1, <2>2, StepInside
<1>7. CASE /\ j.at # NULL
           /\ job' = [job EXCEPT ![t] = [j EXCEPT !.at = cells[j.at].next, !.seen = Seen(j)]]
           /\ UNCHANGED pc
  <2> DEFINE k == [j EXCEPT !.at = cells[j.at].next, !.seen = Seen(j)]
  <2>1. pc' = [pc EXCEPT ![t] = "walk"] /\ job' = [job EXCEPT ![t] = k]
    BY <1>1, <1>4, <1>7
  <2>2. /\ j \in JobType /\ cells[j.at].next \in Pointer
        /\ Seen(j) \in Seq(0 .. Width - 1)
    BY <1>2, <1>5, <1>7, NodeTyped DEF JobType
  <2>3. k \in JobType /\ k.op = j.op /\ k.node = j.node
    <3> HIDE DEF j
    <3> QED  BY ONLY <2>2, JobSeen
  <2> HIDE DEF k
  <2>4. JobFits("walk", k) /\ "walk" \in Labels \ {"idle", "lock"}
    BY <1>2, <2>3 DEF JobFits, Labels
  <2> QED  BY <1>3, <2>1, <2>3, <2>4, StepInside
<1>8. CASE /\ j.at # NULL /\ twice
           /\ job' = [job EXCEPT ![t] =
                        [j EXCEPT !.target = j.at, !.at = IF j.at = head THEN NULL ELSE head]]
           /\ Goto(t, IF j.at = head THEN "unlink" ELSE "walk")
  <2> DEFINE a == IF j.at = head THEN NULL ELSE head
             b == j.at
             k == [j EXCEPT !.target = b, !.at = a]
             label == IF j.at = head THEN "unlink" ELSE "walk"
  <2>1. pc' = [pc EXCEPT ![t] = label] /\ job' = [job EXCEPT ![t] = k]
    BY <1>8 DEF Goto
  <2>2. j \in JobType /\ a \in Pointer /\ b \in Pointer
    BY <1>2 DEF JobType
  <2>3. k \in JobType /\ k.op = j.op /\ k.node = j.node /\ k.target = b
    <3> HIDE DEF j, a, b
    <3> QED  BY ONLY <2>2, JobTurned
  <2> HIDE DEF k
  <2>4. JobFits(label, k) /\ label \in Labels \ {"idle", "lock"}
    BY <1>2, <1>8, <2>3 DEF JobFits, Labels
  <2> HIDE DEF label
  <2> QED  BY <1>3, <2>1, <2>3, <2>4, StepInside
<1>9. CASE /\ j.at # NULL /\ ~twice
           /\ job' = [job EXCEPT ![t] = [j EXCEPT !.seen = Seen(j)]]
           /\ Goto(t, CASE j.op = "list_insert"        -> "link"
                        [] j.op = "list_insert_before" -> "alloc"
                        [] j.op = "list_delete"        -> "unlink"
                        [] j.op \in Reading            -> "unlock")
  <2> DEFINE k == [j EXCEPT !.seen = Seen(j)]
             label == CASE j.op = "list_insert"        -> "link"
                        [] j.op = "list_insert_before" -> "alloc"
                        [] j.op = "list_delete"        -> "unlink"
                        [] j.op \in Reading            -> "unlock"
  <2>1. pc' = [pc EXCEPT ![t] = label] /\ job' = [job EXCEPT ![t] = k]
    BY <1>9 DEF Goto
  <2>2. j \in JobType /\ Seen(j) \in Seq(0 .. Width - 1)
    BY <1>2, <1>5, <1>9
  <2>3. k \in JobType /\ k.op = j.op /\ k.node = j.node /\ k.target = j.target
    <3>1. j \in JobType /\ Seen(j) \in Seq(0 .. Width - 1) /\ j.at \in Pointer
      BY <2>2 DEF JobType
    <3> HIDE DEF j
    <3> QED  BY ONLY <3>1, JobSeen
  <2>4. /\ j.op = "list_insert" => label = "link"
        /\ j.op = "list_insert_before" => label = "alloc"
        /\ j.op = "list_delete" => label = "unlink"
        /\ j.op \in Reading => label = "unlock"
    BY DEF Reading
  <2>5. j.op \in {"list_insert", "list_insert_before", "list_delete"} \cup Reading
    BY <1>2 DEF JobFits, Writing
  <2> HIDE DEF k, label
  <2>6. JobFits(label, k) /\ label \in Labels \ {"idle", "lock"}
    BY <1>2, <1>9, <2>3, <2>4, <2>5, OpsDiffer DEF JobFits, Labels, AtNode
  <2> QED  BY <1>3, <2>1, <2>3, <2>6, StepInside
<1> QED  BY <1>6, <1>7, <1>8, <1>9 DEF walk

LEMMA alloc_Sound ==
  ASSUME IInv, NEW t \in Threads, alloc(t)
  PROVE  IInv'
<1> DEFINE j == job[t]
           spare == pool \ used
           next == CASE j.op = "list_insert"        -> NULL
                     [] j.op = "list_insert_after"  -> cells[j.node].next
                     [] j.op = "list_insert_before" -> j.node
           from == CASE j.op = "list_insert"        -> head
                     [] j.op = "list_insert_after"  -> j.node
                     [] j.op = "list_insert_before" -> j.at
<1>1. /\ pc[t] = "alloc"
      /\ UNCHANGED <<head, pool, rwlock, writer, readers, mark, calls, rounds, phase>>
  BY DEF alloc
<1>2. /\ TypeOK /\ j \in JobType /\ JobFits("alloc", j)
      /\ pool \subseteq Nodes /\ used \subseteq pool /\ cells \in CellsType
      /\ head \in Pointer /\ NULL \in Pointer /\ Nodes \subseteq Pointer
  BY <1>1 DEF IInv, TypeOK, JobType, CellsType, Pointer
<1>3. /\ pc[t] \notin {"idle", "lock"}
      /\ head' \in Pointer
      /\ UNCHANGED <<pool, rwlock, writer, readers, mark, calls, rounds, phase>>
  BY <1>1, <1>2
<1>4. pc \in [Threads -> Labels] /\ job \in [Threads -> JobType]
  BY DEF IInv, TypeOK, Labels, JobType
<1>5. j.op \in {"list_insert", "list_insert_after", "list_insert_before"}
  BY <1>2 DEF JobFits, AtNode
<1>6. CASE crashed' = TRUE /\ UNCHANGED <<cells, used, pc, job>>
  <2>1. pc' = [pc EXCEPT ![t] = "alloc"] /\ job' = [job EXCEPT ![t] = j]
    BY <1>1, <1>4, <1>6
  <2>2. cells' \in CellsType /\ used' \subseteq pool /\ crashed' \in BOOLEAN
    BY <1>2, <1>6
  <2>3. "alloc" \in Labels \ {"idle", "lock"}
    BY DEF Labels
  <2> QED  BY <1>2, <1>3, <2>1, <2>2, <2>3, StepInside
<1>7. CASE Goto(t, "unlock") /\ UNCHANGED <<cells, used, job, crashed>>
  <2>1. pc' = [pc EXCEPT ![t] = "unlock"] /\ job' = [job EXCEPT ![t] = j]
    BY <1>4, <1>7 DEF Goto
  <2>2. cells' \in CellsType /\ used' \subseteq pool /\ crashed' \in BOOLEAN
    BY <1>2, <1>7 DEF TypeOK
  <2>3. JobFits("unlock", j) /\ "unlock" \in Labels \ {"idle", "lock"}
    BY <1>2 DEF JobFits, Labels
  <2> QED  BY <1>2, <1>3, <2>1, <2>2, <2>3, StepInside
<1>8. CASE /\ \E c \in spare :
                 /\ \A d \in spare : c <= d
                 /\ used' = used \cup {c}
                 /\ cells' = [cells EXCEPT ![c] = [data |-> Stored(j.value), next |-> next]]
                 /\ job' = [job EXCEPT ![t] = [j EXCEPT !.new = c, !.at = from]]
           /\ Goto(t, IF j.op = "list_insert" /\ head # NULL THEN "walk" ELSE "link")
           /\ UNCHANGED crashed
  <2> DEFINE label == IF j.op = "list_insert" /\ head # NULL THEN "walk" ELSE "link"
  <2>1. PICK c \in spare :
           /\ used' = used \cup {c}
           /\ cells' = [cells EXCEPT ![c] = [data |-> Stored(j.value), next |-> next]]
           /\ job' = [job EXCEPT ![t] = [j EXCEPT !.new = c, !.at = from]]
    BY <1>8
  <2> DEFINE k == [j EXCEPT !.new = c, !.at = from]
  <2>2. c \in Nodes /\ c \in Pointer /\ used' \subseteq pool
    BY <1>2, <2>1
  <2>3. j.node \in Pointer /\ j.at \in Pointer /\ j.value \in Values \cup {0}
    BY <1>2 DEF JobType
  <2>4. next \in Pointer
    <3>1. j.op \in AtNode => cells[j.node].next \in Pointer
      BY <1>2, <2>3, NodeTyped DEF JobFits
    <3> HIDE DEF j
    <3> QED  BY <1>2, <1>5, <2>3, <3>1 DEF AtNode
  <2>5. from \in Pointer
    <3> HIDE DEF j
    <3> QED  BY <1>2, <1>5, <2>3
  <2>6. Stored(j.value) \in 0 .. Width - 1
    <3> HIDE DEF j
    <3> QED  BY ONLY <2>3, StoredFits
  <2>7. cells' \in CellsType
    <3> HIDE DEF j, next
    <3> QED  BY <1>2, <2>1, <2>2, <2>4, <2>6 DEF CellsType
  <2>8. k \in JobType /\ k.op = j.op /\ k.node = j.node
    <3>1. j \in JobType /\ c \in Pointer /\ from \in Pointer
      BY <1>2, <2>2, <2>5
    <3> HIDE DEF j, from
    <3> QED  BY ONLY <3>1, JobGiven
  <2>9. pc' = [pc EXCEPT ![t] = label] /\ job' = [job EXCEPT ![t] = k]
    BY <1>8, <2>1 DEF Goto
  <2> HIDE DEF k
  <2>10. JobFits(label, k) /\ label \in Labels \ {"idle", "lock"}
    BY <1>2, <1>5, <2>8 DEF JobFits, Labels, AtNode
  <2>11. crashed' \in BOOLEAN
    BY <1>2, <1>8 DEF TypeOK
  <2> HIDE DEF label
  <2> QED  BY <1>3, <2>2, <2>7, <2>8, <2>9, <2>10, <2>11, StepInside
<1> QED  BY <1>6, <1>7, <1>8 DEF alloc

(* The head or a next pointer is set. *)
LEMMA PointerSet ==
  ASSUME TypeOK, NEW at \in Pointer, NEW c \in Pointer, SetNext(at, c)
  PROVE  head' \in Pointer /\ cells' \in CellsType
<1>1. head \in Pointer /\ cells \in CellsType
  BY DEF TypeOK, CellsType
<1>2. CASE at = NULL
  BY <1>1, <1>2 DEF SetNext
<1>3. CASE at # NULL
  <2>1. at \in Nodes /\ cells' = [cells EXCEPT ![at].next = c] /\ head' = head
    BY <1>3 DEF SetNext, Pointer
  <2> QED  BY <1>1, <2>1 DEF CellsType
<1> QED  BY <1>2, <1>3

LEMMA link_Sound ==
  ASSUME IInv, NEW t \in Threads, link(t)
  PROVE  IInv'
<1>1. /\ pc[t] = "link" /\ SetNext(job[t].at, job[t].new)
      /\ pc' = [pc EXCEPT ![t] = "unlock"]
      /\ UNCHANGED <<pool, used, rwlock, writer, readers, job, mark, calls, rounds, phase,
                     crashed>>
  BY DEF link, Goto
<1>2. /\ TypeOK /\ job[t] \in JobType /\ job' = [job EXCEPT ![t] = job[t]]
      /\ JobFits("unlock", job[t])
  BY <1>1 DEF IInv, TypeOK, JobType, JobFits
<1>3. job[t].at \in Pointer /\ job[t].new \in Pointer
  BY <1>2 DEF JobType
<1>4. head' \in Pointer /\ cells' \in CellsType
  BY <1>1, <1>2, <1>3, PointerSet
<1>5. used' \subseteq pool /\ crashed' \in BOOLEAN /\ "unlock" \in Labels \ {"idle", "lock"}
  BY <1>1, <1>2 DEF TypeOK, Labels
<1> QED  BY <1>1, <1>2, <1>4, <1>5, StepInside

LEMMA unlink_Sound ==
  ASSUME IInv, NEW t \in Threads, unlink(t)
  PROVE  IInv'
<1>1. /\ pc[t] = "unlink" /\ SetNext(job[t].at, cells[job[t].target].next)
      /\ pc' = [pc EXCEPT ![t] = "free"]
      /\ UNCHANGED <<pool, used, rwlock, writer, readers, job, mark, calls, rounds, phase,
                     crashed>>
  BY DEF unlink, Goto
<1>2. /\ TypeOK /\ job[t] \in JobType /\ job' = [job EXCEPT ![t] = job[t]]
      /\ JobFits("free", job[t]) /\ job[t].target # NULL
  BY <1>1 DEF IInv, TypeOK, JobType, JobFits, AtNode
<1>3. job[t].at \in Pointer /\ cells[job[t].target].next \in Pointer
  BY <1>2, NodeTyped DEF JobType
<1>4. head' \in Pointer /\ cells' \in CellsType
  BY <1>1, <1>2, <1>3, PointerSet
<1>5. used' \subseteq pool /\ crashed' \in BOOLEAN /\ "free" \in Labels \ {"idle", "lock"}
  BY <1>1, <1>2 DEF TypeOK, Labels
<1> QED  BY <1>1, <1>2, <1>4, <1>5, StepInside

LEMMA free_Sound ==
  ASSUME IInv, NEW t \in Threads, free(t)
  PROVE  IInv'
<1>1. /\ pc[t] = "free" /\ used' = used \ {job[t].target}
      /\ pc' = [pc EXCEPT ![t] = "unlock"]
      /\ UNCHANGED <<head, cells, pool, rwlock, writer, readers, job, mark, calls, rounds,
                     phase, crashed>>
  BY DEF free, Goto
<1>2. /\ TypeOK /\ job[t] \in JobType /\ job' = [job EXCEPT ![t] = job[t]]
      /\ JobFits("unlock", job[t])
  BY <1>1 DEF IInv, TypeOK, JobType, JobFits
<1>3. /\ head' \in Pointer /\ cells' \in CellsType /\ used' \subseteq pool
      /\ crashed' \in BOOLEAN /\ "unlock" \in Labels \ {"idle", "lock"}
  BY <1>1, <1>2 DEF TypeOK, Labels, CellsType
<1> QED  BY <1>1, <1>2, <1>3, StepInside

LEMMA unlock_Sound ==
  ASSUME IInv, NEW t \in Threads, unlock(t)
  PROVE  IInv'
<1> DEFINE ret == IF job[t].op = "list_search" THEN job[t].at ELSE NULL
<1>1. /\ pc[t] = "unlock"
      /\ writer' = IF writer = t THEN NULL ELSE writer
      /\ readers' = readers \ {t}
      /\ mark' = IF job[t].op = "list_search" /\ job[t].value \in Mine[t]
                 THEN [mark EXCEPT ![t] = ret] ELSE mark
      /\ job' = [job EXCEPT ![t] = NoJob]
      /\ pc' = [pc EXCEPT ![t] = "idle"]
      /\ UNCHANGED <<head, cells, pool, used, rwlock, calls, rounds, phase, crashed>>
  BY DEF unlock, Release, Goto
<1>2. TypeOK /\ job[t] \in JobType
  BY DEF IInv, TypeOK, JobType
<1>3. NoJob \in JobType /\ JobFits("idle", NoJob)
  <2>1. NULL \in Pointer /\ <<>> \in Seq(0 .. Width - 1)
    BY DEF Pointer
  <2> QED  BY <2>1 DEF NoJob, Job, JobType, JobFits, AtNode
<1>4. LockMatchesCalls'
  <2>1. /\ pc'[t] = "idle"
        /\ \A u \in Threads : u # t => pc'[u] = pc[u] /\ job'[u] = job[u]
    BY <1>1, <1>2 DEF TypeOK
  <2>2. LockMatchesCalls /\ NULL \notin Threads
    BY NullAssumption DEF IInv
  <2> QED  BY <1>1, <2>1, <2>2 DEF LockMatchesCalls
<1>5. ret \in Pointer
  BY <1>2 DEF JobType, Pointer
<1>6. mark' \in [Threads -> Pointer]
  <2> HIDE DEF ret
  <2> QED  BY <1>1, <1>2, <1>5 DEF TypeOK
<1>7. /\ head' \in Pointer /\ cells' \in CellsType /\ used' \subseteq pool
      /\ writer' \in Threads \cup {NULL} /\ readers' \subseteq Threads
      /\ crashed' \in BOOLEAN /\ calls' \in [Threads -> Nat] /\ "idle" \in Labels
  BY <1>1, <1>2 DEF TypeOK, CellsType, Labels
<1> QED  BY <1>1, <1>3, <1>4, <1>6, <1>7, OneThreadMoves

-----------------------------------------------------------------------------
LEMMA PoolOfNodes ==
  ASSUME NEW n \in Capacities \cup {0}
  PROVE  0 .. n - 1 \subseteq Nodes
<1>1. CASE n \in Capacities
  BY <1>1 DEF Nodes
<1>2. CASE n = 0
  BY <1>2
<1> QED  BY <1>1, <1>2

LEMMA list_init_Sound == IInv /\ list_init => IInv'
<1> SUFFICES ASSUME IInv, list_init PROVE IInv'
  OBVIOUS
<1>1. PICK n \in Capacities \cup {0} : pool' = 0 .. n - 1
  BY DEF list_init
<1>2. pool' \subseteq Nodes
  BY <1>1, PoolOfNodes
<1>3. TypeOK'
  BY <1>2, ListAssumption DEF IInv, TypeOK, list_init, Emptied, LockMade, Pointer
<1>4. LockMatchesCalls' /\ \A t \in Threads : JobFits(pc[t], job[t])'
  BY DEF IInv, LockMatchesCalls, JobFits, list_init
<1> QED  BY <1>3, <1>4 DEF IInv

LEMMA list_cleanup_Sound == IInv /\ list_cleanup => IInv'
<1> SUFFICES ASSUME IInv, list_cleanup PROVE IInv'
  OBVIOUS
<1>1. TypeOK'
  BY DEF IInv, TypeOK, list_cleanup, Emptied, Pointer
<1>2. LockMatchesCalls' /\ \A t \in Threads : JobFits(pc[t], job[t])'
  BY DEF IInv, LockMatchesCalls, JobFits, list_cleanup
<1> QED  BY <1>1, <1>2 DEF IInv

LEMMA StepSound == IInv /\ [Next]_vars => IInv'
<1> SUFFICES ASSUME IInv, [Next]_vars PROVE IInv'
  OBVIOUS
<1>1. CASE UNCHANGED vars
  BY <1>1 DEF vars, IInv, TypeOK, LockMatchesCalls, JobFits
<1>2. CASE list_init
  BY <1>2, list_init_Sound
<1>3. CASE list_cleanup
  BY <1>3, list_cleanup_Sound
<1>4. ASSUME NEW t \in Threads,
             CallInsert(t) \/ CallDelete(t) \/ CallInsertAt(t) \/ CallRead(t)
      PROVE  IInv'
  BY <1>4, Calls_Sound
<1>5. ASSUME NEW t \in Threads, CallInsertAtNull(t) PROVE IInv'
  BY <1>5, CallInsertAtNull_Sound
<1>6. ASSUME NEW t \in Threads, Inside(t) PROVE IInv'
  BY <1>6, rdlock_Sound, wrlock_Sound, walk_Sound, alloc_Sound, link_Sound, unlink_Sound,
     free_Sound, unlock_Sound DEF Inside
<1> QED  BY <1>1, <1>2, <1>3, <1>4, <1>5, <1>6 DEF Next

(* The inductive invariant holds in every reachable state: each thread's     *)
(* label fits its call, and list_insert_after, list_insert_before and        *)
(* list_delete have the node they work on when they come to use it.          *)
THEOREM ListSound == Spec => []IInv
BY InitSound, StepSound, PTL DEF Spec

(* Types are kept: a pointer in the list, in a node or in a call is NULL or  *)
(* a node of the pool, and data always fits its width.                       *)
THEOREM ListKeepsTypes == Spec => []TypeOK
<1>1. IInv => TypeOK
  BY DEF IInv
<1> QED  BY <1>1, ListSound, PTL

(* Whatever any number of threads call: many read or one writes, and each    *)
(* call between its lock and its unlock has exactly the lock it took.        *)
THEOREM ReadersAndWritersExclude == Spec => []LockMatchesCalls
<1>1. IInv => LockMatchesCalls
  BY DEF IInv
<1> QED  BY <1>1, ListSound, PTL

-----------------------------------------------------------------------------
(* There are calls only while there is a list, and then there is a lock.     *)
LockInv ==
  /\ phase = "open" => rwlock = "initialised"
  /\ \A t \in Threads : pc[t] # "idle" => phase = "open"

(* Only list_init and list_cleanup change the phase and the lock. *)
LEMMA ThreadsKeepLock ==
  ASSUME NEW t \in Threads,
         \/ CallInsert(t) \/ CallDelete(t) \/ CallInsertAt(t) \/ CallInsertAtNull(t)
         \/ CallRead(t) \/ Inside(t)
  PROVE  UNCHANGED <<rwlock, phase>>
<1>1. CASE CallInsert(t) \/ CallDelete(t) \/ CallInsertAt(t) \/ CallInsertAtNull(t) \/ CallRead(t)
  BY <1>1 DEF CallInsert, CallDelete, CallInsertAt, CallInsertAtNull, CallRead, Call
<1>2. CASE rdlock(t) \/ wrlock(t)
  BY <1>2 DEF rdlock, wrlock
<1>3. CASE walk(t)
  BY <1>3 DEF walk
<1>4. CASE alloc(t)
  BY <1>4 DEF alloc
<1>5. CASE link(t) \/ unlink(t) \/ free(t)
  BY <1>5 DEF link, unlink, free
<1>6. CASE unlock(t)
  BY <1>6 DEF unlock
<1> QED  BY <1>1, <1>2, <1>3, <1>4, <1>5, <1>6 DEF Inside

(* A thread that was idle begins a call only while there is a list, and no   *)
(* thread touches the label of another.                                      *)
LEMMA CallsNeedList ==
  ASSUME IInv, NEW t \in Threads,
         \/ CallInsert(t) \/ CallDelete(t) \/ CallInsertAt(t) \/ CallInsertAtNull(t)
         \/ CallRead(t) \/ Inside(t)
  PROVE  /\ pc[t] # "idle" \/ phase = "open"
         /\ \A u \in Threads \ {t} : pc'[u] = pc[u]
<1>1. pc \in [Threads -> Labels]
  BY DEF IInv, TypeOK, Labels
<1>2. CASE CallInsert(t) \/ CallDelete(t) \/ CallInsertAt(t) \/ CallInsertAtNull(t) \/ CallRead(t)
  BY <1>1, <1>2 DEF CallInsert, CallDelete, CallInsertAt, CallInsertAtNull, CallRead, Call, Goto
<1>3. CASE rdlock(t) \/ wrlock(t)
  BY <1>1, <1>3 DEF rdlock, wrlock, Enter, Goto
<1>4. CASE walk(t)
  BY <1>1, <1>4 DEF walk, Goto
<1>5. CASE alloc(t)
  BY <1>1, <1>5 DEF alloc, Goto
<1>6. CASE link(t) \/ unlink(t) \/ free(t)
  BY <1>1, <1>6 DEF link, unlink, free, Goto
<1>7. CASE unlock(t)
  BY <1>1, <1>7 DEF unlock, Goto
<1> QED  BY <1>2, <1>3, <1>4, <1>5, <1>6, <1>7 DEF Inside

LEMMA LockInvKept == IInv /\ LockInv /\ [Next]_vars => LockInv'
<1> SUFFICES ASSUME IInv, LockInv, [Next]_vars PROVE LockInv'
  OBVIOUS
<1>1. CASE UNCHANGED vars
  BY <1>1 DEF vars, LockInv
<1>2. CASE list_init
  BY <1>2 DEF LockInv, list_init, LockMade
<1>3. CASE list_cleanup
  BY <1>3 DEF LockInv, list_cleanup, Joined
<1>4. ASSUME NEW t \in Threads,
             \/ CallInsert(t) \/ CallDelete(t) \/ CallInsertAt(t) \/ CallInsertAtNull(t)
             \/ CallRead(t) \/ Inside(t)
      PROVE  LockInv'
  <2>1. /\ UNCHANGED <<rwlock, phase>>
        /\ pc[t] # "idle" \/ phase = "open"
        /\ \A u \in Threads \ {t} : pc'[u] = pc[u]
    BY <1>4, ThreadsKeepLock, CallsNeedList
  <2> QED  BY <2>1 DEF LockInv
<1> QED  BY <1>1, <1>2, <1>3, <1>4 DEF Next

(* However often the list is set up and cleaned up, and although list_cleanup *)
(* leaves the lock of an empty list alone: no call ever uses a lock that has  *)
(* not been initialised, or one that has been destroyed.                      *)
THEOREM CallsFindLock == Spec => []LockIsReady
<1>1. Init => LockInv
  BY DEF Init, LockInv
<1>2. Spec => []LockInv
  BY <1>1, LockInvKept, ListSound, PTL DEF Spec
<1>3. LockInv => LockIsReady
  BY DEF LockInv, LockIsReady
<1> QED  BY <1>2, <1>3, PTL

-----------------------------------------------------------------------------
(* The list as a path.  s is the list: the nodes from h on, each once, along *)
(* the pointers in the memory c.                                             *)
IsPath(s, h, c) ==
  /\ s \in Seq(Nodes)
  /\ \A i, k \in DOMAIN s : s[i] = s[k] => i = k
  /\ h = IF Len(s) = 0 THEN NULL ELSE s[1]
  /\ \A i \in DOMAIN s : c[s[i]].next = IF i = Len(s) THEN NULL ELSE s[i+1]

InList(s) == {s[i] : i \in DOMAIN s}

(* Chain, for any head and memory. *)
StepsOf(h, c) ==
  LET step[n \in 0 .. Cardinality(Nodes)] ==
        IF n = 0 THEN h
        ELSE IF step[n-1] = NULL THEN NULL ELSE c[step[n-1]].next
  IN  step

ChainOf(h, c) ==
  [i \in 1 .. Cardinality({n \in DOMAIN StepsOf(h, c) : StepsOf(h, c)[n] # NULL})
     |-> StepsOf(h, c)[i-1]]

LEMMA ChainIsOfHead ==
  /\ Chain = ChainOf(head, cells)
  /\ Chain' = ChainOf(head', cells')
BY DEF Chain, ChainOf, StepsOf

LEMMA NodesAreNumbers == Nodes \subseteq Nat /\ NULL \notin Nodes
<1>1. \A n \in Capacities : 0 .. n - 1 \subseteq Nat
  BY ListAssumption
<1> QED  BY <1>1, NullAssumption DEF Nodes

LEMMA FewNodes == IsFiniteSet(Nodes) /\ Cardinality(Nodes) \in Nat
<1> DEFINE f == [n \in Capacities |-> 0 .. n - 1]
           R == {f[n] : n \in Capacities}
<1>1. IsFiniteSet(R)
  <2>1. f \in Surjection(Capacities, R)
    BY DEF Surjection
  <2>2. IsFiniteSet(Capacities)
    BY ListAssumption
  <2> HIDE DEF f, R
  <2> QED  BY <2>1, <2>2, FS_Surjection
<1>2. \A T \in R : IsFiniteSet(T)
  <2> SUFFICES ASSUME NEW n \in Capacities PROVE IsFiniteSet(0 .. n - 1)
    OBVIOUS
  <2>1. 0 \in Int /\ n - 1 \in Int
    BY ListAssumption
  <2> QED  BY <2>1, FS_Interval
<1>3. Nodes = UNION R
  BY DEF Nodes
<1>4. IsFiniteSet(UNION R)
  <2> HIDE DEF R
  <2> QED  BY <1>1, <1>2, FS_UNION
<1> QED  BY <1>3, <1>4, FS_CardinalityType

(* A path passes each node once at most. *)
LEMMA PathIsShort ==
  ASSUME NEW s, NEW h, NEW c, IsPath(s, h, c)
  PROVE  Len(s) \in Nat /\ DOMAIN s = 1 .. Len(s) /\ Len(s) <= Cardinality(Nodes)
<1>1. /\ s \in Seq(Nodes) /\ Len(s) \in Nat /\ DOMAIN s = 1 .. Len(s)
      /\ \A i, k \in DOMAIN s : s[i] = s[k] => i = k
  BY LenProperties DEF IsPath
<1>2. s \in [1 .. Len(s) -> Nodes]
  BY <1>1, LenProperties
<1>3. s \in Injection(1 .. Len(s), Nodes)
  BY <1>1, <1>2 DEF Injection, IsInjective
<1>4. Cardinality(1 .. Len(s)) <= Cardinality(Nodes)
  BY ONLY <1>3, FewNodes, FS_Injection
<1>5. Cardinality(1 .. Len(s)) = Len(s)
  BY <1>1, FS_Interval
<1> QED  BY <1>1, <1>4, <1>5

(* Following the pointers is following the path, and then NULL. *)
LEMMA StepsFollowPath ==
  ASSUME NEW s, NEW h, NEW c, IsPath(s, h, c)
  PROVE  StepsOf(h, c) =
           [n \in 0 .. Cardinality(Nodes) |-> IF n < Len(s) THEN s[n+1] ELSE NULL]
<1> PICK top : top = Cardinality(Nodes)
  OBVIOUS
<1> PICK len : len = Len(s)
  OBVIOUS
<1>1. top \in Nat /\ len \in Nat /\ DOMAIN s = 1 .. len /\ len <= top
  BY FewNodes, PathIsShort
<1>2. /\ \A i \in 1 .. len : s[i] # NULL
      /\ h = IF len = 0 THEN NULL ELSE s[1]
      /\ \A i \in 1 .. len : c[s[i]].next = IF i = len THEN NULL ELSE s[i+1]
  BY <1>1, NodesAreNumbers, ElementOfSeq DEF IsPath
<1> DEFINE F(f) == [n \in 0 .. top |-> IF n = 0 THEN h
                                       ELSE IF f[n-1] = NULL THEN NULL ELSE c[f[n-1]].next]
           w == [n \in 0 .. top |-> IF n < len THEN s[n+1] ELSE NULL]
<1>3. w = F(w)
  <2> SUFFICES ASSUME NEW n \in 0 .. top PROVE w[n] = F(w)[n]
    OBVIOUS
  <2>1. CASE n = 0
    BY <1>1, <1>2, <2>1
  <2>2. CASE n # 0 /\ n - 1 < len
    <3>1. n - 1 \in 0 .. top /\ w[n-1] = s[n] /\ n \in 1 .. len
      BY <1>1, <2>2
    <3>2. F(w)[n] = c[s[n]].next
      BY <1>2, <2>2, <3>1
    <3> QED  BY <1>1, <1>2, <3>1, <3>2
  <2>3. CASE n # 0 /\ ~(n - 1 < len)
    <3>1. n - 1 \in 0 .. top /\ w[n-1] = NULL /\ ~(n < len)
      BY <1>1, <2>3
    <3> QED  BY <2>3, <3>1
  <2> QED  BY <2>1, <2>2, <2>3
<1>4. ASSUME NEW f, f = F(f) PROVE f = w
  <2>1. DOMAIN f = 0 .. top /\ f = [n \in 0 .. top |-> f[n]]
    BY <1>4
  <2>2. \A n \in 0 .. top : f[n] = w[n]
    <3> SUFFICES ASSUME NEW n \in 0 .. top, f[n] # w[n] PROVE FALSE
      OBVIOUS
    <3> DEFINE odd == {m \in 0 .. top : f[m] # w[m]}
    <3>1. PICK m \in odd : \A k \in odd : m <= k
      <4>1. n \in odd
        OBVIOUS
      <4>2. odd \in SUBSET Nat
        BY <1>1
      <4> HIDE DEF odd
      <4> QED  BY <4>1, <4>2, Arrays!LeastNumber
    <3>2. m \in 0 .. top /\ f[m] # w[m]
      OBVIOUS
    <3>3. m # 0
      <4>1. 0 \in 0 .. top /\ F(f)[0] = h /\ F(w)[0] = h
        BY <1>1
      <4> HIDE DEF F, w
      <4> QED  BY <1>3, <1>4, <3>2, <4>1
    <3>4. m - 1 \in 0 .. top /\ f[m-1] = w[m-1]
      <4>1. m - 1 \in 0 .. top /\ ~(m <= m - 1)
        BY <1>1, <3>2, <3>3
      <4> QED  BY <3>1, <4>1
    <3>5. F(f)[m] = F(w)[m]
      BY <3>2, <3>4
    <3> HIDE DEF F, w
    <3> QED  BY <1>3, <1>4, <3>2, <3>5
  <2>3. w = [n \in 0 .. top |-> w[n]]
    OBVIOUS
  <2> HIDE DEF w
  <2> QED  BY <2>1, <2>2, <2>3
<1>5. StepsOf(h, c) = CHOOSE f : f = F(f)
  BY DEF StepsOf
<1> HIDE DEF F
<1>6. (CHOOSE f : f = F(f)) = w
  <2>1. \E f : f = F(f)
    BY <1>3
  <2> QED  BY <1>4, <2>1
<1> QED  BY <1>5, <1>6

LEMMA PathIsChain ==
  ASSUME NEW s, NEW h, NEW c, IsPath(s, h, c)
  PROVE  ChainOf(h, c) = s
<1> PICK top : top = Cardinality(Nodes)
  OBVIOUS
<1> PICK len : len = Len(s)
  OBVIOUS
<1> PICK step : step = StepsOf(h, c)
  OBVIOUS
<1>1. top \in Nat /\ len \in Nat /\ DOMAIN s = 1 .. len /\ len <= top
  BY FewNodes, PathIsShort
<1>2. step = [n \in 0 .. top |-> IF n < len THEN s[n+1] ELSE NULL]
  BY StepsFollowPath
<1>3. \A i \in 1 .. len : s[i] # NULL
  BY <1>1, NodesAreNumbers, ElementOfSeq DEF IsPath
<1>4. {n \in DOMAIN step : step[n] # NULL} = 0 .. len - 1
  BY <1>1, <1>2, <1>3
<1>5. Cardinality(0 .. len - 1) = len
  <2>1. 0 \in Int /\ len - 1 \in Int
    BY <1>1
  <2>2. Cardinality(0 .. len - 1) = IF 0 > len - 1 THEN 0 ELSE (len - 1) - 0 + 1
    BY ONLY <2>1, FS_Interval
  <2> QED  BY <1>1, <2>2
<1>6. ChainOf(h, c) = [i \in 1 .. len |-> step[i-1]]
  BY <1>4, <1>5 DEF ChainOf
<1>7. \A i \in 1 .. len : step[i-1] = s[i]
  BY <1>1, <1>2
<1>8. s = [i \in 1 .. len |-> s[i]]
  BY <1>1 DEF IsPath
<1> QED  BY <1>6, <1>7, <1>8

-----------------------------------------------------------------------------
(* What setting one pointer does to the path. *)

(* What SetNext does, for any head and memory. *)
PointerIsSet(at, n, h, c, h2, c2) ==
  IF at = NULL THEN h2 = n /\ c2 = c ELSE c2 = [c EXCEPT ![at].next = n] /\ h2 = h

LEMMA LengthenedBy ==
  ASSUME NEW S, NEW s \in Seq(S), NEW i \in 1 .. Len(s) + 1, NEW e \in S
  PROVE  /\ InsertAt(s, i, e) \in Seq(S)
         /\ Len(InsertAt(s, i, e)) = Len(s) + 1
         /\ DOMAIN InsertAt(s, i, e) = 1 .. Len(s) + 1
         /\ \A k \in 1 .. Len(s) + 1 :
               InsertAt(s, i, e)[k] = IF k < i THEN s[k] ELSE IF k = i THEN e ELSE s[k-1]
<1>1. InsertAt(s, i, e) = Arrays!InsertAt(s, i, e)
  BY DEF InsertAt, Arrays!InsertAt
<1> QED  BY <1>1, Arrays!InsertAtProperties, SMTT(30)

LEMMA LengthenedIs ==
  ASSUME NEW S, NEW s \in Seq(S), NEW i \in 1 .. Len(s) + 1, NEW e \in S
  PROVE  InsertAt(s, i, e) =
           [k \in 1 .. Len(s) + 1 |-> IF k < i THEN s[k] ELSE IF k = i THEN e ELSE s[k-1]]
<1>1. InsertAt(s, i, e) = Arrays!InsertAt(s, i, e)
  BY DEF InsertAt, Arrays!InsertAt
<1>2. /\ InsertAt(s, i, e) \in Seq(S)
      /\ Len(InsertAt(s, i, e)) = Len(s) + 1
      /\ DOMAIN InsertAt(s, i, e) = 1 .. Len(s) + 1
      /\ \A k \in 1 .. Len(s) + 1 :
            InsertAt(s, i, e)[k] = IF k < i THEN s[k] ELSE IF k = i THEN e ELSE s[k-1]
  BY <1>1, Arrays!InsertAtProperties, SMTT(30)
<1> PICK r : r = InsertAt(s, i, e)
  OBVIOUS
<1>3. r = [k \in 1 .. Len(s) + 1 |-> r[k]]
  BY ONLY <1>2, r = InsertAt(s, i, e)
<1> QED  BY <1>2, <1>3

LEMMA ShortenedBy ==
  ASSUME NEW S, NEW s \in Seq(S), NEW i \in 1 .. Len(s)
  PROVE  /\ RemoveAt(s, i) \in Seq(S)
         /\ Len(RemoveAt(s, i)) = Len(s) - 1
         /\ DOMAIN RemoveAt(s, i) = 1 .. Len(s) - 1
         /\ \A k \in 1 .. Len(s) - 1 :
               RemoveAt(s, i)[k] = IF k < i THEN s[k] ELSE s[k+1]
<1>1. RemoveAt(s, i) = Arrays!RemoveAt(s, i)
  BY DEF RemoveAt, Arrays!RemoveAt
<1> QED  BY <1>1, Arrays!RemoveAtProperties, SMTT(30)

LEMMA PathPositions ==
  ASSUME NEW s, NEW h, NEW c, IsPath(s, h, c)
  PROVE  /\ s \in Seq(Nodes) /\ Len(s) \in Nat /\ DOMAIN s = 1 .. Len(s)
         /\ \A i \in 1 .. Len(s) : s[i] \in Nodes /\ s[i] # NULL
         /\ \A i, k \in 1 .. Len(s) : s[i] = s[k] => i = k
         /\ h = IF Len(s) = 0 THEN NULL ELSE s[1]
         /\ \A i \in 1 .. Len(s) : c[s[i]].next = IF i = Len(s) THEN NULL ELSE s[i+1]
         /\ InList(s) = {s[i] : i \in 1 .. Len(s)}
<1>1. s \in Seq(Nodes) /\ Len(s) \in Nat /\ DOMAIN s = 1 .. Len(s)
  BY PathIsShort DEF IsPath
<1>2. \A i \in 1 .. Len(s) : s[i] \in Nodes /\ s[i] # NULL
  BY <1>1, ElementOfSeq, NodesAreNumbers
<1> QED  BY <1>1, <1>2 DEF IsPath, InList

(* Nothing on the list is written. *)
LEMMA PathKept ==
  ASSUME NEW s, NEW h, NEW c, IsPath(s, h, c), NEW d,
         \A x \in InList(s) : d[x].next = c[x].next
  PROVE  IsPath(s, h, d)
BY DEF IsPath, InList

(* A node is put in before position i, or at the end. *)
LEMMA PathLengthened ==
  ASSUME NEW s, NEW h, NEW c \in CellsType, IsPath(s, h, c),
         NEW n \in Nodes, n \notin InList(s), NEW i \in 1 .. Len(s) + 1,
         c[n].next = IF i = Len(s) + 1 THEN NULL ELSE s[i],
         NEW h2, NEW c2, PointerIsSet(IF i = 1 THEN NULL ELSE s[i-1], n, h, c, h2, c2)
  PROVE  IsPath(InsertAt(s, i, n), h2, c2) /\ InList(InsertAt(s, i, n)) = InList(s) \cup {n}
<1> PICK len : len = Len(s)
  OBVIOUS
<1> PICK r : r = InsertAt(s, i, n)
  OBVIOUS
<1>1. /\ s \in Seq(Nodes) /\ len \in Nat /\ DOMAIN s = 1 .. len
      /\ \A k \in 1 .. len : s[k] \in Nodes /\ s[k] # NULL
      /\ \A k, m \in 1 .. len : s[k] = s[m] => k = m
      /\ h = IF len = 0 THEN NULL ELSE s[1]
      /\ \A k \in 1 .. len : c[s[k]].next = IF k = len THEN NULL ELSE s[k+1]
      /\ InList(s) = {s[k] : k \in 1 .. len}
  BY ONLY IsPath(s, h, c), len = Len(s), PathPositions, SMTT(30)
<1>2. /\ r \in Seq(Nodes) /\ Len(r) = len + 1 /\ DOMAIN r = 1 .. len + 1
      /\ \A k \in 1 .. len + 1 : r[k] = IF k < i THEN s[k] ELSE IF k = i THEN n ELSE s[k-1]
  <2>2. s \in Seq(Nodes) /\ i \in 1 .. Len(s) + 1 /\ n \in Nodes
    BY <1>1
  <2>3. /\ InsertAt(s, i, n) \in Seq(Nodes)
        /\ Len(InsertAt(s, i, n)) = Len(s) + 1
        /\ DOMAIN InsertAt(s, i, n) = 1 .. Len(s) + 1
    BY ONLY <2>2, LengthenedBy
  <2>4. \A k \in 1 .. Len(s) + 1 :
           InsertAt(s, i, n)[k] = IF k < i THEN s[k] ELSE IF k = i THEN n ELSE s[k-1]
    BY ONLY <2>2, LengthenedBy
  <2> QED  BY <2>3, <2>4
<1>3. i \in 1 .. len + 1 /\ \A k \in 1 .. len : s[k] # n
  BY <1>1
<1>4. \A k, m \in DOMAIN r : r[k] = r[m] => k = m
  <2> SUFFICES ASSUME NEW k \in 1 .. len + 1, NEW m \in 1 .. len + 1, r[k] = r[m] PROVE k = m
    BY <1>2
  <2>1. /\ k < i => r[k] = s[k] /\ k \in 1 .. len
        /\ i < k => r[k] = s[k-1] /\ k - 1 \in 1 .. len
        /\ k = i => r[k] = n
    BY <1>1, <1>2, <1>3
  <2>2. /\ m < i => r[m] = s[m] /\ m \in 1 .. len
        /\ i < m => r[m] = s[m-1] /\ m - 1 \in 1 .. len
        /\ m = i => r[m] = n
    BY <1>1, <1>2, <1>3
  <2>3. CASE k = i \/ m = i
    BY <1>1, <1>3, <2>1, <2>2, <2>3
  <2>4. CASE k < i /\ m < i
    BY <1>1, <2>1, <2>2, <2>4
  <2>5. CASE k < i /\ i < m
    <3>1. k = m - 1
      BY <1>1, <2>1, <2>2, <2>5
    <3> QED  BY <1>3, <2>5, <3>1
  <2>6. CASE i < k /\ m < i
    <3>1. k - 1 = m
      BY <1>1, <2>1, <2>2, <2>6
    <3> QED  BY <1>3, <2>6, <3>1
  <2>7. CASE i < k /\ i < m
    <3>1. k - 1 = m - 1
      BY <1>1, <2>1, <2>2, <2>7
    <3> QED  BY <3>1
  <2> QED  BY <1>1, <1>3, <2>3, <2>4, <2>5, <2>6, <2>7
<1>5. h2 = r[1]
  <2>1. CASE i = 1
    BY <1>1, <1>2, <2>1 DEF PointerIsSet
  <2>2. CASE i # 1
    <3>1. s[i-1] # NULL /\ i - 1 \in 1 .. len
      BY <1>1, <1>3, <2>2
    <3>2. h2 = h /\ h = s[1]
      BY <1>1, <2>2, <3>1 DEF PointerIsSet
    <3>3. 1 < i /\ 1 \in 1 .. len + 1
      BY <1>1, <1>3, <2>2
    <3> QED  BY <1>2, <3>2, <3>3
  <2> QED  BY <2>1, <2>2
<1>6. \A k \in 1 .. len + 1 : c2[r[k]].next = IF k = len + 1 THEN NULL ELSE r[k+1]
  <2> SUFFICES ASSUME NEW k \in 1 .. len + 1
               PROVE  c2[r[k]].next = IF k = len + 1 THEN NULL ELSE r[k+1]
    OBVIOUS
  <2>1. /\ i # 1 => i - 1 \in 1 .. len /\ s[i-1] # NULL /\ c2[s[i-1]].next = n
        /\ \A x \in Nodes : (i # 1 => x # s[i-1]) => c2[x].next = c[x].next
    <3>1. i # 1 => i - 1 \in 1 .. len /\ s[i-1] # NULL /\ s[i-1] \in Nodes
      BY <1>1, <1>3
    <3>2. i # 1 => c2 = [c EXCEPT ![s[i-1]].next = n]
      BY <3>1 DEF PointerIsSet
    <3>3. i = 1 => c2 = c
      BY DEF PointerIsSet
    <3> QED  BY <3>1, <3>2, <3>3 DEF CellsType
  <2>2. CASE i < k
    <3>1. r[k] = s[k-1] /\ k - 1 \in 1 .. len
      BY <1>1, <1>2, <1>3, <2>2
    <3>2. i # 1 => s[k-1] # s[i-1]
      BY <1>1, <1>3, <2>1, <2>2, <3>1
    <3>3. c2[s[k-1]].next = IF k - 1 = len THEN NULL ELSE s[k]
      BY <1>1, <2>1, <3>1, <3>2
    <3>4. k # len + 1 => k + 1 \in 1 .. len + 1 /\ r[k+1] = s[k]
      <4>1. k # len + 1 => k + 1 \in 1 .. len + 1 /\ ~(k + 1 < i) /\ k + 1 # i /\ (k + 1) - 1 = k
        BY <1>1, <1>3, <2>2
      <4> QED  BY ONLY <1>2, <4>1
    <3> QED  BY <1>1, <3>1, <3>3, <3>4
  <2>3. CASE k = i
    <3>1. r[k] = n
      BY <1>2, <2>3
    <3>2. c2[n].next = c[n].next
      BY <1>3, <2>1
    <3>3. k # len + 1 => k + 1 \in 1 .. len + 1 /\ r[k+1] = s[k]
      BY <1>1, <1>2, <1>3, <2>3
    <3> QED  BY <2>3, <3>1, <3>2, <3>3
  <2>4. CASE k < i - 1
    <3>1. r[k] = s[k] /\ r[k+1] = s[k+1] /\ k \in 1 .. len /\ k # len /\ k # len + 1
      BY <1>1, <1>2, <1>3, <2>4
    <3>2. i # 1 => s[k] # s[i-1]
      BY <1>1, <1>3, <2>1, <2>4, <3>1
    <3> QED  BY <1>1, <2>1, <3>1, <3>2
  <2>5. CASE k = i - 1
    <3>1. r[k] = s[i-1] /\ i # 1 /\ k # len + 1 /\ k + 1 = i
      BY <1>1, <1>2, <1>3, <2>5
    <3>2. r[k+1] = n
      BY <1>2, <3>1
    <3> QED  BY <2>1, <3>1, <3>2
  <2> QED  BY <1>3, <2>2, <2>3, <2>4, <2>5
<1>7. InList(r) = InList(s) \cup {n}
  <2>1. \A k \in 1 .. len + 1 : r[k] \in InList(s) \cup {n}
    <3> SUFFICES ASSUME NEW k \in 1 .. len + 1 PROVE r[k] \in InList(s) \cup {n}
      OBVIOUS
    <3>1. k < i \/ k = i \/ i < k
      BY <1>3
    <3>2. k < i => k \in 1 .. len
      BY <1>1, <1>3
    <3>3. i < k => k - 1 \in 1 .. len /\ ~(k < i) /\ k # i
      BY <1>1, <1>3
    <3> QED  BY <1>1, <1>2, <3>1, <3>2, <3>3
  <2>2. \A k \in 1 .. len : \E m \in 1 .. len + 1 : r[m] = s[k]
    <3> SUFFICES ASSUME NEW k \in 1 .. len PROVE \E m \in 1 .. len + 1 : r[m] = s[k]
      OBVIOUS
    <3>1. CASE k < i
      <4>1. k \in 1 .. len + 1
        BY <1>1
      <4> QED  BY <1>2, <3>1, <4>1
    <3>2. CASE ~(k < i)
      <4>1. k + 1 \in 1 .. len + 1 /\ ~(k + 1 < i) /\ k + 1 # i /\ (k + 1) - 1 = k
        BY <1>1, <1>3, <3>2
      <4> QED  BY <1>2, <4>1
    <3> QED  BY <3>1, <3>2
  <2>3. r[i] = n /\ i \in DOMAIN r
    BY <1>2, <1>3
  <2>4. InList(r) = {r[k] : k \in 1 .. len + 1}
    BY <1>2 DEF InList
  <2>5. InList(r) \subseteq InList(s) \cup {n}
    BY <2>1, <2>4
  <2>6. InList(s) \subseteq InList(r)
    <3> SUFFICES ASSUME NEW x \in InList(s) PROVE x \in InList(r)
      OBVIOUS
    <3>1. PICK k \in 1 .. len : x = s[k]
      BY <1>1
    <3>2. PICK m \in 1 .. len + 1 : r[m] = s[k]
      BY <2>2
    <3> QED  BY <2>4, <3>1, <3>2
  <2>7. n \in InList(r)
    BY <2>3 DEF InList
  <2> QED  BY <2>5, <2>6, <2>7
<1>8. IsPath(r, h2, c2)
  <2>1. Len(r) # 0 /\ Len(r) = len + 1
    BY <1>1, <1>2
  <2> QED  BY <1>2, <1>4, <1>5, <1>6, <2>1 DEF IsPath
<1> QED  BY <1>7, <1>8

(* The node at position i is taken out. *)
LEMMA PathShortened ==
  ASSUME NEW s, NEW h, NEW c \in CellsType, IsPath(s, h, c), NEW i \in 1 .. Len(s),
         NEW h2, NEW c2,
         PointerIsSet(IF i = 1 THEN NULL ELSE s[i-1], c[s[i]].next, h, c, h2, c2)
  PROVE  IsPath(RemoveAt(s, i), h2, c2) /\ InList(RemoveAt(s, i)) = InList(s) \ {s[i]}
<1> PICK len : len = Len(s)
  OBVIOUS
<1> PICK r : r = RemoveAt(s, i)
  OBVIOUS
<1>1. /\ s \in Seq(Nodes) /\ len \in Nat /\ DOMAIN s = 1 .. len
      /\ \A k \in 1 .. len : s[k] \in Nodes /\ s[k] # NULL
      /\ \A k, m \in 1 .. len : s[k] = s[m] => k = m
      /\ h = IF len = 0 THEN NULL ELSE s[1]
      /\ \A k \in 1 .. len : c[s[k]].next = IF k = len THEN NULL ELSE s[k+1]
      /\ InList(s) = {s[k] : k \in 1 .. len}
  BY ONLY IsPath(s, h, c), len = Len(s), PathPositions, SMTT(30)
<1>2. i \in 1 .. len
  OBVIOUS
<1>3. /\ r \in Seq(Nodes) /\ Len(r) = len - 1 /\ DOMAIN r = 1 .. len - 1
      /\ \A k \in 1 .. len - 1 : r[k] = IF k < i THEN s[k] ELSE s[k+1]
  BY <1>1, ShortenedBy
<1>4. \A k, m \in DOMAIN r : r[k] = r[m] => k = m
  <2> SUFFICES ASSUME NEW k \in 1 .. len - 1, NEW m \in 1 .. len - 1, r[k] = r[m] PROVE k = m
    BY <1>3
  <2>1. /\ k < i => r[k] = s[k]
        /\ ~(k < i) => r[k] = s[k+1]
        /\ m < i => r[m] = s[m]
        /\ ~(m < i) => r[m] = s[m+1]
    BY <1>3
  <2>2. k \in 1 .. len /\ k + 1 \in 1 .. len /\ m \in 1 .. len /\ m + 1 \in 1 .. len
    BY <1>1
  <2>3. /\ k < i /\ m < i => k = m
        /\ k < i /\ ~(m < i) => k = m + 1
        /\ ~(k < i) /\ m < i => k + 1 = m
        /\ ~(k < i) /\ ~(m < i) => k + 1 = m + 1
    BY <1>1, <2>1, <2>2
  <2> QED  BY ONLY <2>2, <2>3, <1>1, <1>2
<1>5. h2 = IF Len(r) = 0 THEN NULL ELSE r[1]
  <2>1. CASE i = 1
    <3>1. h2 = IF len = 1 THEN NULL ELSE s[2]
      BY <1>1, <1>2, <2>1 DEF PointerIsSet
    <3>2. len - 1 # 0 => 1 \in 1 .. len - 1 /\ r[1] = s[2]
      BY <1>1, <1>3, <2>1
    <3> QED  BY <1>1, <1>3, <3>1, <3>2
  <2>2. CASE i # 1
    <3>1. s[i-1] # NULL
      BY <1>1, <1>2, <2>2
    <3>2. h2 = h /\ h = s[1]
      BY <1>1, <1>2, <2>2, <3>1 DEF PointerIsSet
    <3>3. 1 \in 1 .. len - 1 /\ 1 < i /\ len - 1 # 0
      BY <1>1, <1>2, <2>2
    <3> QED  BY <1>3, <3>2, <3>3
  <2> QED  BY <2>1, <2>2
<1>6. \A k \in 1 .. len - 1 : c2[r[k]].next = IF k = len - 1 THEN NULL ELSE r[k+1]
  <2> SUFFICES ASSUME NEW k \in 1 .. len - 1
               PROVE  c2[r[k]].next = IF k = len - 1 THEN NULL ELSE r[k+1]
    OBVIOUS
  <2>1. /\ i # 1 => c2[s[i-1]].next = c[s[i]].next
        /\ \A x \in Nodes : (i # 1 => x # s[i-1]) => c2[x].next = c[x].next
    <3>1. i # 1 => i - 1 \in 1 .. len /\ s[i-1] # NULL /\ s[i-1] \in Nodes
      BY <1>1, <1>2
    <3>2. i # 1 => c2 = [c EXCEPT ![s[i-1]].next = c[s[i]].next]
      BY <3>1 DEF PointerIsSet
    <3>3. i = 1 => c2 = c
      BY DEF PointerIsSet
    <3> QED  BY <3>1, <3>2, <3>3 DEF CellsType
  <2>2. k \in 1 .. len /\ k + 1 \in 1 .. len /\ (k # len - 1 => k + 1 \in 1 .. len - 1)
    BY <1>1
  <2>3. CASE i <= k
    <3>1. r[k] = s[k+1] /\ (k # len - 1 => r[k+1] = s[(k+1)+1])
      BY <1>2, <1>3, <2>2, <2>3
    <3>2. i # 1 => i - 1 \in 1 .. len /\ k + 1 # i - 1
      BY <1>1, <1>2, <2>3
    <3>3. i # 1 => s[k+1] # s[i-1]
      BY <1>1, <2>2, <3>2
    <3>4. c2[s[k+1]].next = IF k + 1 = len THEN NULL ELSE s[(k+1)+1]
      BY <1>1, <2>1, <2>2, <3>3
    <3> QED  BY <1>1, <3>1, <3>4
  <2>4. CASE k = i - 1
    <3>1. r[k] = s[i-1] /\ i # 1 /\ k + 1 = i /\ (k # len - 1 => r[k+1] = s[i+1])
      BY <1>2, <1>3, <2>2, <2>4
    <3>2. c2[s[i-1]].next = IF i = len THEN NULL ELSE s[i+1]
      BY <1>1, <1>2, <2>1, <3>1
    <3>3. k = len - 1 <=> i = len
      BY <1>1, <1>2, <2>4
    <3> QED  BY <3>1, <3>2, <3>3
  <2>5. CASE k < i - 1
    <3>0. k # len - 1 /\ k # len /\ k < i /\ k + 1 < i /\ k + 1 \in 1 .. len - 1
      BY <1>1, <1>2, <2>2, <2>5
    <3>1. r[k] = s[k] /\ k # len - 1 /\ r[k+1] = s[k+1] /\ k # len
      BY <1>3, <3>0
    <3>2. i # 1 => i - 1 \in 1 .. len /\ k # i - 1
      BY <1>1, <1>2, <2>5
    <3>3. i # 1 => s[k] # s[i-1]
      BY <1>1, <2>2, <3>2
    <3> QED  BY <1>1, <2>1, <2>2, <3>1, <3>3
  <2> QED  BY <1>2, <2>3, <2>4, <2>5
<1>7. InList(r) = InList(s) \ {s[i]}
  <2>1. \A k \in 1 .. len - 1 : r[k] \in InList(s) /\ r[k] # s[i]
    <3> SUFFICES ASSUME NEW k \in 1 .. len - 1 PROVE r[k] \in InList(s) /\ r[k] # s[i]
      OBVIOUS
    <3>1. k \in 1 .. len /\ k + 1 \in 1 .. len
      BY <1>1
    <3>2. k < i => s[k] # s[i]
      BY <1>1, <1>2, <3>1
    <3>3. ~(k < i) => s[k+1] # s[i]
      <4>1. ~(k < i) => k + 1 # i
        BY <1>2
      <4> QED  BY <1>1, <1>2, <3>1, <4>1
    <3> QED  BY <1>1, <1>3, <3>1, <3>2, <3>3
  <2>2. \A k \in 1 .. len : k # i => \E m \in 1 .. len - 1 : r[m] = s[k]
    <3> SUFFICES ASSUME NEW k \in 1 .. len, k # i PROVE \E m \in 1 .. len - 1 : r[m] = s[k]
      OBVIOUS
    <3>1. CASE k < i
      <4>1. k \in 1 .. len - 1
        BY <1>1, <1>2, <3>1
      <4> QED  BY <1>3, <3>1, <4>1
    <3>2. CASE i < k
      <4>1. k - 1 \in 1 .. len - 1 /\ ~(k - 1 < i) /\ (k - 1) + 1 = k
        BY <1>1, <1>2, <3>2
      <4> QED  BY <1>3, <4>1
    <3> QED  BY <1>2, <3>1, <3>2
  <2>3. InList(r) = {r[k] : k \in 1 .. len - 1}
    BY <1>3 DEF InList
  <2>4. InList(r) \subseteq InList(s) \ {s[i]}
    BY <2>1, <2>3
  <2>5. InList(s) \ {s[i]} \subseteq InList(r)
    <3> SUFFICES ASSUME NEW x \in InList(s), x # s[i] PROVE x \in InList(r)
      OBVIOUS
    <3>1. PICK k \in 1 .. len : x = s[k]
      BY <1>1
    <3>2. k # i
      BY <3>1
    <3>3. PICK m \in 1 .. len - 1 : r[m] = s[k]
      BY <2>2, <3>2
    <3> QED  BY <2>3, <3>1, <3>3
  <2> QED  BY <2>4, <2>5
<1>8. IsPath(r, h2, c2)
  BY <1>3, <1>4, <1>5, <1>6 DEF IsPath
<1> QED  BY <1>7, <1>8

-----------------------------------------------------------------------------
(* What the threads know of the list. *)

(* The node a thread has found is on the list as long as it may use it, for  *)
(* nobody else deletes its value.                                            *)
Marked(label, j, m, s, c, mine) ==
  /\ m # NULL => m \in InList(s) /\ c[m].data \in mine
  /\ label # "idle" /\ j.node # NULL => j.node = m
  /\ label # "idle" /\ j.op = "list_delete" =>
        j.value \in mine /\ (m # NULL => c[m].data # j.value)

(* What a thread is about to change points to "target": the node "at" or,    *)
(* for NULL, the head.                                                       *)
PointsTo(at, target, s, h) ==
  IF at = NULL THEN h = target /\ target # NULL
  ELSE \E i \in DOMAIN s : i < Len(s) /\ s[i] = at /\ s[i+1] = target

Ahead(at, target, s) == \E i, k \in DOMAIN s : i < k /\ s[i] = at /\ s[k] = target

Walking(j, s, c) ==
  /\ j.new # NULL <=> j.op = "list_insert"
  /\ j.at \in InList(s) \cup {NULL}
  /\ j.op = "list_insert" => j.at # NULL /\ c[j.new].next = NULL /\ j.target = NULL
  /\ j.op = "list_insert_before" => j.target = j.node
  /\ j.target # NULL => Ahead(j.at, j.target, s) /\ j.op \in {"list_insert_before", "list_delete"}
  /\ j.op = "list_delete" /\ j.target # NULL => c[j.target].data = j.value

(* Where the pointers of a call are, at each label. *)
Placed(label, j, s, h, c) ==
  /\ label \notin {"walk", "link", "unlock"} => j.new = NULL
  /\ label = "lock" => j.target = NULL
  /\ label = "walk" => Walking(j, s, c)
  /\ label = "alloc" =>
        /\ j.op = "list_insert" => j.target = NULL
        /\ j.op = "list_insert_before" => PointsTo(j.at, j.node, s, h)
  /\ label = "link" =>
        /\ j.new # NULL
        /\ j.at \in InList(s) \cup {NULL}
        /\ c[j.new].next = IF j.at = NULL THEN h ELSE c[j.at].next
  /\ label = "unlink" => PointsTo(j.at, j.target, s, h) /\ c[j.target].data = j.value
  /\ label = "unlock" /\ j.op = "list_search" /\ j.at # NULL =>
        j.at \in InList(s) /\ c[j.at].data = j.value

(* The node a call has that is not on the list yet, or no longer. *)
Away(label, j) ==
  (IF label \in {"walk", "link"} /\ j.new # NULL THEN {j.new} ELSE {})
  \cup (IF label = "free" THEN {j.target} ELSE {})

AllAway == UNION {Away(pc[t], job[t]) : t \in Threads}

ListedAs(s) ==
  /\ IsPath(s, head, cells)
  /\ \A t \in Threads : /\ Marked(pc[t], job[t], mark[t], s, cells, Mine[t])
                        /\ Placed(pc[t], job[t], s, head, cells)
  /\ used = InList(s) \cup AllAway
  /\ InList(s) \cap AllAway = {}

ListInv == IInv /\ ListedAs(Chain)

LEMMA ListedSomehow ==
  ASSUME NEW s, ListedAs(s)'
  PROVE  ListedAs(Chain)'
<1>1. IsPath(s, head', cells')
  BY DEF ListedAs
<1>2. Chain' = s
  BY <1>1, PathIsChain, ChainIsOfHead
<1> QED  BY <1>2 DEF ListedAs, AllAway

(* While a thread writes, no other is past its lock. *)
LEMMA OthersOutside ==
  ASSUME IInv, NEW t \in Threads, pc[t] \notin {"idle", "lock"}, job[t].op \in Writing,
         NEW u \in Threads, u # t
  PROVE  pc[u] \in {"idle", "lock"}
<1>1. LockMatchesCalls /\ JobFits(pc[u], job[u])
  BY DEF IInv
<1>2. writer = t /\ readers = {}
  BY <1>1, NullAssumption DEF LockMatchesCalls
<1> QED  BY <1>1, <1>2 DEF LockMatchesCalls, JobFits

LEMMA NothingAway ==
  ASSUME NEW label, NEW j,
         label \in {"walk", "link", "free"} => label = "walk" /\ j.new = NULL
  PROVE  Away(label, j) = {}
BY DEF Away

(* A step that leaves the list and the pool as they are. *)
LEMMA ListStays ==
  ASSUME IInv, NEW s, ListedAs(s), NEW t \in Threads,
         NEW label, pc' = [pc EXCEPT ![t] = label],
         NEW k, job' = [job EXCEPT ![t] = k],
         NEW m, mark' = [mark EXCEPT ![t] = m],
         UNCHANGED <<head, cells, used>>,
         Away(label, k) = Away(pc[t], job[t]),
         Marked(label, k, m, s, cells, Mine[t]), Placed(label, k, s, head, cells)
  PROVE  ListedAs(s)'
<1>1. /\ pc'[t] = label /\ job'[t] = k /\ mark'[t] = m
      /\ \A u \in Threads : u # t => pc'[u] = pc[u] /\ job'[u] = job[u] /\ mark'[u] = mark[u]
  BY DEF IInv, TypeOK
<1>2. \A u \in Threads : Away(pc'[u], job'[u]) = Away(pc[u], job[u])
  <2> TAKE u \in Threads
  <2>1. CASE u = t
    BY <1>1, <2>1
  <2>2. CASE u # t
    BY <1>1, <2>2
  <2> QED  BY <2>1, <2>2
<1>3. AllAway' = AllAway
  BY <1>2 DEF AllAway
<1>4. ASSUME NEW u \in Threads
      PROVE  /\ Marked(pc'[u], job'[u], mark'[u], s, cells', Mine[u])
             /\ Placed(pc'[u], job'[u], s, head', cells')
  <2>1. CASE u = t
    BY <1>1, <2>1
  <2>2. CASE u # t
    BY <1>1, <2>2 DEF ListedAs
  <2> QED  BY <2>1, <2>2
<1> QED  BY <1>3, <1>4 DEF ListedAs

(* A step of a writing call that changes the list or the pool. *)
LEMMA WriterMoves ==
  ASSUME IInv, NEW s, ListedAs(s), NEW t \in Threads,
         pc[t] \notin {"idle", "lock"}, job[t].op \in Writing,
         NEW label, pc' = [pc EXCEPT ![t] = label], label # "idle",
         NEW k, job' = [job EXCEPT ![t] = k],
         k.op = job[t].op, k.node = job[t].node, k.value = job[t].value,
         UNCHANGED mark,
         NEW r, IsPath(r, head', cells'), Placed(label, k, r, head', cells'),
         \A u \in Threads : mark[u] # NULL =>
            mark[u] \in InList(r) /\ cells'[mark[u]].data = cells[mark[u]].data,
         used' = InList(r) \cup Away(label, k), InList(r) \cap Away(label, k) = {}
  PROVE  ListedAs(r)'
<1>1. /\ pc'[t] = label /\ job'[t] = k
      /\ \A u \in Threads : u # t => pc'[u] = pc[u] /\ job'[u] = job[u]
  BY DEF IInv, TypeOK
<1>2. \A u \in Threads : u # t => pc[u] \in {"idle", "lock"}
  BY OthersOutside
<1>3. \A u \in Threads : u # t => Away(pc'[u], job'[u]) = {}
  BY <1>1, <1>2, NothingAway
<1>4. AllAway' = Away(label, k)
  BY <1>1, <1>3 DEF AllAway
<1>5. ASSUME NEW u \in Threads
      PROVE  /\ Marked(pc'[u], job'[u], mark'[u], r, cells', Mine[u])
             /\ Placed(pc'[u], job'[u], r, head', cells')
  <2>1. Marked(pc[u], job[u], mark[u], s, cells, Mine[u]) /\ Placed(pc[u], job[u], s, head, cells)
    BY DEF ListedAs
  <2>2. mark[u] # NULL => mark[u] \in InList(r) /\ cells'[mark[u]].data = cells[mark[u]].data
    OBVIOUS
  <2>3. CASE u = t
    <3>1. Marked(label, k, mark[u], r, cells', Mine[u])
      BY <2>1, <2>2, <2>3 DEF Marked
    <3> QED  BY <1>1, <2>3, <3>1
  <2>4. CASE u # t
    <3>1. pc'[u] = pc[u] /\ job'[u] = job[u] /\ pc[u] \in {"idle", "lock"}
      BY <1>1, <1>2, <2>4
    <3>2. Marked(pc[u], job[u], mark[u], r, cells', Mine[u])
      BY <2>1, <2>2 DEF Marked
    <3>3. Placed(pc[u], job[u], r, head', cells')
      BY <2>1, <3>1 DEF Placed
    <3> QED  BY <3>1, <3>2, <3>3
  <2> QED  BY <2>3, <2>4
<1> QED  BY <1>4, <1>5 DEF ListedAs

-----------------------------------------------------------------------------
(* Step by step. *)

(* What is known of one thread. *)
LEMMA OneThread ==
  ASSUME IInv, NEW s, ListedAs(s), NEW t \in Threads
  PROVE  /\ job[t] \in JobType /\ JobFits(pc[t], job[t])
         /\ Marked(pc[t], job[t], mark[t], s, cells, Mine[t])
         /\ Placed(pc[t], job[t], s, head, cells)
         /\ job = [job EXCEPT ![t] = job[t]] /\ mark = [mark EXCEPT ![t] = mark[t]]
         /\ pc = [pc EXCEPT ![t] = pc[t]]
         /\ cells \in CellsType /\ IsPath(s, head, cells)
         /\ used \subseteq pool /\ pool \subseteq Nodes
<1>1. /\ job \in [Threads -> JobType] /\ mark \in [Threads -> Pointer] /\ pc \in [Threads -> Labels]
      /\ cells \in CellsType /\ used \subseteq pool /\ pool \subseteq Nodes
  BY DEF IInv, TypeOK, JobType, Labels, CellsType
<1> QED  BY <1>1 DEF IInv, ListedAs

LEMMA Call_Listed ==
  ASSUME IInv, NEW s, ListedAs(s), NEW t \in Threads,
         NEW op, NEW node, NEW stop, NEW value, Call(t, op, node, stop, value),
         mark' = [mark EXCEPT ![t] = mark'[t]], mark'[t] \in {NULL, mark[t]},
         node # NULL => node = mark'[t],
         op = "list_delete" =>
            value \in Mine[t] /\ (mark'[t] # NULL => cells[mark'[t]].data # value)
  PROVE  ListedAs(s)'
<1> PICK m : m = mark'[t]
  OBVIOUS
<1> PICK k : k = Job(op, node, stop, value)
  OBVIOUS
<1>1. /\ k.op = op /\ k.node = node /\ k.value = value
      /\ k.new = NULL /\ k.target = NULL
  BY DEF Job
<1>2. /\ pc[t] = "idle" /\ job' = [job EXCEPT ![t] = k] /\ pc' = [pc EXCEPT ![t] = "lock"]
      /\ UNCHANGED <<head, cells, used>>
  BY DEF Call, Goto
<1>3. Away("lock", k) = {} /\ Away(pc[t], job[t]) = {}
  BY <1>2, NothingAway
<1>4. Marked("lock", k, m, s, cells, Mine[t])
  BY <1>1, OneThread DEF Marked
<1>5. Placed("lock", k, s, head, cells)
  BY <1>1 DEF Placed
<1>6. mark' = [mark EXCEPT ![t] = m]
  OBVIOUS
<1> QED  BY ONLY IInv, ListedAs(s), t \in Threads, <1>2, <1>3, <1>4, <1>5, <1>6, ListStays

LEMMA Calls_Listed ==
  ASSUME IInv, NEW s, ListedAs(s), NEW t \in Threads,
         CallInsert(t) \/ CallDelete(t) \/ CallInsertAt(t) \/ CallRead(t)
  PROVE  ListedAs(s)'
<1>1. mark \in [Threads -> Pointer]
  BY DEF IInv, TypeOK
<1>2. CASE CallInsert(t)
  <2>1. PICK value \in Mine[t] : Call(t, "list_insert", NULL, NULL, value)
    BY <1>2 DEF CallInsert
  <2>2. mark' = [mark EXCEPT ![t] = mark'[t]] /\ mark'[t] = mark[t]
    BY <1>1, <1>2 DEF CallInsert
  <2> QED  BY <2>1, <2>2, Call_Listed
<1>3. CASE CallDelete(t)
  <2>1. PICK value \in Mine[t] :
           /\ Call(t, "list_delete", NULL, NULL, value)
           /\ mark' = IF mark[t] # NULL /\ cells[mark[t]].data = value
                      THEN [mark EXCEPT ![t] = NULL] ELSE mark
    BY <1>3 DEF CallDelete
  <2>2. /\ mark' = [mark EXCEPT ![t] = mark'[t]] /\ mark'[t] \in {NULL, mark[t]}
        /\ mark'[t] # NULL => cells[mark'[t]].data # value
    BY <1>1, <2>1
  <2> QED  BY <2>1, <2>2, Call_Listed
<1>4. CASE CallInsertAt(t)
  <2>1. PICK op \in AtNode, value \in Mine[t] : Call(t, op, mark[t], NULL, value)
    BY <1>4 DEF CallInsertAt, AtNode
  <2>2. mark' = [mark EXCEPT ![t] = mark'[t]] /\ mark'[t] = mark[t]
    BY <1>1, <1>4 DEF CallInsertAt
  <2>3. op # "list_delete"
    BY DEF AtNode
  <2> QED  BY <2>1, <2>2, <2>3, Call_Listed
<1>5. CASE CallRead(t)
  <2>1. mark' = [mark EXCEPT ![t] = mark'[t]] /\ mark'[t] = mark[t]
    BY <1>1, <1>5 DEF CallRead
  <2>2. PICK op \in Reading, start \in {NULL, mark[t]}, stop \in {NULL, mark[t]},
             value \in Values \cup {0} : Call(t, op, start, stop, value)
    BY <1>5 DEF CallRead, Reading
  <2>3. op # "list_delete"
    BY DEF Reading
  <2> QED  BY <2>1, <2>2, <2>3, Call_Listed
<1> QED  BY <1>2, <1>3, <1>4, <1>5

(* A call that has got its lock. *)
LEMMA Enter_Listed ==
  ASSUME IInv, NEW s, ListedAs(s), NEW t \in Threads, pc[t] = "lock", Enter(t),
         UNCHANGED <<head, cells, used, mark>>
  PROVE  ListedAs(s)'
<1> PICK j : j = job[t]
  OBVIOUS
<1> DEFINE first == \/ j.op \in {"list_insert", "list_insert_after"}
                    \/ j.op = "list_insert_before" /\ j.node = head
           from == IF j.op = "list_display_range" /\ j.node # NULL THEN j.node ELSE head
           a == IF first THEN NULL ELSE from
           b == IF j.op = "list_insert_before" THEN j.node ELSE NULL
<1> PICK label : label = IF first THEN "alloc" ELSE "walk"
  OBVIOUS
<1> PICK k : k = [j EXCEPT !.at = a, !.target = b]
  OBVIOUS
<1>1. pc' = [pc EXCEPT ![t] = label] /\ job' = [job EXCEPT ![t] = k]
  BY DEF Enter, Goto
<1>2. /\ j \in JobType /\ JobFits("lock", j)
      /\ Marked("lock", j, mark[t], s, cells, Mine[t]) /\ Placed("lock", j, s, head, cells)
      /\ mark = [mark EXCEPT ![t] = mark[t]] /\ IsPath(s, head, cells)
  BY OneThread
<1>3. /\ k.at = a /\ k.target = b /\ k.op = j.op /\ k.node = j.node
      /\ k.value = j.value /\ k.new = NULL
  <2>1. j.new = NULL
    BY <1>2 DEF Placed
  <2> HIDE DEF a, b
  <2> QED  BY ONLY k = [j EXCEPT !.at = a, !.target = b], <1>2, <2>1 DEF JobType
<1>4. Away(label, k) = {} /\ Away(pc[t], job[t]) = {}
  BY <1>3, NothingAway
<1>5. Marked(label, k, mark[t], s, cells, Mine[t])
  BY <1>2, <1>3 DEF Marked
<1>6. j.node # NULL => j.node \in InList(s)
  BY <1>2 DEF Marked
<1>7. head \in InList(s) \cup {NULL}
  BY <1>2, PathPositions DEF InList
<1>8. Placed(label, k, s, head, cells)
  <2>1. CASE first
    <3>1. label = "alloc" /\ k.at = NULL
      BY <1>3, <2>1
    <3>2. k.op = "list_insert_before" => PointsTo(k.at, k.node, s, head)
      BY <1>2, <1>3, <2>1, <3>1 DEF PointsTo, JobFits, AtNode
    <3>3. k.op = "list_insert" => k.target = NULL
      BY <1>3
    <3> QED  BY <1>3, <3>1, <3>2, <3>3 DEF Placed
  <2>2. CASE ~first
    <3>1. label = "walk" /\ k.at = from /\ k.op \notin {"list_insert", "list_insert_after"}
      BY <1>3, <2>2
    <3>2. from \in InList(s) \cup {NULL}
      BY <1>6, <1>7
    <3>3. k.op = "list_insert_before" => Ahead(k.at, k.target, s)
      <4> SUFFICES ASSUME k.op = "list_insert_before" PROVE Ahead(k.at, k.target, s)
        OBVIOUS
      <4>1. k.at = head /\ k.target = j.node /\ j.node # head /\ j.node \in InList(s)
        BY <1>2, <1>3, <1>6, <2>2, <3>1 DEF JobFits, AtNode
      <4>2. PICK i \in 1 .. Len(s) : s[i] = j.node
        BY <1>2, <4>1, PathPositions
      <4>3. Len(s) \in Nat /\ Len(s) # 0 /\ head = s[1] /\ DOMAIN s = 1 .. Len(s)
        BY <1>2, <4>2, PathPositions
      <4>4. 1 < i /\ 1 \in DOMAIN s
        BY <4>1, <4>2, <4>3
      <4> QED  BY <4>1, <4>2, <4>3, <4>4 DEF Ahead
    <3>4. k.op # "list_insert_before" => k.target = NULL
      BY <1>3
    <3>5. k.op = "list_insert_before" => k.target = k.node
      BY <1>3
    <3>6. Walking(k, s, cells)
      <4> HIDE DEF from, a, b, first
      <4> QED  BY <1>3, <3>1, <3>2, <3>3, <3>4, <3>5 DEF Walking
    <3> QED  BY <3>1, <3>6 DEF Placed
  <2> QED  BY <2>1, <2>2
<1>9. mark' = [mark EXCEPT ![t] = mark[t]]
  BY <1>2
<1> QED  BY ONLY IInv, ListedAs(s), t \in Threads, UNCHANGED <<head, cells, used>>,
             <1>1, <1>4, <1>5, <1>8, <1>9, ListStays

(* A walk: to its end, on to the next node, back for the node before, or done. *)
LEMMA walk_Listed ==
  ASSUME IInv, NEW s, ListedAs(s), NEW t \in Threads, walk(t)
  PROVE  ListedAs(s)'
<1> PICK j : j = job[t]
  OBVIOUS
<1>1. pc[t] = "walk" /\ UNCHANGED <<head, cells, used, mark>>
  BY DEF walk
<1>2. /\ j \in JobType /\ JobFits("walk", j)
      /\ Marked("walk", j, mark[t], s, cells, Mine[t]) /\ Walking(j, s, cells)
      /\ mark' = [mark EXCEPT ![t] = mark[t]] /\ IsPath(s, head, cells)
      /\ job = [job EXCEPT ![t] = j] /\ pc = [pc EXCEPT ![t] = "walk"]
  BY <1>1, OneThread DEF Placed
<1>3. /\ s \in Seq(Nodes) /\ Len(s) \in Nat /\ DOMAIN s = 1 .. Len(s)
      /\ \A i \in 1 .. Len(s) : s[i] \in Nodes /\ s[i] # NULL
      /\ \A i, k \in 1 .. Len(s) : s[i] = s[k] => i = k
      /\ head = IF Len(s) = 0 THEN NULL ELSE s[1]
      /\ \A i \in 1 .. Len(s) : cells[s[i]].next = IF i = Len(s) THEN NULL ELSE s[i+1]
      /\ InList(s) = {s[i] : i \in 1 .. Len(s)}
  BY <1>2, PathPositions
<1>4. ASSUME NEW label, pc' = [pc EXCEPT ![t] = label], label # "idle",
             NEW k, job' = [job EXCEPT ![t] = k],
             k.op = j.op, k.node = j.node, k.value = j.value,
             Away(label, k) = Away("walk", j), Placed(label, k, s, head, cells)
      PROVE  ListedAs(s)'
  <2>1. Marked(label, k, mark[t], s, cells, Mine[t])
    BY <1>2, <1>4 DEF Marked
  <2>2. Away(label, k) = Away(pc[t], job[t])
    BY <1>1, <1>4
  <2> QED  BY ONLY IInv, ListedAs(s), t \in Threads, <1>1, <1>2, <1>4, <2>1, <2>2, ListStays
<1>5. CASE j.at = NULL /\ Goto(t, "unlock") /\ UNCHANGED job
  <2>1. j.new = NULL
    BY <1>2, <1>5 DEF Walking
  <2>2. Away("unlock", j) = Away("walk", j)
    BY <2>1, NothingAway
  <2>3. Placed("unlock", j, s, head, cells)
    BY <1>5 DEF Placed
  <2> QED  BY <1>2, <1>4, <1>5, <2>2, <2>3 DEF Goto
<1>6. CASE /\ j.at # NULL /\ ~Found(j)
           /\ job' = [job EXCEPT ![t] = [j EXCEPT !.at = cells[j.at].next, !.seen = Seen(j)]]
           /\ UNCHANGED pc
  <2> PICK k : k = [j EXCEPT !.at = cells[j.at].next, !.seen = Seen(j)]
    OBVIOUS
  <2>1. /\ k.at = cells[j.at].next /\ k.op = j.op /\ k.node = j.node
        /\ k.value = j.value /\ k.new = j.new /\ k.target = j.target
    BY ONLY k = [j EXCEPT !.at = cells[j.at].next, !.seen = Seen(j)], <1>2 DEF JobType
  <2>2. PICK i \in 1 .. Len(s) : s[i] = j.at
    BY <1>2, <1>3, <1>6 DEF Walking
  <2>3. /\ k.at = IF i = Len(s) THEN NULL ELSE s[i+1]
        /\ i # Len(s) => i + 1 \in 1 .. Len(s)
    BY <1>3, <2>1, <2>2
  <2>4. k.at \in InList(s) \cup {NULL}
    BY <1>3, <2>3
  <2>5. k.op = "list_insert" => k.at # NULL
    BY <1>6, <2>1 DEF Found
  <2>6. k.target # NULL => Ahead(k.at, k.target, s)
    <3> SUFFICES ASSUME k.target # NULL PROVE Ahead(k.at, k.target, s)
      OBVIOUS
    <3>1. PICK p \in 1 .. Len(s), q \in 1 .. Len(s) : p < q /\ s[p] = j.at /\ s[q] = k.target
      BY <1>2, <1>3, <2>1 DEF Walking, Ahead
    <3>2. p = i
      BY <1>3, <2>2, <3>1
    <3>3. i # Len(s) /\ i + 1 \in 1 .. Len(s)
      BY <1>3, <2>3, <3>1, <3>2
    <3>4. k.at # k.target
      BY <1>6, <2>1 DEF Found
    <3>5. i + 1 # q
      BY <2>3, <3>1, <3>3, <3>4
    <3>6. i + 1 < q
      BY <1>3, <3>1, <3>2, <3>5
    <3> QED  BY <1>3, <2>3, <3>1, <3>3, <3>6 DEF Ahead
  <2>7. Walking(k, s, cells)
    BY <1>2, <2>1, <2>4, <2>5, <2>6 DEF Walking
  <2>8. Placed("walk", k, s, head, cells)
    BY <2>7 DEF Placed
  <2>9. Away("walk", k) = Away("walk", j)
    BY <2>1 DEF Away
  <2> QED  BY <1>2, <1>4, <1>6, <2>1, <2>8, <2>9
<1>7. CASE /\ j.at # NULL /\ Found(j) /\ j.op = "list_delete" /\ j.target = NULL
           /\ job' = [job EXCEPT ![t] =
                        [j EXCEPT !.target = j.at, !.at = IF j.at = head THEN NULL ELSE head]]
           /\ Goto(t, IF j.at = head THEN "unlink" ELSE "walk")
  <2> PICK a : a = IF j.at = head THEN NULL ELSE head
    OBVIOUS
  <2> PICK label : label = IF j.at = head THEN "unlink" ELSE "walk"
    OBVIOUS
  <2> PICK k : k = [j EXCEPT !.target = j.at, !.at = a]
    OBVIOUS
  <2>1. /\ k.at = a /\ k.target = j.at /\ k.op = j.op /\ k.node = j.node
        /\ k.value = j.value /\ k.new = j.new
    BY ONLY k = [j EXCEPT !.target = j.at, !.at = a], <1>2 DEF JobType
  <2>2. PICK i \in 1 .. Len(s) : s[i] = j.at
    BY <1>2, <1>3, <1>7 DEF Walking
  <2>3. head = s[1] /\ 1 \in 1 .. Len(s)
    BY <1>3, <2>2
  <2>4. j.new = NULL /\ k.op = "list_delete" /\ k.new = NULL
    BY <1>2, <1>7, <2>1 DEF Walking
  <2>5. cells[k.target].data = k.value
    BY <1>7, <2>1 DEF Found
  <2>6. Placed(label, k, s, head, cells)
    <3>1. CASE j.at = head
      <4>1. PointsTo(k.at, k.target, s, head)
        BY <1>7, <2>1, <3>1 DEF PointsTo
      <4> QED  BY <2>4, <2>5, <3>1, <4>1 DEF Placed
    <3>2. CASE j.at # head
      <4>1. 1 < i
        BY <2>2, <2>3, <3>2
      <4>2. Ahead(k.at, k.target, s)
        BY <1>3, <2>1, <2>2, <2>3, <3>2, <4>1 DEF Ahead
      <4>3. k.at \in InList(s)
        BY <1>3, <2>1, <2>3, <3>2
      <4>4. Walking(k, s, cells)
        BY <2>4, <2>5, <4>2, <4>3 DEF Walking
      <4> QED  BY <3>2, <4>4 DEF Placed
    <3> QED  BY <3>1, <3>2
  <2>7. Away(label, k) = Away("walk", j)
    BY <2>4, NothingAway
  <2>8. pc' = [pc EXCEPT ![t] = label] /\ job' = [job EXCEPT ![t] = k]
    BY <1>7 DEF Goto
  <2> QED  BY <1>4, <2>1, <2>6, <2>7, <2>8
<1>8. CASE /\ j.at # NULL /\ Found(j) /\ ~(j.op = "list_delete" /\ j.target = NULL)
           /\ job' = [job EXCEPT ![t] = [j EXCEPT !.seen = Seen(j)]]
           /\ Goto(t, CASE j.op = "list_insert"        -> "link"
                        [] j.op = "list_insert_before" -> "alloc"
                        [] j.op = "list_delete"        -> "unlink"
                        [] j.op \in Reading            -> "unlock")
  <2> PICK label : label = CASE j.op = "list_insert"        -> "link"
                             [] j.op = "list_insert_before" -> "alloc"
                             [] j.op = "list_delete"        -> "unlink"
                             [] j.op \in Reading            -> "unlock"
    OBVIOUS
  <2> PICK k : k = [j EXCEPT !.seen = Seen(j)]
    OBVIOUS
  <2>1. /\ k.at = j.at /\ k.target = j.target /\ k.op = j.op /\ k.node = j.node
        /\ k.value = j.value /\ k.new = j.new
    BY ONLY k = [j EXCEPT !.seen = Seen(j)], <1>2 DEF JobType
  <2>2. j.op \in {"list_insert", "list_insert_before", "list_delete"} \cup Reading
    BY <1>2 DEF JobFits, Writing
  <2>3. /\ j.op = "list_insert" => label = "link"
        /\ j.op = "list_insert_before" => label = "alloc"
        /\ j.op = "list_delete" => label = "unlink"
        /\ j.op \in Reading => label = "unlock"
    BY DEF Reading
  <2>4. PICK i \in 1 .. Len(s) : s[i] = j.at
    BY <1>2, <1>3, <1>8 DEF Walking
  <2>5. j.target # NULL /\ cells[j.at].next = j.target => PointsTo(j.at, j.target, s, head)
    <3> SUFFICES ASSUME j.target # NULL, cells[j.at].next = j.target
                 PROVE  PointsTo(j.at, j.target, s, head)
      OBVIOUS
    <3>1. i # Len(s) /\ s[i+1] = j.target
      BY <1>3, <2>4
    <3>2. i < Len(s)
      BY <1>3, <3>1
    <3> QED  BY <1>3, <1>8, <2>4, <3>1, <3>2 DEF PointsTo
  <2>6. Placed(label, k, s, head, cells) /\ Away(label, k) = Away("walk", j) /\ label # "idle"
    <3>1. CASE j.op = "list_insert"
      <4>1. label = "link" /\ j.new # NULL /\ cells[j.new].next = NULL /\ j.target = NULL
        BY <1>2, <2>3, <3>1 DEF Walking
      <4>2. cells[j.at].next = NULL
        BY <1>8, <3>1, <4>1 DEF Found
      <4>3. k.at \in InList(s) /\ k.at # NULL
        BY <1>3, <1>8, <2>1, <2>4
      <4>4. Placed(label, k, s, head, cells)
        BY <2>1, <4>1, <4>2, <4>3 DEF Placed
      <4> QED  BY <2>1, <4>1, <4>4 DEF Away
    <3>2. CASE j.op = "list_insert_before"
      <4>1. label = "alloc" /\ j.new = NULL /\ j.target = j.node /\ j.node # NULL
        BY <1>2, <2>3, <3>2 DEF Walking, JobFits, AtNode
      <4>2. PointsTo(k.at, k.node, s, head)
        BY <1>8, <2>1, <2>5, <3>2, <4>1 DEF Found
      <4>3. Placed(label, k, s, head, cells)
        BY <2>1, <3>2, <4>1, <4>2 DEF Placed
      <4> QED  BY <2>1, <4>1, <4>3, NothingAway
    <3>3. CASE j.op = "list_delete"
      <4>1. label = "unlink" /\ j.new = NULL /\ j.target # NULL /\ cells[j.target].data = j.value
        BY <1>2, <1>8, <2>3, <3>3 DEF Walking
      <4>2. PointsTo(k.at, k.target, s, head)
        BY <1>8, <2>1, <2>5, <3>3, <4>1 DEF Found
      <4>3. Placed(label, k, s, head, cells)
        BY <2>1, <4>1, <4>2 DEF Placed
      <4> QED  BY <2>1, <4>1, <4>3, NothingAway
    <3>4. CASE j.op \in Reading
      <4>1. label = "unlock" /\ j.new = NULL /\ j.target = NULL
        BY <1>2, <2>3, <3>4 DEF Walking, Reading
      <4>2. j.op = "list_search" => cells[j.at].data = j.value
        BY <1>8, <4>1 DEF Found
      <4>3. k.at \in InList(s)
        BY <1>3, <2>1, <2>4
      <4>4. Placed(label, k, s, head, cells)
        BY <2>1, <4>1, <4>2, <4>3 DEF Placed
      <4> QED  BY <2>1, <4>1, <4>4, NothingAway
    <3> QED  BY <2>2, <3>1, <3>2, <3>3, <3>4
  <2>7. pc' = [pc EXCEPT ![t] = label] /\ job' = [job EXCEPT ![t] = k]
    BY <1>8 DEF Goto
  <2> QED  BY <1>4, <2>1, <2>6, <2>7
<1> QED  BY <1>5, <1>6, <1>7, <1>8 DEF walk

LEMMA Locks_Listed ==
  ASSUME IInv, NEW s, ListedAs(s), NEW t \in Threads, rdlock(t) \/ wrlock(t)
  PROVE  ListedAs(s)'
<1>1. pc[t] = "lock" /\ Enter(t) /\ UNCHANGED <<head, cells, used, mark>>
  BY DEF rdlock, wrlock
<1> QED  BY ONLY IInv, ListedAs(s), t \in Threads, <1>1, Enter_Listed

(* What is away is what the writing call has. *)
LEMMA WriterHasAll ==
  ASSUME IInv, NEW t \in Threads, pc[t] \notin {"idle", "lock"}, job[t].op \in Writing
  PROVE  AllAway = Away(pc[t], job[t])
<1>1. \A u \in Threads : u # t => Away(pc[u], job[u]) = {}
  BY OthersOutside, NothingAway
<1> QED  BY <1>1 DEF AllAway

(* A node comes from the pool. *)
LEMMA NewNode_Listed ==
  ASSUME IInv, NEW s, ListedAs(s), NEW t \in Threads, pc[t] = "alloc",
         NEW j, j = job[t], NEW c \in pool \ used, NEW data, NEW next, NEW from,
         next = CASE j.op = "list_insert"        -> NULL
                  [] j.op = "list_insert_after"  -> cells[j.node].next
                  [] j.op = "list_insert_before" -> j.node,
         from = CASE j.op = "list_insert"        -> head
                  [] j.op = "list_insert_after"  -> j.node
                  [] j.op = "list_insert_before" -> j.at,
         used' = used \cup {c}, cells' = [cells EXCEPT ![c] = [data |-> data, next |-> next]],
         job' = [job EXCEPT ![t] = [j EXCEPT !.new = c, !.at = from]],
         NEW label, label = IF j.op = "list_insert" /\ head # NULL THEN "walk" ELSE "link",
         pc' = [pc EXCEPT ![t] = label], UNCHANGED <<head, mark>>
  PROVE  ListedAs(s)'
<1> PICK k : k = [j EXCEPT !.new = c, !.at = from]
  OBVIOUS
<1>1. /\ j \in JobType /\ JobFits("alloc", j) /\ cells \in CellsType
      /\ Marked("alloc", j, mark[t], s, cells, Mine[t]) /\ Placed("alloc", j, s, head, cells)
      /\ IsPath(s, head, cells) /\ c \in Nodes /\ c # NULL
  BY OneThread, NodesAreNumbers
<1>2. /\ k.at = from /\ k.new = c /\ k.op = j.op /\ k.node = j.node
      /\ k.value = j.value /\ k.target = j.target
  BY ONLY k = [j EXCEPT !.new = c, !.at = from], <1>1 DEF JobType
<1>3. j.op \in {"list_insert", "list_insert_after", "list_insert_before"} /\ j.op \in Writing
  BY <1>1 DEF JobFits, AtNode, Writing
<1>4. used = InList(s)
  <2>1. AllAway = Away("alloc", j)
    BY <1>3, WriterHasAll
  <2>2. Away("alloc", j) = {}
    BY NothingAway
  <2> QED  BY <2>1, <2>2 DEF ListedAs
<1>5. c \notin InList(s)
  BY <1>4
<1>6. /\ cells'[c].next = next
      /\ \A x \in InList(s) : x # c /\ x \in Nodes /\ cells'[x] = cells[x]
  <2>1. \A x \in InList(s) : x # c /\ x \in Nodes
    BY <1>1, <1>5, PathPositions
  <2> QED  BY <1>1, <2>1 DEF CellsType
<1>7. IsPath(s, head', cells')
  <2>1. IsPath(s, head, cells')
    BY <1>1, <1>6, PathKept
  <2> QED  BY <2>1
<1>8. head \in InList(s) \cup {NULL}
  BY <1>1, PathPositions DEF InList
<1>9. Placed(label, k, s, head', cells')
  <2>1. CASE j.op = "list_insert" /\ head # NULL
    <3>1. /\ k.new # NULL /\ k.op = "list_insert" /\ k.at = head /\ k.target = NULL
          /\ cells'[k.new].next = NULL /\ label = "walk"
      BY <1>1, <1>2, <1>6, <2>1 DEF Placed
    <3>2. Walking(k, s, cells')
      BY <1>8, <2>1, <3>1 DEF Walking
    <3> QED  BY <3>1, <3>2 DEF Placed
  <2>2. CASE ~(j.op = "list_insert" /\ head # NULL)
    <3>1. label = "link" /\ k.new # NULL /\ cells'[k.new].next = next
      BY <1>1, <1>2, <1>6, <2>2
    <3>2. k.at \in InList(s) \cup {NULL} /\ next = IF k.at = NULL THEN head ELSE cells[k.at].next
      <4>1. CASE j.op = "list_insert"
        BY <1>2, <2>2, <4>1
      <4>2. CASE j.op = "list_insert_after"
        <5>1. j.node # NULL /\ j.node \in InList(s)
          BY <1>1, <4>2 DEF JobFits, AtNode, Marked
        <5> QED  BY <1>2, <4>2, <5>1
      <4>3. CASE j.op = "list_insert_before"
        <5>1. PointsTo(j.at, j.node, s, head) /\ k.at = j.at /\ next = j.node
          BY <1>1, <1>2, <4>3 DEF Placed
        <5>2. CASE j.at = NULL
          BY <5>1, <5>2 DEF PointsTo
        <5>3. CASE j.at # NULL
          <6>1. PICK i \in DOMAIN s : i < Len(s) /\ s[i] = j.at /\ s[i+1] = j.node
            BY <5>1, <5>3 DEF PointsTo
          <6>2. i \in 1 .. Len(s) /\ i # Len(s)
            BY <1>1, <6>1, PathPositions
          <6>3. cells[s[i]].next = s[i+1]
            BY <1>1, <6>2, PathPositions
          <6> QED  BY <5>1, <5>3, <6>1, <6>3 DEF InList
        <5> QED  BY <5>2, <5>3
      <4> QED  BY <1>3, <4>1, <4>2, <4>3
    <3>3. cells'[k.new].next = IF k.at = NULL THEN head' ELSE cells'[k.at].next
      BY <1>6, <3>1, <3>2
    <3> QED  BY <3>1, <3>2, <3>3 DEF Placed
  <2> QED  BY <2>1, <2>2
<1>10. \A u \in Threads : mark[u] # NULL =>
          mark[u] \in InList(s) /\ cells'[mark[u]].data = cells[mark[u]].data
  BY <1>6, OneThread DEF Marked
<1>11. Away(label, k) = {c} /\ label # "idle"
  BY <1>1, <1>2 DEF Away
<1>12. used' = InList(s) \cup Away(label, k) /\ InList(s) \cap Away(label, k) = {}
  BY <1>4, <1>5, <1>11
<1>13. job' = [job EXCEPT ![t] = k] /\ pc[t] \notin {"idle", "lock"} /\ job[t].op \in Writing
  BY <1>3
<1>14. k.op = job[t].op /\ k.node = job[t].node /\ k.value = job[t].value /\ UNCHANGED mark
  BY <1>2
<1> QED  BY ONLY IInv, ListedAs(s), t \in Threads, pc' = [pc EXCEPT ![t] = label],
             <1>7, <1>9, <1>10, <1>11, <1>12, <1>13, <1>14, WriterMoves

LEMMA alloc_Listed ==
  ASSUME IInv, NEW s, ListedAs(s), NEW t \in Threads, alloc(t)
  PROVE  ListedAs(s)'
<1> PICK j : j = job[t]
  OBVIOUS
<1> DEFINE next == CASE j.op = "list_insert"        -> NULL
                     [] j.op = "list_insert_after"  -> cells[j.node].next
                     [] j.op = "list_insert_before" -> j.node
           from == CASE j.op = "list_insert"        -> head
                     [] j.op = "list_insert_after"  -> j.node
                     [] j.op = "list_insert_before" -> j.at
<1>1. pc[t] = "alloc" /\ UNCHANGED <<head, mark>>
  BY DEF alloc
<1>2. /\ j \in JobType /\ JobFits("alloc", j)
      /\ Marked("alloc", j, mark[t], s, cells, Mine[t]) /\ Placed("alloc", j, s, head, cells)
      /\ mark' = [mark EXCEPT ![t] = mark[t]]
      /\ job = [job EXCEPT ![t] = j] /\ pc = [pc EXCEPT ![t] = "alloc"]
  BY <1>1, OneThread
<1>3. CASE UNCHANGED <<cells, used, pc, job>>
  <2>1. pc' = [pc EXCEPT ![t] = "alloc"] /\ job' = [job EXCEPT ![t] = j]
    BY <1>2, <1>3
  <2>2. Away("alloc", j) = Away(pc[t], job[t])
    BY <1>1
  <2> QED  BY ONLY IInv, ListedAs(s), t \in Threads, <1>1, <1>2, <1>3, <2>1, <2>2, ListStays
<1>4. CASE Goto(t, "unlock") /\ UNCHANGED <<cells, used, job>>
  <2>1. pc' = [pc EXCEPT ![t] = "unlock"] /\ job' = [job EXCEPT ![t] = j]
    BY <1>2, <1>4 DEF Goto
  <2>2. Away("unlock", j) = Away(pc[t], job[t])
    BY <1>1, NothingAway
  <2>3. Marked("unlock", j, mark[t], s, cells, Mine[t])
    BY <1>2 DEF Marked
  <2>4. Placed("unlock", j, s, head, cells)
    BY <1>2 DEF Placed, JobFits, AtNode
  <2> QED  BY ONLY IInv, ListedAs(s), t \in Threads, <1>1, <1>2, <1>4, <2>1, <2>2, <2>3, <2>4,
               ListStays
<1>5. CASE /\ \E c \in pool \ used :
                 /\ used' = used \cup {c}
                 /\ cells' = [cells EXCEPT ![c] = [data |-> Stored(j.value), next |-> next]]
                 /\ job' = [job EXCEPT ![t] = [j EXCEPT !.new = c, !.at = from]]
           /\ Goto(t, IF j.op = "list_insert" /\ head # NULL THEN "walk" ELSE "link")
  <2>1. PICK label : label = IF j.op = "list_insert" /\ head # NULL THEN "walk" ELSE "link"
    OBVIOUS
  <2>2. PICK c \in pool \ used :
           /\ used' = used \cup {c}
           /\ cells' = [cells EXCEPT ![c] = [data |-> Stored(j.value), next |-> next]]
           /\ job' = [job EXCEPT ![t] = [j EXCEPT !.new = c, !.at = from]]
    BY <1>5
  <2>3. PICK n, f : n = next /\ f = from
    OBVIOUS
  <2>4. pc' = [pc EXCEPT ![t] = label]
    BY <1>5, <2>1 DEF Goto
  <2>5. /\ cells' = [cells EXCEPT ![c] = [data |-> Stored(j.value), next |-> n]]
        /\ job' = [job EXCEPT ![t] = [j EXCEPT !.new = c, !.at = f]]
    BY <2>2, <2>3
  <2>6. n = CASE j.op = "list_insert"        -> NULL
              [] j.op = "list_insert_after"  -> cells[j.node].next
              [] j.op = "list_insert_before" -> j.node
    BY <2>3
  <2>7. f = CASE j.op = "list_insert"        -> head
              [] j.op = "list_insert_after"  -> j.node
              [] j.op = "list_insert_before" -> j.at
    BY <2>3
  <2>8. used' = used \cup {c} /\ j = job[t]
    BY <2>2
  <2> QED  BY ONLY IInv, ListedAs(s), t \in Threads, <1>1, <2>1, <2>4, <2>5, <2>6, <2>7, <2>8,
               NewNode_Listed
<1> QED  BY <1>3, <1>4, <1>5 DEF alloc

(* Setting a pointer leaves the data of every node alone. *)
LEMMA DataStays ==
  ASSUME TypeOK, NEW at \in Pointer, NEW n, SetNext(at, n)
  PROVE  /\ PointerIsSet(at, n, head, cells, head', cells')
         /\ \A x \in Nodes : cells'[x].data = cells[x].data
<1>1. PointerIsSet(at, n, head, cells, head', cells')
  BY DEF SetNext, PointerIsSet
<1>2. cells \in CellsType
  BY DEF TypeOK, CellsType
<1> QED  BY <1>1, <1>2 DEF PointerIsSet, CellsType

LEMMA link_Listed ==
  ASSUME IInv, NEW s, ListedAs(s), NEW t \in Threads, link(t), NEW n, n = job[t].new
  PROVE  \E i \in 1 .. Len(s) + 1 :
            /\ job[t].at = IF i = 1 THEN NULL ELSE s[i-1]
            /\ cells[n].next = IF i = Len(s) + 1 THEN NULL ELSE s[i]
            /\ ListedAs(InsertAt(s, i, n))'
<1> PICK j : j = job[t]
  OBVIOUS
<1>1. /\ pc[t] = "link" /\ pc' = [pc EXCEPT ![t] = "unlock"] /\ SetNext(j.at, j.new)
      /\ UNCHANGED <<used, job, mark>>
  BY DEF link, Goto
<1>2. /\ j \in JobType /\ JobFits("link", j) /\ Placed("link", j, s, head, cells)
      /\ job = [job EXCEPT ![t] = j] /\ cells \in CellsType /\ IsPath(s, head, cells)
      /\ used \subseteq Nodes /\ TypeOK
  BY <1>1, OneThread DEF IInv
<1>3. /\ j.new # NULL /\ j.at \in InList(s) \cup {NULL}
      /\ cells[j.new].next = IF j.at = NULL THEN head ELSE cells[j.at].next
      /\ j.op \in Writing /\ j.op # "list_search" /\ j.at \in Pointer
  BY <1>2 DEF Placed, JobFits, AtNode, Writing, JobType
<1>4. /\ s \in Seq(Nodes) /\ Len(s) \in Nat /\ DOMAIN s = 1 .. Len(s)
      /\ \A i \in 1 .. Len(s) : s[i] \in Nodes /\ s[i] # NULL
      /\ head = IF Len(s) = 0 THEN NULL ELSE s[1]
      /\ \A i \in 1 .. Len(s) : cells[s[i]].next = IF i = Len(s) THEN NULL ELSE s[i+1]
      /\ InList(s) = {s[i] : i \in 1 .. Len(s)}
  BY <1>2, PathPositions
<1>5. used = InList(s) \cup {j.new} /\ j.new \notin InList(s) /\ j.new \in Nodes
  <2>1. AllAway = Away("link", j)
    BY <1>1, <1>3, WriterHasAll
  <2>2. Away("link", j) = {j.new}
    BY <1>3 DEF Away
  <2> QED  BY <1>2, <2>1, <2>2 DEF ListedAs
<1>6. /\ PointerIsSet(j.at, j.new, head, cells, head', cells')
      /\ \A x \in Nodes : cells'[x].data = cells[x].data
  BY <1>1, <1>2, <1>3, DataStays
<1>7. PICK i \in 1 .. Len(s) + 1 :
         /\ j.at = IF i = 1 THEN NULL ELSE s[i-1]
         /\ cells[j.new].next = IF i = Len(s) + 1 THEN NULL ELSE s[i]
  <2>1. CASE j.at = NULL
    <3>1. 1 \in 1 .. Len(s) + 1 /\ (Len(s) = 0 <=> 1 = Len(s) + 1)
      BY ONLY Len(s) \in Nat
    <3> QED  BY <1>3, <1>4, <2>1, <3>1
  <2>2. CASE j.at # NULL
    <3>1. PICK p \in 1 .. Len(s) : s[p] = j.at
      BY <1>3, <1>4, <2>2
    <3>2. cells[j.new].next = IF p = Len(s) THEN NULL ELSE s[p+1]
      BY <1>3, <1>4, <2>2, <3>1
    <3>3. /\ p + 1 \in 1 .. Len(s) + 1 /\ p + 1 # 1 /\ (p + 1) - 1 = p
          /\ p = Len(s) <=> p + 1 = Len(s) + 1
      BY ONLY Len(s) \in Nat, p \in 1 .. Len(s)
    <3> QED  BY <3>1, <3>2, <3>3
  <2> QED  BY <2>1, <2>2
<1> PICK r : r = InsertAt(s, i, j.new)
  OBVIOUS
<1>8. IsPath(r, head', cells') /\ InList(r) = InList(s) \cup {j.new}
  <2>1. n = j.new
    OBVIOUS
  <2>2. PICK h2, c2 : h2 = head' /\ c2 = cells'
    OBVIOUS
  <2>3. /\ n \in Nodes /\ n \notin InList(s) /\ i \in 1 .. Len(s) + 1
        /\ PointerIsSet(IF i = 1 THEN NULL ELSE s[i-1], n, head, cells, h2, c2)
        /\ cells \in CellsType /\ IsPath(s, head, cells)
    BY <1>2, <1>5, <1>6, <1>7, <2>1, <2>2
  <2>4. cells[n].next = IF i = Len(s) + 1 THEN NULL ELSE s[i]
    BY <1>7, <2>1
  <2>5. /\ IsPath(InsertAt(s, i, n), h2, c2)
        /\ InList(InsertAt(s, i, n)) = InList(s) \cup {n}
    BY ONLY <2>3, <2>4, PathLengthened, SMTT(30)
  <2> QED  BY <2>1, <2>2, <2>5
<1>9. \A u \in Threads : mark[u] # NULL =>
         mark[u] \in InList(r) /\ cells'[mark[u]].data = cells[mark[u]].data
  BY <1>4, <1>6, <1>8, OneThread DEF Marked
<1>10. Placed("unlock", j, r, head', cells')
  BY <1>3 DEF Placed
<1>11. Away("unlock", j) = {}
  BY NothingAway
<1>12. used' = InList(r) \cup Away("unlock", j) /\ InList(r) \cap Away("unlock", j) = {}
  BY <1>1, <1>5, <1>8, <1>11
<1>13. /\ job' = [job EXCEPT ![t] = j] /\ pc[t] \notin {"idle", "lock"} /\ job[t].op \in Writing
       /\ j.op = job[t].op /\ j.node = job[t].node /\ j.value = job[t].value /\ UNCHANGED mark
  BY <1>1, <1>2, <1>3
<1>14. ListedAs(r)'
  <2>1. pc' = [pc EXCEPT ![t] = "unlock"] /\ "unlock" # "idle"
    BY <1>1
  <2> QED  BY ONLY IInv, ListedAs(s), t \in Threads, <2>1, <1>8, <1>9, <1>10, <1>12, <1>13,
               WriterMoves
<1> QED  BY <1>7, <1>14

LEMMA unlink_Listed ==
  ASSUME IInv, NEW s, ListedAs(s), NEW t \in Threads, unlink(t)
  PROVE  \E i \in 1 .. Len(s) :
            job[t].target = s[i] /\ ListedAs(RemoveAt(s, i))'
<1> PICK j : j = job[t]
  OBVIOUS
<1>1. /\ pc[t] = "unlink" /\ pc' = [pc EXCEPT ![t] = "free"]
      /\ SetNext(j.at, cells[j.target].next)
      /\ UNCHANGED <<used, job, mark>>
  BY DEF unlink, Goto
<1>2. /\ j \in JobType /\ JobFits("unlink", j) /\ Placed("unlink", j, s, head, cells)
      /\ Marked("unlink", j, mark[t], s, cells, Mine[t])
      /\ job = [job EXCEPT ![t] = j] /\ cells \in CellsType /\ IsPath(s, head, cells)
      /\ TypeOK
  BY <1>1, OneThread DEF IInv
<1>3. /\ j.new = NULL /\ PointsTo(j.at, j.target, s, head) /\ cells[j.target].data = j.value
      /\ j.op = "list_delete" /\ j.op \in Writing /\ j.at \in Pointer /\ j.value \in Mine[t]
  BY <1>2 DEF Placed, JobFits, Writing, JobType, Marked
<1>4. /\ s \in Seq(Nodes) /\ Len(s) \in Nat /\ DOMAIN s = 1 .. Len(s)
      /\ \A i \in 1 .. Len(s) : s[i] \in Nodes /\ s[i] # NULL
      /\ head = IF Len(s) = 0 THEN NULL ELSE s[1]
      /\ InList(s) = {s[i] : i \in 1 .. Len(s)}
  BY <1>2, PathPositions
<1>5. used = InList(s)
  <2>1. AllAway = Away("unlink", j)
    BY <1>1, <1>3, WriterHasAll
  <2>2. Away("unlink", j) = {}
    BY NothingAway
  <2> QED  BY <2>1, <2>2 DEF ListedAs
<1>6. /\ PointerIsSet(j.at, cells[j.target].next, head, cells, head', cells')
      /\ \A x \in Nodes : cells'[x].data = cells[x].data
  BY <1>1, <1>2, <1>3, DataStays
<1>7. PICK i \in 1 .. Len(s) : j.at = (IF i = 1 THEN NULL ELSE s[i-1]) /\ j.target = s[i]
  <2>1. CASE j.at = NULL
    <3>1. head = j.target /\ j.target # NULL
      BY <1>3, <2>1 DEF PointsTo
    <3>2. 1 \in 1 .. Len(s) /\ head = s[1]
      BY <1>4, <3>1
    <3> QED  BY <2>1, <3>1, <3>2
  <2>2. CASE j.at # NULL
    <3>1. PICK p \in DOMAIN s : p < Len(s) /\ s[p] = j.at /\ s[p+1] = j.target
      BY <1>3, <2>2 DEF PointsTo
    <3>2. p + 1 \in 1 .. Len(s) /\ p + 1 # 1 /\ (p + 1) - 1 = p
      BY <1>4, <3>1
    <3> QED  BY <3>1, <3>2
  <2> QED  BY <2>1, <2>2
<1> PICK r : r = RemoveAt(s, i)
  OBVIOUS
<1>8. IsPath(r, head', cells') /\ InList(r) = InList(s) \ {j.target}
  <2>1. PICK h2, c2 : h2 = head' /\ c2 = cells'
    OBVIOUS
  <2>2. PICK h, c : h = head /\ c = cells
    OBVIOUS
  <2>3. c \in CellsType /\ IsPath(s, h, c) /\ i \in 1 .. Len(s)
    BY <1>2, <2>2
  <2>4. PointerIsSet(IF i = 1 THEN NULL ELSE s[i-1], c[s[i]].next, h, c, h2, c2)
    BY <1>6, <1>7, <2>1, <2>2
  <2>5. IsPath(RemoveAt(s, i), h2, c2) /\ InList(RemoveAt(s, i)) = InList(s) \ {s[i]}
    BY ONLY <2>3, <2>4, PathShortened
  <2> QED  BY <1>7, <2>1, <2>5
<1>9. \A u \in Threads : mark[u] # NULL =>
         mark[u] \in InList(r) /\ cells'[mark[u]].data = cells[mark[u]].data
  <2> SUFFICES ASSUME NEW u \in Threads, mark[u] # NULL
               PROVE  mark[u] \in InList(r) /\ cells'[mark[u]].data = cells[mark[u]].data
    OBVIOUS
  <2>1. mark[u] \in InList(s) /\ cells[mark[u]].data \in Mine[u]
    BY OneThread DEF Marked
  <2>2. cells[mark[u]].data # j.value
    <3>1. CASE u = t
      BY <1>2, <1>3, <3>1 DEF Marked
    <3>2. CASE u # t
      BY <1>3, <2>1, <3>2, UniqueValues
    <3> QED  BY <3>1, <3>2
  <2>3. mark[u] # j.target
    BY <1>3, <2>2
  <2> QED  BY <1>4, <1>6, <1>8, <2>1, <2>3
<1>10. Placed("free", j, r, head', cells')
  BY <1>3 DEF Placed
<1>11. Away("free", j) = {j.target}
  BY DEF Away
<1>12. used' = InList(r) \cup Away("free", j) /\ InList(r) \cap Away("free", j) = {}
  BY <1>1, <1>4, <1>5, <1>7, <1>8, <1>11
<1>13. /\ job' = [job EXCEPT ![t] = j] /\ pc[t] \notin {"idle", "lock"} /\ job[t].op \in Writing
       /\ j.op = job[t].op /\ j.node = job[t].node /\ j.value = job[t].value /\ UNCHANGED mark
  BY <1>1, <1>2, <1>3
<1>14. ListedAs(r)'
  <2>1. pc' = [pc EXCEPT ![t] = "free"] /\ "free" # "idle"
    BY <1>1
  <2> QED  BY ONLY IInv, ListedAs(s), t \in Threads, <2>1, <1>8, <1>9, <1>10, <1>12, <1>13,
               WriterMoves
<1> QED  BY <1>7, <1>14

LEMMA free_Listed ==
  ASSUME IInv, NEW s, ListedAs(s), NEW t \in Threads, free(t)
  PROVE  ListedAs(s)'
<1> PICK j : j = job[t]
  OBVIOUS
<1>1. /\ pc[t] = "free" /\ pc' = [pc EXCEPT ![t] = "unlock"]
      /\ used' = used \ {j.target}
      /\ UNCHANGED <<head, cells, job, mark>>
  BY DEF free, Goto
<1>2. /\ JobFits("free", j) /\ job = [job EXCEPT ![t] = j] /\ IsPath(s, head, cells)
      /\ Placed("free", j, s, head, cells)
  BY <1>1, OneThread
<1>3. j.op \in Writing /\ j.op # "list_search" /\ j.new = NULL
  BY <1>2 DEF JobFits, Writing, Placed
<1>4. used = InList(s) \cup {j.target} /\ j.target \notin InList(s)
  <2>1. AllAway = Away("free", j)
    BY <1>1, <1>3, WriterHasAll
  <2>2. Away("free", j) = {j.target}
    BY DEF Away
  <2> QED  BY <2>1, <2>2 DEF ListedAs
<1>5. Away("unlock", j) = {}
  BY NothingAway
<1>6. used' = InList(s) \cup Away("unlock", j) /\ InList(s) \cap Away("unlock", j) = {}
  BY <1>1, <1>4, <1>5
<1>7. Placed("unlock", j, s, head', cells')
  BY <1>3 DEF Placed
<1>8. IsPath(s, head', cells')
  BY <1>1, <1>2
<1>9. \A u \in Threads : mark[u] # NULL =>
         mark[u] \in InList(s) /\ cells'[mark[u]].data = cells[mark[u]].data
  BY <1>1, OneThread DEF Marked
<1>10. /\ job' = [job EXCEPT ![t] = j] /\ pc[t] \notin {"idle", "lock"} /\ job[t].op \in Writing
       /\ j.op = job[t].op /\ j.node = job[t].node /\ j.value = job[t].value /\ UNCHANGED mark
  BY <1>1, <1>2, <1>3
<1>11. pc' = [pc EXCEPT ![t] = "unlock"] /\ "unlock" # "idle"
  BY <1>1
<1> QED  BY ONLY IInv, ListedAs(s), t \in Threads, <1>6, <1>7, <1>8, <1>9, <1>10, <1>11,
             WriterMoves

(* The call returns, and a thread may remember what it has found. *)
LEMMA unlock_Listed ==
  ASSUME IInv, NEW s, ListedAs(s), NEW t \in Threads, unlock(t)
  PROVE  ListedAs(s)'
<1> PICK j : j = job[t]
  OBVIOUS
<1> PICK m : m = mark'[t]
  OBVIOUS
<1>1. /\ pc[t] = "unlock" /\ pc' = [pc EXCEPT ![t] = "idle"] /\ job' = [job EXCEPT ![t] = NoJob]
      /\ UNCHANGED <<head, cells, used>>
      /\ mark' = IF j.op = "list_search" /\ j.value \in Mine[t]
                 THEN [mark EXCEPT ![t] = IF j.op = "list_search" THEN j.at ELSE NULL] ELSE mark
  BY DEF unlock, Goto
<1>2. /\ mark \in [Threads -> Pointer] /\ Placed("unlock", j, s, head, cells)
      /\ Marked("unlock", j, mark[t], s, cells, Mine[t])
  BY <1>1, OneThread DEF IInv, TypeOK
<1>3. /\ mark' = [mark EXCEPT ![t] = m]
      /\ m = IF j.op = "list_search" /\ j.value \in Mine[t] THEN j.at ELSE mark[t]
  BY <1>1, <1>2
<1>4. NoJob.new = NULL /\ NoJob.target = NULL
  BY DEF NoJob, Job
<1>5. Away("idle", NoJob) = Away(pc[t], job[t])
  BY <1>1, NothingAway
<1>6. Marked("idle", NoJob, m, s, cells, Mine[t])
  BY <1>2, <1>3 DEF Marked, Placed
<1>7. Placed("idle", NoJob, s, head, cells)
  BY <1>4 DEF Placed
<1> QED  BY ONLY IInv, ListedAs(s), t \in Threads, <1>1, <1>3, <1>5, <1>6, <1>7, ListStays

(* A call that returns at once, for want of a node. *)
LEMMA CallInsertAtNull_Listed ==
  ASSUME IInv, NEW s, ListedAs(s), NEW t \in Threads, CallInsertAtNull(t)
  PROVE  ListedAs(s)'
<1>1. UNCHANGED <<head, cells, used, pc, job, mark>>
  BY DEF CallInsertAtNull
<1> QED  BY <1>1 DEF ListedAs, AllAway

LEMMA EmptyPath == ASSUME NEW c PROVE IsPath(<<>>, NULL, c) /\ InList(<<>>) = {}
<1>1. <<>> \in Seq(Nodes) /\ Len(<<>>) = 0 /\ DOMAIN <<>> = {}
  OBVIOUS
<1> QED  BY <1>1 DEF IsPath, InList

(* A list is made, or given up. *)
LEMMA Ends_Listed ==
  ASSUME IInv, NEW s, ListedAs(s), list_init \/ list_cleanup
  PROVE  ListedAs(<<>>)'
<1>1. /\ \A t \in Threads : pc[t] = "idle"
      /\ used' = {} /\ head' = NULL /\ mark' = [t \in Threads |-> NULL]
      /\ UNCHANGED <<cells, pc, job>>
  BY DEF list_init, list_cleanup, Joined, Emptied
<1>2. IsPath(<<>>, head', cells') /\ InList(<<>>) = {}
  BY <1>1, EmptyPath
<1>3. ASSUME NEW t \in Threads
      PROVE  /\ Marked(pc'[t], job'[t], mark'[t], <<>>, cells', Mine[t])
             /\ Placed(pc'[t], job'[t], <<>>, head', cells')
             /\ Away(pc'[t], job'[t]) = {}
  <2>1. pc'[t] = "idle" /\ mark'[t] = NULL
    BY <1>1
  <2>2. Placed(pc[t], job[t], s, head, cells)
    BY DEF ListedAs
  <2>3. job'[t].new = NULL
    BY <1>1, <2>2 DEF Placed
  <2> QED  BY <2>1, <2>3, NothingAway DEF Marked, Placed
<1>4. AllAway' = {}
  BY <1>3 DEF AllAway
<1> QED  BY <1>1, <1>2, <1>3, <1>4 DEF ListedAs

LEMMA InitListed == Init => ListedAs(Chain)
<1> SUFFICES ASSUME Init PROVE ListedAs(Chain)
  OBVIOUS
<1>1. IsPath(<<>>, head, cells) /\ InList(<<>>) = {}
  BY EmptyPath DEF Init
<1>2. Chain = <<>>
  BY <1>1, PathIsChain, ChainIsOfHead
<1>3. ASSUME NEW t \in Threads
      PROVE  /\ Marked(pc[t], job[t], mark[t], <<>>, cells, Mine[t])
             /\ Placed(pc[t], job[t], <<>>, head, cells)
             /\ Away(pc[t], job[t]) = {}
  <2>1. pc[t] = "idle" /\ mark[t] = NULL /\ job[t] = NoJob
    BY DEF Init
  <2>2. NoJob.new = NULL
    BY DEF NoJob, Job
  <2> QED  BY <2>1, <2>2, NothingAway DEF Marked, Placed
<1>4. AllAway = {}
  BY <1>3 DEF AllAway
<1>5. used = {}
  BY DEF Init
<1>6. ListedAs(<<>>)
  BY <1>1, <1>3, <1>4, <1>5 DEF ListedAs
<1> QED  BY <1>2, <1>6

(* Every step leaves a list: the one there was, or that with one node more or *)
(* less, or an empty one.                                                     *)
LEMMA StepListed == ListInv /\ [Next]_vars => ListedAs(Chain)'
<1> SUFFICES ASSUME IInv, ListedAs(Chain), [Next]_vars PROVE ListedAs(Chain)'
  BY DEF ListInv
<1> PICK s : s = Chain
  OBVIOUS
<1>1. ListedAs(s)
  OBVIOUS
<1>2. \E r : ListedAs(r)'
  <2>1. CASE UNCHANGED vars
    <3>1. UNCHANGED <<head, cells, used, pc, job, mark>>
      BY <2>1 DEF vars
    <3>2. ListedAs(s)'
      BY <1>1, <3>1 DEF ListedAs, AllAway
    <3> QED  BY <3>2
  <2>2. CASE list_init \/ list_cleanup
    <3>1. ListedAs(<<>>)'
      BY <1>1, <2>2, Ends_Listed
    <3> QED  BY <3>1
  <2>3. ASSUME NEW t \in Threads,
               \/ CallInsert(t) \/ CallDelete(t) \/ CallInsertAt(t) \/ CallInsertAtNull(t)
               \/ CallRead(t)
        PROVE  \E r : ListedAs(r)'
    <3>1. ListedAs(s)'
      BY <1>1, <2>3, Calls_Listed, CallInsertAtNull_Listed
    <3> QED  BY <3>1
  <2>4. ASSUME NEW t \in Threads, rdlock(t) \/ wrlock(t) \/ walk(t) \/ alloc(t)
        PROVE  \E r : ListedAs(r)'
    <3>1. ListedAs(s)'
      BY <1>1, <2>4, Locks_Listed, walk_Listed, alloc_Listed
    <3> QED  BY <3>1
  <2>5. ASSUME NEW t \in Threads, link(t) \/ unlink(t) PROVE \E r : ListedAs(r)'
    <3>1. CASE link(t)
      <4>1. PICK n : n = job[t].new
        OBVIOUS
      <4>2. PICK i : ListedAs(InsertAt(s, i, n))'
        BY <1>1, <3>1, <4>1, link_Listed
      <4> QED  BY <4>2
    <3>2. CASE unlink(t)
      <4>1. PICK i : ListedAs(RemoveAt(s, i))'
        BY <1>1, <3>2, unlink_Listed
      <4> QED  BY <4>1
    <3> QED  BY <2>5, <3>1, <3>2
  <2>6. ASSUME NEW t \in Threads, free(t) \/ unlock(t) PROVE \E r : ListedAs(r)'
    <3>1. ListedAs(s)'
      BY <1>1, <2>6, free_Listed, unlock_Listed
    <3> QED  BY <3>1
  <2> QED  BY <2>1, <2>2, <2>3, <2>4, <2>5, <2>6 DEF Next, Inside
<1>3. PICK r : ListedAs(r)'
  BY <1>2
<1> QED  BY <1>3, ListedSomehow

(* In every reachable state the pointers from the head on are a list without *)
(* a loop, and each thread knows of it what it needs to go on: a node it has  *)
(* found is there as long as it may pass it, the node before which a walk is  *)
(* to end is ahead of it, and what is about to be unlinked is where the       *)
(* pointer that will be set points to.                                        *)
THEOREM ThreadsKnowTheList == Spec => []ListInv
<1>1. Init => ListInv
  BY InitSound, InitListed DEF ListInv
<1>2. ListInv /\ [Next]_vars => ListInv'
  BY StepSound, StepListed DEF ListInv
<1> QED  BY <1>1, <1>2, PTL DEF Spec

(* Whatever the threads insert and delete, one at a time or at once, and       *)
(* also when the pool is full: each node the pool has handed out is on the list *)
(* once, or has been taken by the one call that is about to link or free it.  *)
THEOREM NodesAreListedOrOnTheWay == Spec => []NoNodeLost
<1>1. ListInv => NoNodeLost
  <2> SUFFICES ASSUME IInv, ListedAs(Chain) PROVE NoNodeLost
    BY DEF ListInv
  <2>1. IsInjective(Chain)
    BY DEF ListedAs, IsPath, IsInjective
  <2>2. InList(Chain) = OnList
    BY DEF InList, OnList
  <2>3. AllAway = OnTheWay
    <3>1. \A t \in Threads : Away(pc[t], job[t]) \subseteq OnTheWay
      BY DEF Away, OnTheWay
    <3>2. ASSUME NEW t \in Threads, pc[t] \in {"walk", "link"}, job[t].new # NULL
          PROVE  job[t].new \in AllAway
      <4>1. job[t].new \in Away(pc[t], job[t])
        BY <3>2 DEF Away
      <4> QED  BY <4>1 DEF AllAway
    <3>3. ASSUME NEW t \in Threads, pc[t] = "free" PROVE job[t].target \in AllAway
      <4>1. job[t].target \in Away(pc[t], job[t])
        BY <3>3 DEF Away
      <4> QED  BY <4>1 DEF AllAway
    <3>4. AllAway \subseteq OnTheWay
      BY <3>1 DEF AllAway
    <3>5. OnTheWay \subseteq AllAway
      BY <3>2, <3>3 DEF OnTheWay
    <3> QED  BY <3>4, <3>5
  <2> QED  BY <2>1, <2>2, <2>3 DEF ListedAs, NoNodeLost
<1> QED  BY <1>1, ThreadsKnowTheList, PTL

(* A node pointer a thread got from list_search is on the list when          *)
(* list_insert_after or list_insert_before uses it, a walk never leaves the   *)
(* list, and list_delete always finds the node before the one it unlinks.     *)
THEOREM PointersLeadToTheList == Spec => []PointersStayOnList
<1>1. ListInv => PointersStayOnList
  <2> SUFFICES ASSUME IInv, ListedAs(Chain), NEW t \in Threads
               PROVE  /\ mark[t] \in OnList \cup {NULL}
                      /\ pc[t] = "walk" => job[t].at \in OnList \cup {NULL}
                      /\ pc[t] \in {"lock", "walk", "alloc"} => job[t].node \in OnList \cup {NULL}
                      /\ pc[t] = "walk" /\ job[t].op = "list_delete" /\ job[t].target # NULL =>
                            job[t].at \in OnList
    BY DEF ListInv, PointersStayOnList
  <2> PICK s : s = Chain
    OBVIOUS
  <2>1. InList(s) = OnList
    BY DEF InList, OnList
  <2>2. Marked(pc[t], job[t], mark[t], s, cells, Mine[t]) /\ Placed(pc[t], job[t], s, head, cells)
    BY OneThread
  <2>3. pc[t] = "walk" => Walking(job[t], s, cells)
    BY <2>2 DEF Placed
  <2>4. pc[t] = "walk" /\ job[t].target # NULL => job[t].at \in OnList
    BY <2>1, <2>3 DEF Walking, Ahead, InList
  <2> QED  BY <2>1, <2>2, <2>3, <2>4 DEF Marked, Walking
<1> QED  BY <1>1, ThreadsKnowTheList, PTL

-----------------------------------------------------------------------------
(* The list with the data of its nodes, in the memory c. *)
ContentsOf(s, c) == [i \in DOMAIN s |-> [node |-> s[i], data |-> c[s[i]].data]]

(* NodeList's operators, for any sequence S of nodes with data. *)
WhereIn(S, n) == {i \in DOMAIN S : S[i].node = n}

FirstIn(S, v) ==
  {i \in DOMAIN S : S[i].data = v /\ \A k \in DOMAIN S : S[k].data = v => i <= k}

SpareOf(S, room) == room \ {S[i].node : i \in DOMAIN S}

DataFrom(S, b, e) == [m \in 1 .. e - b + 1 |-> S[b + m - 1].data]

Counting == {"list_count_nodes", "list_display_range"}

(* What a call has been asked. *)
Asked(j) ==
  /\ j.op \in Writing \cup {"list_search"} => j.value \in Values
  /\ j.op \in Counting => j.value = 0
  /\ j.op \notin AtNode \cup {"list_display_range"} => j.node = NULL
  /\ j.op # "list_display_range" => j.stop = NULL
  /\ j.op \notin Counting => j.seen = <<>>

Begins(j, S) == IF j.node = NULL THEN {1} ELSE WhereIn(S, j.node)

Places(j, S) ==
  CASE j.op = "list_insert"        -> {Len(S) + 1}
    [] j.op = "list_insert_after"  -> {i + 1 : i \in WhereIn(S, j.node)}
    [] j.op = "list_insert_before" -> WhereIn(S, j.node)

(* What a walk that has come to a node, or to the end, has behind it. *)
Walked(j, S, s) ==
  \E i \in 1 .. Len(s) + 1 :
     /\ j.at = IF i = Len(s) + 1 THEN NULL ELSE s[i]
     /\ j.op \in {"list_search", "list_delete"} /\ j.target = NULL =>
           \A k \in 1 .. i - 1 : S[k].data # j.value
     /\ j.op \in Counting =>
           \E b \in Begins(j, S) :
              /\ b <= i /\ j.seen = DataFrom(S, b, i - 1)
              /\ \A k \in b .. i - 1 : S[k].node # j.stop

(* What a call has done to the list S, which is now C, and what it has to answer. *)
Answered(j, S, C, room) ==
  /\ j.op \in {"list_insert"} \cup AtNode =>
        \E i \in Places(j, S) :
           \/ SpareOf(S, room) = {} /\ C = S
           \/ \E n \in SpareOf(S, room) :
                 C = InsertAt(S, i, [node |-> n, data |-> j.value % Width])
  /\ j.op = "list_delete" =>
        \/ FirstIn(S, j.value) = {} /\ C = S
        \/ \E q \in FirstIn(S, j.value) : C = RemoveAt(S, q)
  /\ j.op = "list_search" =>
        \/ FirstIn(S, j.value) = {} /\ j.at = NULL
        \/ \E q \in FirstIn(S, j.value) : j.at = S[q].node
  /\ j.op = "list_count_nodes" => j.seen = DataFrom(S, 1, Len(S))
  /\ j.op = "list_display_range" =>
        \E b \in Begins(j, S) :
           LET ends == {k \in WhereIn(S, j.stop) : b <= k}
           IN  \E k \in IF ends = {} THEN {Len(S)} ELSE ends : j.seen = DataFrom(S, b, k)

(* What a call knows and has done so far, at each label. *)
Doing(label, j, S, s, c, room) ==
  /\ label = "lock" => j.seen = <<>>
  /\ label = "walk" => Walked(j, S, s)
  /\ label \in {"walk", "unlink"} /\ j.op = "list_delete" /\ j.target # NULL =>
        \E q \in FirstIn(S, j.value) : S[q].node = j.target
  /\ label \in {"walk", "link"} /\ j.new # NULL => c[j.new].data = j.value % Width
  /\ label = "link" =>
        /\ j.op = "list_insert" => c[j.new].next = NULL
        /\ j.op = "list_insert_after" => j.at = j.node
        /\ j.op = "list_insert_before" => c[j.new].next = j.node
  /\ label = "free" => \E q \in FirstIn(S, j.value) : ContentsOf(s, c) = RemoveAt(S, q)
  /\ label = "unlock" => Answered(j, S, ContentsOf(s, c), room)

(* No writing call has changed the list already and not returned yet. *)
NothingNew == \A t \in Threads : pc[t] \in {"free", "unlock"} => job[t].op \notin Writing

KnownAs(s) ==
  /\ NothingNew => settled = ContentsOf(s, cells)
  /\ \A t \in Threads : /\ Asked(job[t])
                        /\ Doing(pc[t], job[t], settled, s, cells, pool)

KnownInv == ListInv /\ KnownAs(Chain)

LEMMA KnownSomehow ==
  ASSUME NEW s, ListedAs(s)', KnownAs(s)'
  PROVE  ListedAs(Chain)' /\ KnownAs(Chain)'
<1>1. IsPath(s, head', cells')
  BY DEF ListedAs
<1>2. Chain' = s
  BY <1>1, PathIsChain, ChainIsOfHead
<1> QED  BY <1>2, ListedSomehow DEF KnownAs

-----------------------------------------------------------------------------
Item == [node : Nodes, data : 0 .. Width - 1]

LEMMA ContentsMatch ==
  ASSUME NEW s, NEW h, NEW c \in CellsType, IsPath(s, h, c), NEW S, S = ContentsOf(s, c)
  PROVE  /\ S \in Seq(Item) /\ Len(S) = Len(s) /\ DOMAIN S = 1 .. Len(s)
         /\ \A i \in 1 .. Len(s) : S[i].node = s[i] /\ S[i].data = c[s[i]].data
<1> PICK len : len = Len(s)
  OBVIOUS
<1>1. /\ len \in Nat /\ DOMAIN s = 1 .. len /\ \A i \in 1 .. len : s[i] \in Nodes
  BY PathPositions
<1>2. /\ DOMAIN S = 1 .. len
      /\ \A i \in 1 .. len : S[i] = [node |-> s[i], data |-> c[s[i]].data]
      /\ S = [i \in 1 .. len |-> S[i]]
  BY <1>1 DEF ContentsOf
<1>3. \A i \in 1 .. len : S[i] \in Item /\ S[i].node = s[i] /\ S[i].data = c[s[i]].data
  <2>1. \A x \in Nodes : c[x].data \in 0 .. Width - 1
    BY DEF CellsType
  <2> QED  BY ONLY <1>1, <1>2, <2>1 DEF Item
<1>4. S \in [1 .. len -> Item]
  BY <1>2, <1>3
<1>5. S \in Seq(Item)
  BY ONLY <1>1, <1>4, SeqDef
<1>6. Len(S) = len
  BY ONLY <1>1, <1>2, <1>5, LenProperties
<1> QED  BY <1>2, <1>3, <1>5, <1>6

LEMMA ContentsLengthened ==
  ASSUME NEW s, NEW h, NEW c \in CellsType, IsPath(s, h, c),
         NEW i \in 1 .. Len(s) + 1, NEW n \in Nodes,
         NEW c2 \in CellsType, \A x \in Nodes : c2[x].data = c[x].data
  PROVE  ContentsOf(InsertAt(s, i, n), c2) =
           InsertAt(ContentsOf(s, c), i, [node |-> n, data |-> c[n].data])
<1> PICK len : len = Len(s)
  OBVIOUS
<1> PICK S : S = ContentsOf(s, c)
  OBVIOUS
<1> PICK e : e = [node |-> n, data |-> c[n].data]
  OBVIOUS
<1> PICK r : r = InsertAt(s, i, n)
  OBVIOUS
<1> PICK R : R = InsertAt(S, i, e)
  OBVIOUS
<1>1. /\ s \in Seq(Nodes) /\ len \in Nat /\ \A k \in 1 .. len : s[k] \in Nodes
      /\ i \in 1 .. len + 1
  BY PathPositions
<1>2. /\ S \in Seq(Item) /\ Len(S) = len
      /\ \A k \in 1 .. len : S[k] = [node |-> s[k], data |-> c[s[k]].data]
  <2>1. S \in Seq(Item) /\ Len(S) = len /\ DOMAIN s = 1 .. len
    BY ContentsMatch, PathPositions
  <2> QED  BY <2>1 DEF ContentsOf
<1>3. e \in Item
  BY DEF CellsType, Item
<1>4. /\ DOMAIN r = 1 .. len + 1
      /\ \A k \in 1 .. len + 1 : r[k] = IF k < i THEN s[k] ELSE IF k = i THEN n ELSE s[k-1]
  <2>1. s \in Seq(Nodes) /\ i \in 1 .. Len(s) + 1 /\ n \in Nodes
    BY <1>1
  <2>2. InsertAt(s, i, n) =
          [k \in 1 .. Len(s) + 1 |-> IF k < i THEN s[k] ELSE IF k = i THEN n ELSE s[k-1]]
    BY ONLY <2>1, LengthenedIs
  <2> QED  BY <2>2
<1>5. /\ DOMAIN R = 1 .. len + 1
      /\ \A k \in 1 .. len + 1 : R[k] = IF k < i THEN S[k] ELSE IF k = i THEN e ELSE S[k-1]
      /\ R = [k \in 1 .. len + 1 |-> R[k]]
  <2>1. S \in Seq(Item) /\ i \in 1 .. Len(S) + 1 /\ e \in Item
    BY <1>1, <1>2, <1>3
  <2>2. InsertAt(S, i, e) =
          [k \in 1 .. Len(S) + 1 |-> IF k < i THEN S[k] ELSE IF k = i THEN e ELSE S[k-1]]
    BY ONLY <2>1, LengthenedIs
  <2> QED  BY <1>2, <2>2
<1>6. \A k \in 1 .. len + 1 : R[k] = [node |-> r[k], data |-> c2[r[k]].data]
  <2> SUFFICES ASSUME NEW k \in 1 .. len + 1
               PROVE  R[k] = [node |-> r[k], data |-> c2[r[k]].data]
    OBVIOUS
  <2>1. (k < i => k \in 1 .. len) /\ (i < k => k - 1 \in 1 .. len /\ ~(k < i) /\ k # i)
    BY <1>1
  <2>2. k < i \/ k = i \/ i < k
    BY <1>1
  <2>3. r[k] \in Nodes
    BY <1>1, <1>4, <2>1, <2>2
  <2>4. R[k] = [node |-> r[k], data |-> c[r[k]].data]
    BY <1>2, <1>4, <1>5, <2>1, <2>2
  <2> QED  BY <2>3, <2>4
<1>7. ContentsOf(r, c2) = [k \in 1 .. len + 1 |-> [node |-> r[k], data |-> c2[r[k]].data]]
  BY <1>4 DEF ContentsOf
<1> QED  BY <1>5, <1>6, <1>7

LEMMA ContentsShortened ==
  ASSUME NEW s, NEW h, NEW c \in CellsType, IsPath(s, h, c), NEW i \in 1 .. Len(s),
         NEW c2 \in CellsType, \A x \in Nodes : c2[x].data = c[x].data
  PROVE  ContentsOf(RemoveAt(s, i), c2) = RemoveAt(ContentsOf(s, c), i)
<1> PICK len : len = Len(s)
  OBVIOUS
<1> PICK S : S = ContentsOf(s, c)
  OBVIOUS
<1> PICK r : r = RemoveAt(s, i)
  OBVIOUS
<1> PICK R : R = RemoveAt(S, i)
  OBVIOUS
<1>1. /\ s \in Seq(Nodes) /\ len \in Nat /\ \A k \in 1 .. len : s[k] \in Nodes
      /\ i \in 1 .. len
  BY PathPositions
<1>2. /\ S \in Seq(Item) /\ Len(S) = len
      /\ \A k \in 1 .. len : S[k] = [node |-> s[k], data |-> c[s[k]].data]
  <2>1. S \in Seq(Item) /\ Len(S) = len /\ DOMAIN s = 1 .. len
    BY ContentsMatch, PathPositions
  <2> QED  BY <2>1 DEF ContentsOf
<1>3. /\ DOMAIN r = 1 .. len - 1
      /\ \A k \in 1 .. len - 1 : r[k] = IF k < i THEN s[k] ELSE s[k+1]
  <2>1. s \in Seq(Nodes) /\ i \in 1 .. Len(s)
    BY <1>1
  <2>2. RemoveAt(s, i) \in Seq(Nodes) /\ DOMAIN RemoveAt(s, i) = 1 .. Len(s) - 1
    BY ONLY <2>1, ShortenedBy
  <2>3. \A k \in 1 .. Len(s) - 1 : RemoveAt(s, i)[k] = IF k < i THEN s[k] ELSE s[k+1]
    BY ONLY <2>1, ShortenedBy
  <2> QED  BY <1>1, <2>2, <2>3
<1>4. /\ DOMAIN R = 1 .. len - 1 /\ R \in Seq(Item)
      /\ \A k \in 1 .. len - 1 : R[k] = IF k < i THEN S[k] ELSE S[k+1]
  <2>1. S \in Seq(Item) /\ i \in 1 .. Len(S)
    BY <1>1, <1>2
  <2>2. RemoveAt(S, i) \in Seq(Item) /\ DOMAIN RemoveAt(S, i) = 1 .. Len(S) - 1
    BY ONLY <2>1, ShortenedBy
  <2>3. \A k \in 1 .. Len(S) - 1 : RemoveAt(S, i)[k] = IF k < i THEN S[k] ELSE S[k+1]
    BY ONLY <2>1, ShortenedBy
  <2> QED  BY <1>1, <1>2, <2>2, <2>3
<1>5. \A k \in 1 .. len - 1 : R[k] = [node |-> r[k], data |-> c2[r[k]].data]
  <2> SUFFICES ASSUME NEW k \in 1 .. len - 1
               PROVE  R[k] = [node |-> r[k], data |-> c2[r[k]].data]
    OBVIOUS
  <2>1. k \in 1 .. len /\ k + 1 \in 1 .. len
    BY <1>1
  <2>2. r[k] \in Nodes
    BY <1>1, <1>3, <2>1
  <2>3. R[k] = [node |-> r[k], data |-> c[r[k]].data]
    BY <1>2, <1>3, <1>4, <2>1
  <2> QED  BY <2>2, <2>3
<1>6. ContentsOf(r, c2) = [k \in 1 .. len - 1 |-> [node |-> r[k], data |-> c2[r[k]].data]]
  BY <1>3 DEF ContentsOf
<1>7. R = [k \in 1 .. len - 1 |-> R[k]]
  BY <1>4
<1> QED  BY <1>5, <1>6, <1>7

LEMMA OneMoreSeen ==
  ASSUME NEW S, NEW b \in Nat, NEW i \in Nat, b <= i
  PROVE  DataFrom(S, b, i) = Append(DataFrom(S, b, i - 1), S[i].data)
<1> PICK len : len = i - b
  OBVIOUS
<1> PICK D : D = DataFrom(S, b, i - 1)
  OBVIOUS
<1>1. len \in Nat /\ i - b + 1 = len + 1 /\ i - 1 - b + 1 = len /\ b + (len + 1) - 1 = i
  OBVIOUS
<1>2. D = [m \in 1 .. len |-> S[b + m - 1].data]
  BY <1>1 DEF DataFrom
<1>3. DataFrom(S, b, i) = [m \in 1 .. len + 1 |-> S[b + m - 1].data]
  BY <1>1 DEF DataFrom
<1> PICK T : T = {S[b + m - 1].data : m \in 1 .. len} \cup {S[i].data}
  OBVIOUS
<1>4. D \in Seq(T) /\ Len(D) = len
  <2>1. D \in [1 .. len -> T]
    BY <1>2
  <2>2. D \in Seq(T)
    BY ONLY <1>1, <2>1, SeqDef
  <2>3. DOMAIN D = 1 .. len
    BY <1>2
  <2> QED  BY ONLY <1>1, <2>2, <2>3, LenProperties
<1>5. Append(D, S[i].data) = [m \in 1 .. len + 1 |-> IF m <= len THEN D[m] ELSE S[i].data]
  <2> PICK x : x = S[i].data
    OBVIOUS
  <2> PICK E : E = Append(D, x)
    OBVIOUS
  <2>1. x \in T
    OBVIOUS
  <2>2. /\ E \in Seq(T) /\ Len(E) = len + 1
        /\ \A m \in 1 .. len : E[m] = D[m]
        /\ E[len + 1] = x
    BY ONLY <1>4, <2>1, E = Append(D, x), AppendProperties
  <2>3. E = [m \in 1 .. len + 1 |-> E[m]]
    BY ONLY <1>1, <2>2, LenProperties
  <2> QED  BY <1>1, <2>2, <2>3
<1>6. ASSUME NEW m \in 1 .. len + 1
      PROVE  S[b + m - 1].data = IF m <= len THEN D[m] ELSE S[i].data
  <2>1. m <= len => m \in 1 .. len
    BY <1>1
  <2>2. m <= len => D[m] = S[b + m - 1].data
    BY <1>2, <2>1
  <2>3. ~(m <= len) => b + m - 1 = i
    BY <1>1
  <2> QED  BY <2>2, <2>3
<1> QED  BY <1>3, <1>5, <1>6

-----------------------------------------------------------------------------
(* As long as a call has changed nothing yet, nobody else has.               *)
LEMMA NothingNewYet ==
  ASSUME IInv, NEW t \in Threads,
         \/ pc[t] \in {"walk", "alloc", "link", "unlink"}
         \/ pc[t] = "unlock" /\ job[t].op \notin Writing
  PROVE  NothingNew
<1> SUFFICES ASSUME NEW u \in Threads, pc[u] \in {"free", "unlock"}, job[u].op \in Writing
             PROVE  FALSE
  BY DEF NothingNew
<1>1. u # t /\ pc[u] \notin {"idle", "lock"}
  OBVIOUS
<1>2. pc[t] \in {"idle", "lock"}
  BY <1>1, OthersOutside
<1> QED  BY <1>2

LEMMA NobodyWritesNothingNew ==
  ASSUME IInv, writer = NULL
  PROVE  NothingNew
BY NullAssumption DEF IInv, LockMatchesCalls, NothingNew

LEMMA InTouch ==
  ASSUME NEW s, ListedAs(s), KnownAs(s), NothingNew, IInv
  PROVE  /\ settled = ContentsOf(s, cells) /\ settled \in Seq(Item)
         /\ Len(settled) = Len(s) /\ DOMAIN settled = 1 .. Len(s)
         /\ \A i \in 1 .. Len(s) : settled[i].node = s[i] /\ settled[i].data = cells[s[i]].data
<1>1. settled = ContentsOf(s, cells) /\ IsPath(s, head, cells) /\ cells \in CellsType
  BY DEF KnownAs, ListedAs, IInv, TypeOK, CellsType
<1> QED  BY <1>1, ContentsMatch

(* A step that leaves the memory alone. *)
LEMMA StaysKnown ==
  ASSUME IInv, NEW s, KnownAs(s), NEW t \in Threads,
         NEW label, pc' = [pc EXCEPT ![t] = label],
         NEW k, job' = [job EXCEPT ![t] = k],
         UNCHANGED <<cells, pool, settled>>,
         pc[t] \in {"free", "unlock"} => label = "unlock" /\ k.op = job[t].op,
         Asked(k), Doing(label, k, settled, s, cells, pool)
  PROVE  KnownAs(s)'
<1>1. /\ pc'[t] = label /\ job'[t] = k
      /\ \A u \in Threads : u # t => pc'[u] = pc[u] /\ job'[u] = job[u]
  BY DEF IInv, TypeOK
<1>2. NothingNew' => NothingNew
  <2> SUFFICES ASSUME NothingNew', NEW u \in Threads, pc[u] \in {"free", "unlock"}
               PROVE  job[u].op \notin Writing
    BY DEF NothingNew
  <2>1. pc'[u] \in {"free", "unlock"} => job'[u].op \notin Writing
    BY DEF NothingNew
  <2>2. CASE u = t
    BY <1>1, <2>1, <2>2
  <2>3. CASE u # t
    BY <1>1, <2>1, <2>3
  <2> QED  BY <2>2, <2>3
<1>3. ASSUME NEW u \in Threads
      PROVE  /\ Asked(job'[u])
             /\ Doing(pc'[u], job'[u], settled', s, cells', pool')
  <2>1. CASE u = t
    BY <1>1, <2>1
  <2>2. CASE u # t
    <3>1. Asked(job[u]) /\ Doing(pc[u], job[u], settled, s, cells, pool)
      BY DEF KnownAs
    <3> QED  BY <1>1, <2>2, <3>1
  <2> QED  BY <2>1, <2>2
<1>4. NothingNew' => settled' = ContentsOf(s, cells')
  <2>1. NothingNew => settled = ContentsOf(s, cells)
    BY DEF KnownAs
  <2> QED  BY <1>2, <2>1
<1> QED  BY <1>3, <1>4 DEF KnownAs

LEMMA OutsideKnown ==
  ASSUME NEW label \in {"idle", "lock"}, NEW j, NEW S, NEW s, NEW c, NEW room,
         NEW S2, NEW s2, NEW c2, NEW room2, Doing(label, j, S, s, c, room)
  PROVE  Doing(label, j, S2, s2, c2, room2)
<1>1. label = "lock" => j.seen = <<>>
  BY DEF Doing
<1> QED  BY <1>1 DEF Doing

(* A step of a writing call. *)
LEMMA WriterKnown ==
  ASSUME IInv, NEW s, KnownAs(s), NEW t \in Threads,
         pc[t] \notin {"idle", "lock"}, job[t].op \in Writing,
         NEW label, pc' = [pc EXCEPT ![t] = label],
         NEW k, job' = [job EXCEPT ![t] = k], k.op = job[t].op,
         UNCHANGED <<pool, settled>>, NEW r,
         label \in {"free", "unlock"} \/ settled = ContentsOf(r, cells'),
         Asked(k), Doing(label, k, settled, r, cells', pool)
  PROVE  KnownAs(r)'
<1>1. /\ pc'[t] = label /\ job'[t] = k
      /\ \A u \in Threads : u # t => pc'[u] = pc[u] /\ job'[u] = job[u]
  BY DEF IInv, TypeOK
<1>2. \A u \in Threads : u # t => pc[u] \in {"idle", "lock"}
  BY OthersOutside
<1>3. ASSUME NEW u \in Threads
      PROVE  /\ Asked(job'[u])
             /\ Doing(pc'[u], job'[u], settled', r, cells', pool')
  <2>1. CASE u = t
    BY <1>1, <2>1
  <2>2. CASE u # t
    <3>1. Asked(job[u]) /\ Doing(pc[u], job[u], settled, s, cells, pool)
      BY DEF KnownAs
    <3>2. Doing(pc[u], job[u], settled, r, cells', pool)
      BY <1>2, <2>2, <3>1, OutsideKnown
    <3> QED  BY <1>1, <2>2, <3>1, <3>2
  <2> QED  BY <2>1, <2>2
<1>4. NothingNew' => settled' = ContentsOf(r, cells')
  <2> SUFFICES ASSUME NothingNew' PROVE settled' = ContentsOf(r, cells')
    OBVIOUS
  <2>1. label \notin {"free", "unlock"}
    BY <1>1 DEF NothingNew
  <2> QED  BY <2>1
<1> QED  BY <1>3, <1>4 DEF KnownAs

-----------------------------------------------------------------------------
LEMMA AskedOfOne ==
  ASSUME NEW s, KnownAs(s), NEW t \in Threads
  PROVE  Asked(job[t]) /\ Doing(pc[t], job[t], settled, s, cells, pool)
BY DEF KnownAs

LEMMA Call_Known ==
  ASSUME IInv, NEW s, KnownAs(s), NEW t \in Threads,
         NEW op, NEW node, NEW stop, NEW value, Call(t, op, node, stop, value),
         op \in Writing \cup {"list_search"} => value \in Values,
         op \in Counting => value = 0,
         op \notin AtNode \cup {"list_display_range"} => node = NULL,
         op # "list_display_range" => stop = NULL
  PROVE  KnownAs(s)'
<1> PICK k : k = Job(op, node, stop, value)
  OBVIOUS
<1>1. k.op = op /\ k.node = node /\ k.stop = stop /\ k.value = value /\ k.seen = <<>>
  BY DEF Job
<1>2. /\ pc[t] = "idle" /\ job' = [job EXCEPT ![t] = k] /\ pc' = [pc EXCEPT ![t] = "lock"]
      /\ UNCHANGED <<cells, pool, settled>>
  BY DEF Call, Goto
<1>3. Asked(k)
  BY <1>1 DEF Asked
<1>4. Doing("lock", k, settled, s, cells, pool)
  BY <1>1 DEF Doing
<1> QED  BY <1>2, <1>3, <1>4, StaysKnown

LEMMA Calls_Known ==
  ASSUME IInv, NEW s, KnownAs(s), NEW t \in Threads,
         CallInsert(t) \/ CallDelete(t) \/ CallInsertAt(t) \/ CallRead(t)
  PROVE  KnownAs(s)'
<1>1. Mine[t] \subseteq Values
  BY ListAssumption
<1>2. CASE CallInsert(t)
  <2>1. PICK value \in Mine[t] : Call(t, "list_insert", NULL, NULL, value)
    BY <1>2 DEF CallInsert
  <2>2. "list_insert" \notin Counting
    BY DEF Counting
  <2> QED  BY <1>1, <2>1, <2>2, Call_Known
<1>3. CASE CallDelete(t)
  <2>1. PICK value \in Mine[t] : Call(t, "list_delete", NULL, NULL, value)
    BY <1>3 DEF CallDelete
  <2>2. "list_delete" \notin Counting
    BY DEF Counting
  <2> QED  BY <1>1, <2>1, <2>2, Call_Known
<1>4. CASE CallInsertAt(t)
  <2>1. PICK op \in AtNode, value \in Mine[t] : Call(t, op, mark[t], NULL, value)
    BY <1>4 DEF CallInsertAt, AtNode
  <2>2. op \notin Counting /\ op # "list_display_range"
    BY DEF AtNode, Counting
  <2> QED  BY <1>1, <2>1, <2>2, Call_Known
<1>5. CASE \E value \in Values : Call(t, "list_search", NULL, NULL, value)
  <2>1. PICK value \in Values : Call(t, "list_search", NULL, NULL, value)
    BY <1>5
  <2>2. "list_search" \notin Counting
    BY DEF Counting
  <2> QED  BY <2>1, <2>2, Call_Known
<1>6. CASE Call(t, "list_count_nodes", NULL, NULL, 0)
  <2>1. "list_count_nodes" \notin Writing \cup {"list_search"}
    BY DEF Writing
  <2> QED  BY <1>6, <2>1, Call_Known
<1>7. CASE \E start, stop \in {NULL, mark[t]} : Call(t, "list_display_range", start, stop, 0)
  <2>1. PICK start \in {NULL, mark[t]}, stop \in {NULL, mark[t]} :
           Call(t, "list_display_range", start, stop, 0)
    BY <1>7
  <2>2. "list_display_range" \notin Writing \cup {"list_search"}
    BY DEF Writing
  <2> QED  BY <2>1, <2>2, Call_Known
<1> QED  BY <1>2, <1>3, <1>4, <1>5, <1>6, <1>7 DEF CallRead

LEMMA NothingSeen == ASSUME NEW S, NEW b \in Nat PROVE DataFrom(S, b, b - 1) = <<>>
<1>1. 1 .. (b - 1) - b + 1 = {}
  OBVIOUS
<1> QED  BY <1>1 DEF DataFrom

(* A walk begins at the head, or at the node it has been given. *)
LEMMA Locks_Known ==
  ASSUME IInv, NEW s, ListedAs(s), KnownAs(s), NEW t \in Threads, rdlock(t) \/ wrlock(t)
  PROVE  KnownAs(s)'
<1> PICK j : j = job[t]
  OBVIOUS
<1> PICK S : S = settled
  OBVIOUS
<1> DEFINE first == \/ j.op \in {"list_insert", "list_insert_after"}
                    \/ j.op = "list_insert_before" /\ j.node = head
           from == IF j.op = "list_display_range" /\ j.node # NULL THEN j.node ELSE head
           a == IF first THEN NULL ELSE from
           b == IF j.op = "list_insert_before" THEN j.node ELSE NULL
<1> PICK label : label = IF first THEN "alloc" ELSE "walk"
  OBVIOUS
<1> PICK k : k = [j EXCEPT !.at = a, !.target = b]
  OBVIOUS
<1>1. /\ pc[t] = "lock" /\ writer = NULL
      /\ pc' = [pc EXCEPT ![t] = label] /\ job' = [job EXCEPT ![t] = k]
      /\ UNCHANGED <<cells, pool, settled>>
  BY DEF rdlock, wrlock, NobodyWrites, Enter, Goto
<1>2. /\ j \in JobType /\ JobFits("lock", j)
      /\ Marked("lock", j, mark[t], s, cells, Mine[t]) /\ Placed("lock", j, s, head, cells)
      /\ IsPath(s, head, cells)
      /\ Asked(j) /\ Doing("lock", j, settled, s, cells, pool)
  BY <1>1, OneThread, AskedOfOne
<1>3. /\ k.at = a /\ k.target = b /\ k.op = j.op /\ k.node = j.node /\ k.stop = j.stop
      /\ k.value = j.value /\ k.new = NULL /\ k.seen = <<>> /\ j.seen = <<>>
  <2>1. j.new = NULL /\ j.seen = <<>>
    BY <1>2 DEF Placed, Doing
  <2> HIDE DEF a, b
  <2> QED  BY ONLY k = [j EXCEPT !.at = a, !.target = b], <1>2, <2>1 DEF JobType
<1>4. Asked(k)
  BY <1>2, <1>3 DEF Asked
<1>5. /\ DOMAIN S = 1 .. Len(s) /\ Len(s) \in Nat
      /\ \A i \in 1 .. Len(s) : S[i].node = s[i] /\ s[i] # NULL
      /\ head = IF Len(s) = 0 THEN NULL ELSE s[1]
      /\ InList(s) = {s[i] : i \in 1 .. Len(s)}
  <2>1. /\ DOMAIN S = 1 .. Len(s)
        /\ \A i \in 1 .. Len(s) : S[i].node = s[i]
    BY <1>1, NobodyWritesNothingNew, InTouch
  <2> QED  BY <1>2, <2>1, PathPositions
<1>6. label = "walk" => Walked(k, S, s)
  <2> SUFFICES ASSUME ~first PROVE Walked(k, S, s)
    OBVIOUS
  <2>1. k.at = from
    BY <1>3
  <2>2. CASE j.op = "list_display_range" /\ j.node # NULL
    <3>1. j.node \in InList(s)
      BY <1>2, <2>2 DEF Marked
    <3>2. PICK i \in 1 .. Len(s) : s[i] = j.node
      BY <1>5, <3>1
    <3>3. i \in Begins(k, S)
      BY <1>3, <1>5, <2>2, <3>2 DEF Begins, WhereIn
    <3>4. k.seen = DataFrom(S, i, i - 1)
      BY <1>3, <1>5, <3>2, NothingSeen
    <3>5. i \in 1 .. Len(s) + 1 /\ i # Len(s) + 1 /\ i <= i /\ i .. i - 1 = {}
      BY <1>5, <3>2
    <3>6. k.at = s[i]
      BY <2>1, <2>2, <3>2
    <3>7. k.op \notin {"list_search", "list_delete"}
      BY <1>3, <2>2
    <3> QED  BY <3>3, <3>4, <3>5, <3>6, <3>7 DEF Walked
  <2>3. CASE ~(j.op = "list_display_range" /\ j.node # NULL)
    <3>1. 1 \in 1 .. Len(s) + 1 /\ (1 = Len(s) + 1 <=> Len(s) = 0) /\ 1 .. 1 - 1 = {} /\ 1 <= 1
      BY <1>5
    <3>2. k.at = IF 1 = Len(s) + 1 THEN NULL ELSE s[1]
      BY <1>5, <2>1, <2>3, <3>1
    <3>3. k.seen = DataFrom(S, 1, 1 - 1)
      BY <1>3, NothingSeen
    <3>4. k.op \in Counting => 1 \in Begins(k, S)
      BY <1>2, <1>3, <2>3 DEF Begins, Asked, Counting, AtNode
    <3> QED  BY <3>1, <3>2, <3>3, <3>4 DEF Walked
  <2> QED  BY <2>2, <2>3
<1>7. Doing(label, k, S, s, cells, pool)
  <2>1. k.op = "list_delete" => k.target = NULL
    BY <1>3
  <2>2. label \in {"alloc", "walk"}
    OBVIOUS
  <2> QED  BY ONLY <1>3, <1>6, <2>1, <2>2 DEF Doing
<1> QED  BY <1>1, <1>4, <1>7, StaysKnown

(* The first node with a value, and that there is none. *)
LEMMA FoundFirst ==
  ASSUME NEW S, NEW len \in Nat, DOMAIN S = 1 .. len, NEW i \in 1 .. len, NEW v,
         S[i].data = v, \A m \in 1 .. i - 1 : S[m].data # v
  PROVE  i \in FirstIn(S, v)
<1>1. ASSUME NEW m \in 1 .. len, S[m].data = v PROVE i <= m
  <2>1. m \notin 1 .. i - 1
    BY <1>1
  <2> QED  BY <2>1
<1> QED  BY <1>1 DEF FirstIn

LEMMA walk_Known ==
  ASSUME IInv, NEW s, ListedAs(s), KnownAs(s), NEW t \in Threads, walk(t)
  PROVE  KnownAs(s)'
<1> PICK j : j = job[t]
  OBVIOUS
<1> PICK S : S = settled
  OBVIOUS
<1> PICK len : len = Len(s)
  OBVIOUS
<1>1. pc[t] = "walk" /\ UNCHANGED <<cells, pool, settled>>
  BY DEF walk
<1>2. /\ j \in JobType /\ JobFits("walk", j) /\ Walking(j, s, cells)
      /\ IsPath(s, head, cells) /\ Asked(j) /\ Walked(j, S, s)
      /\ Doing("walk", j, S, s, cells, pool)
      /\ job = [job EXCEPT ![t] = j] /\ pc = [pc EXCEPT ![t] = "walk"]
  BY <1>1, OneThread, AskedOfOne DEF Placed, Doing
<1>3. /\ len \in Nat
      /\ \A i \in 1 .. len : s[i] \in Nodes /\ s[i] # NULL
      /\ \A i, k \in 1 .. len : s[i] = s[k] => i = k
      /\ head = IF len = 0 THEN NULL ELSE s[1]
      /\ \A i \in 1 .. len : cells[s[i]].next = IF i = len THEN NULL ELSE s[i+1]
      /\ InList(s) = {s[i] : i \in 1 .. len}
  BY <1>2, PathPositions
<1>4. /\ S = ContentsOf(s, cells) /\ DOMAIN S = 1 .. len
      /\ \A i \in 1 .. len : S[i].node = s[i] /\ S[i].data = cells[s[i]].data
      /\ Len(S) = len
  BY <1>1, NothingNewYet, InTouch
<1>5. ASSUME NEW label, pc' = [pc EXCEPT ![t] = label],
             NEW k, job' = [job EXCEPT ![t] = k],
             Asked(k), Doing(label, k, S, s, cells, pool)
      PROVE  KnownAs(s)'
  BY ONLY IInv, KnownAs(s), t \in Threads, S = settled, <1>1, <1>5, StaysKnown
<1>6. PICK i \in 1 .. len + 1 :
         /\ j.at = IF i = len + 1 THEN NULL ELSE s[i]
         /\ j.op \in {"list_search", "list_delete"} /\ j.target = NULL =>
               \A m \in 1 .. i - 1 : S[m].data # j.value
         /\ j.op \in Counting =>
               \E b \in Begins(j, S) :
                  /\ b <= i /\ j.seen = DataFrom(S, b, i - 1)
                  /\ \A m \in b .. i - 1 : S[m].node # j.stop
  BY <1>2 DEF Walked
<1>7. \A b \in Begins(j, S) : b \in Nat /\ 1 <= b
  BY <1>4 DEF Begins, WhereIn
<1>8. CASE j.at = NULL /\ Goto(t, "unlock") /\ UNCHANGED job
  <2>1. i = len + 1 /\ i - 1 = len
    BY <1>3, <1>6, <1>8
  <2>2. j.target = NULL /\ j.op \notin {"list_insert"} \cup AtNode
    <3>1. j.target = NULL
      BY <1>2, <1>3, <1>8 DEF Walking, Ahead, IsPath
    <3>2. j.op # "list_insert" /\ j.op # "list_insert_before"
      BY <1>2, <1>8, <3>1 DEF Walking, JobFits, AtNode
    <3> QED  BY <1>2, <3>1, <3>2 DEF JobFits, AtNode
  <2>3. j.op \in {"list_search", "list_delete"} => FirstIn(S, j.value) = {}
    BY <1>4, <1>6, <2>1, <2>2 DEF FirstIn
  <2>4. j.op = "list_count_nodes" => j.seen = DataFrom(S, 1, Len(S))
    BY <1>2, <1>4, <1>6, <2>1 DEF Counting, Begins, Asked, AtNode
  <2>5. j.op = "list_display_range" =>
           \E b \in Begins(j, S) : /\ {m \in WhereIn(S, j.stop) : b <= m} = {}
                                   /\ j.seen = DataFrom(S, b, Len(S))
    <3> SUFFICES ASSUME j.op = "list_display_range"
                 PROVE  \E b \in Begins(j, S) : /\ {m \in WhereIn(S, j.stop) : b <= m} = {}
                                                /\ j.seen = DataFrom(S, b, Len(S))
      OBVIOUS
    <3>1. PICK b \in Begins(j, S) : /\ j.seen = DataFrom(S, b, len)
                                    /\ \A m \in b .. len : S[m].node # j.stop
      BY <1>6, <2>1 DEF Counting
    <3>2. {m \in WhereIn(S, j.stop) : b <= m} = {}
      <4> SUFFICES ASSUME NEW m \in 1 .. len, S[m].node = j.stop, b <= m PROVE FALSE
        BY <1>4 DEF WhereIn
      <4>1. m \in b .. len
        BY <1>3, <1>7
      <4> QED  BY <3>1, <4>1
    <3> QED  BY <1>4, <3>1, <3>2
  <2>6. Answered(j, S, S, pool)
    BY <1>8, <2>2, <2>3, <2>4, <2>5 DEF Answered
  <2>7. Doing("unlock", j, S, s, cells, pool)
    BY <1>4, <2>6 DEF Doing
  <2>8. pc' = [pc EXCEPT ![t] = "unlock"] /\ job' = [job EXCEPT ![t] = j]
    BY <1>2, <1>8 DEF Goto
  <2> QED  BY <1>2, <1>5, <2>7, <2>8
<1>9. j.at # NULL => /\ i \in 1 .. len /\ j.at = s[i] /\ S[i].node = j.at
                     /\ S[i].data = cells[j.at].data /\ i + 1 \in 1 .. len + 1
  BY <1>3, <1>4, <1>6
<1>10. j.at # NULL /\ j.op \in Counting =>
          \E b \in Begins(j, S) : /\ b <= i /\ Seen(j) = DataFrom(S, b, i)
                                  /\ \A m \in b .. i - 1 : S[m].node # j.stop
  <2> SUFFICES ASSUME j.at # NULL, j.op \in Counting
               PROVE  \E b \in Begins(j, S) : /\ b <= i /\ Seen(j) = DataFrom(S, b, i)
                                              /\ \A m \in b .. i - 1 : S[m].node # j.stop
    OBVIOUS
  <2>1. PICK b \in Begins(j, S) : /\ b <= i /\ j.seen = DataFrom(S, b, i - 1)
                                  /\ \A m \in b .. i - 1 : S[m].node # j.stop
    BY <1>6
  <2>2. Seen(j) = Append(DataFrom(S, b, i - 1), S[i].data)
    BY <1>9, <2>1 DEF Seen, Counting
  <2>3. b \in Nat /\ i \in Nat /\ b <= i
    BY <1>3, <1>7, <2>1
  <2>4. DataFrom(S, b, i) = Append(DataFrom(S, b, i - 1), S[i].data)
    BY ONLY <2>3, OneMoreSeen
  <2> QED  BY <2>1, <2>2, <2>4
<1>11. CASE /\ j.at # NULL /\ ~Found(j)
            /\ job' = [job EXCEPT ![t] = [j EXCEPT !.at = cells[j.at].next, !.seen = Seen(j)]]
            /\ UNCHANGED pc
  <2> PICK k : k = [j EXCEPT !.at = cells[j.at].next, !.seen = Seen(j)]
    OBVIOUS
  <2>1. /\ k.at = cells[j.at].next /\ k.op = j.op /\ k.node = j.node /\ k.stop = j.stop
        /\ k.value = j.value /\ k.new = j.new /\ k.target = j.target /\ k.seen = Seen(j)
    BY ONLY k = [j EXCEPT !.at = cells[j.at].next, !.seen = Seen(j)], <1>2 DEF JobType
  <2>2. Asked(k)
    BY <1>2, <2>1 DEF Asked, Seen, Counting
  <2>3. k.at = IF i + 1 = len + 1 THEN NULL ELSE s[i+1]
    BY <1>3, <1>9, <1>11, <2>1
  <2>4. k.op \in {"list_search", "list_delete"} /\ k.target = NULL =>
           \A m \in 1 .. (i + 1) - 1 : S[m].data # k.value
    <3> SUFFICES ASSUME k.op \in {"list_search", "list_delete"}, k.target = NULL,
                        NEW m \in 1 .. (i + 1) - 1
                 PROVE  S[m].data # k.value
      OBVIOUS
    <3>1. S[i].data # j.value
      BY <1>9, <1>11, <2>1 DEF Found
    <3>2. m = i \/ m \in 1 .. i - 1
      BY <1>3
    <3> QED  BY <1>6, <2>1, <3>1, <3>2
  <2>5. k.op \in Counting =>
           \E b \in Begins(k, S) :
              /\ b <= i + 1 /\ k.seen = DataFrom(S, b, (i + 1) - 1)
              /\ \A m \in b .. (i + 1) - 1 : S[m].node # k.stop
    <3> SUFFICES ASSUME k.op \in Counting
                 PROVE  \E b \in Begins(k, S) :
                           /\ b <= i + 1 /\ k.seen = DataFrom(S, b, (i + 1) - 1)
                           /\ \A m \in b .. (i + 1) - 1 : S[m].node # k.stop
      OBVIOUS
    <3>1. PICK b \in Begins(j, S) : /\ b <= i /\ Seen(j) = DataFrom(S, b, i)
                                    /\ \A m \in b .. i - 1 : S[m].node # j.stop
      BY <1>10, <1>11, <2>1
    <3>2. j.at # j.stop
      BY <1>2, <1>11, <2>1 DEF Found, Asked, Counting
    <3>3. b <= i + 1 /\ (i + 1) - 1 = i /\ \A m \in b .. i : m = i \/ m \in b .. i - 1
      BY <1>3, <1>7, <3>1
    <3>4. \A m \in b .. i : S[m].node # j.stop
      BY <1>9, <1>11, <3>1, <3>2, <3>3
    <3>5. b \in Begins(k, S)
      BY <2>1, <3>1 DEF Begins
    <3> QED  BY <2>1, <3>1, <3>3, <3>4, <3>5
  <2>6. Walked(k, S, s)
    BY <1>9, <1>11, <2>3, <2>4, <2>5 DEF Walked
  <2>7. Doing("walk", k, S, s, cells, pool)
    BY <1>2, <2>1, <2>6 DEF Doing
  <2>8. pc' = [pc EXCEPT ![t] = "walk"] /\ job' = [job EXCEPT ![t] = k]
    BY <1>2, <1>11
  <2> QED  BY <1>5, <2>2, <2>7, <2>8
<1>12. CASE /\ j.at # NULL /\ Found(j) /\ j.op = "list_delete" /\ j.target = NULL
            /\ job' = [job EXCEPT ![t] =
                         [j EXCEPT !.target = j.at, !.at = IF j.at = head THEN NULL ELSE head]]
            /\ Goto(t, IF j.at = head THEN "unlink" ELSE "walk")
  <2> PICK a : a = IF j.at = head THEN NULL ELSE head
    OBVIOUS
  <2> PICK label : label = IF j.at = head THEN "unlink" ELSE "walk"
    OBVIOUS
  <2> PICK k : k = [j EXCEPT !.target = j.at, !.at = a]
    OBVIOUS
  <2>1. /\ k.at = a /\ k.target = j.at /\ k.op = j.op /\ k.node = j.node /\ k.stop = j.stop
        /\ k.value = j.value /\ k.new = j.new /\ k.seen = j.seen
    BY ONLY k = [j EXCEPT !.target = j.at, !.at = a], <1>2 DEF JobType
  <2>2. Asked(k)
    BY <1>2, <2>1 DEF Asked
  <2>3. i \in FirstIn(S, k.value)
    <3>1. S[i].data = k.value
      BY <1>9, <1>12, <2>1 DEF Found
    <3>2. \A m \in 1 .. i - 1 : S[m].data # k.value
      BY <1>6, <1>12, <2>1
    <3> QED  BY <1>3, <1>4, <1>9, <1>12, <3>1, <3>2, FoundFirst
  <2>4. \E q \in FirstIn(S, k.value) : S[q].node = k.target
    BY <1>9, <1>12, <2>1, <2>3
  <2>5. label = "walk" => Walked(k, S, s)
    <3> SUFFICES ASSUME j.at # head PROVE Walked(k, S, s)
      OBVIOUS
    <3>1. 1 \in 1 .. len + 1 /\ 1 # len + 1 /\ k.at = s[1]
      BY <1>3, <1>9, <1>12, <2>1
    <3>2. k.target # NULL /\ k.op \notin Counting
      BY <1>12, <2>1 DEF Counting
    <3> QED  BY <3>1, <3>2 DEF Walked
  <2>6. k.new = NULL
    BY <1>2, <1>12, <2>1 DEF Walking
  <2>7. Doing(label, k, S, s, cells, pool)
    BY ONLY <2>4, <2>5, <2>6, label = (IF j.at = head THEN "unlink" ELSE "walk") DEF Doing
  <2>8. pc' = [pc EXCEPT ![t] = label] /\ job' = [job EXCEPT ![t] = k]
    BY <1>12 DEF Goto
  <2> QED  BY <1>5, <2>2, <2>7, <2>8
<1>13. CASE /\ j.at # NULL /\ Found(j) /\ ~(j.op = "list_delete" /\ j.target = NULL)
            /\ job' = [job EXCEPT ![t] = [j EXCEPT !.seen = Seen(j)]]
            /\ Goto(t, CASE j.op = "list_insert"        -> "link"
                         [] j.op = "list_insert_before" -> "alloc"
                         [] j.op = "list_delete"        -> "unlink"
                         [] j.op \in Reading            -> "unlock")
  <2> PICK label : label = CASE j.op = "list_insert"        -> "link"
                             [] j.op = "list_insert_before" -> "alloc"
                             [] j.op = "list_delete"        -> "unlink"
                             [] j.op \in Reading            -> "unlock"
    OBVIOUS
  <2> PICK k : k = [j EXCEPT !.seen = Seen(j)]
    OBVIOUS
  <2>1. /\ k.at = j.at /\ k.target = j.target /\ k.op = j.op /\ k.node = j.node
        /\ k.stop = j.stop /\ k.value = j.value /\ k.new = j.new /\ k.seen = Seen(j)
    BY ONLY k = [j EXCEPT !.seen = Seen(j)], <1>2 DEF JobType
  <2>2. Asked(k)
    BY <1>2, <2>1 DEF Asked, Seen, Counting
  <2>3. j.op \in {"list_insert", "list_insert_before", "list_delete"} \cup Reading
    BY <1>2 DEF JobFits, Writing
  <2>4. /\ j.op = "list_insert" => label = "link"
        /\ j.op = "list_insert_before" => label = "alloc"
        /\ j.op = "list_delete" => label = "unlink"
        /\ j.op \in Reading => label = "unlock"
    BY DEF Reading
  <2>5. ASSUME j.op = "list_insert" PROVE Doing(label, k, S, s, cells, pool)
    <3>1. label = "link" /\ j.new # NULL /\ cells[j.new].next = NULL
      BY <1>2, <2>4, <2>5 DEF Walking
    <3>2. cells[j.new].data = j.value % Width
      BY <1>2, <3>1 DEF Doing
    <3> QED  BY <2>1, <2>5, <3>1, <3>2 DEF Doing
  <2>6. ASSUME j.op = "list_insert_before" PROVE Doing(label, k, S, s, cells, pool)
    BY <2>4, <2>6 DEF Doing
  <2>7. ASSUME j.op = "list_delete" PROVE Doing(label, k, S, s, cells, pool)
    <3>1. label = "unlink" /\ j.target # NULL /\ k.op = "list_delete"
      BY <1>13, <2>1, <2>4, <2>7
    <3>2. \E q \in FirstIn(S, j.value) : S[q].node = j.target
      BY <1>2, <2>7, <3>1 DEF Doing
    <3> QED  BY <2>1, <3>1, <3>2 DEF Doing
  <2>8. ASSUME j.op \in Reading PROVE Doing(label, k, S, s, cells, pool)
    <3>1. label = "unlock" /\ j.op \notin {"list_insert"} \cup AtNode /\ j.op # "list_delete"
      BY <2>4, <2>8 DEF Reading, AtNode
    <3>2. j.target = NULL
      BY <1>2, <2>8 DEF Walking, Reading
    <3>3. j.op # "list_count_nodes"
      BY <1>13, <3>2 DEF Found
    <3>4. j.op = "list_search" => i \in FirstIn(S, j.value)
      <4> SUFFICES ASSUME j.op = "list_search" PROVE i \in FirstIn(S, j.value)
        OBVIOUS
      <4>1. S[i].data = j.value
        BY <1>9, <1>13, <3>2 DEF Found
      <4>2. \A m \in 1 .. i - 1 : S[m].data # j.value
        BY <1>6, <3>2
      <4> QED  BY <1>3, <1>4, <1>9, <1>13, <4>1, <4>2, FoundFirst
    <3>5. j.op = "list_display_range" =>
             \E b \in Begins(j, S) : i \in {m \in WhereIn(S, j.stop) : b <= m}
                                       /\ Seen(j) = DataFrom(S, b, i)
      <4> SUFFICES ASSUME j.op = "list_display_range"
                   PROVE  \E b \in Begins(j, S) : i \in {m \in WhereIn(S, j.stop) : b <= m}
                                                    /\ Seen(j) = DataFrom(S, b, i)
        OBVIOUS
      <4>1. j.at = j.stop
        BY <1>13, <3>2 DEF Found
      <4>2. i \in WhereIn(S, j.stop)
        BY <1>4, <1>9, <1>13, <4>1 DEF WhereIn
      <4>3. \E b \in Begins(j, S) : b <= i /\ Seen(j) = DataFrom(S, b, i)
        BY <1>10, <1>13 DEF Counting
      <4> QED  BY <4>2, <4>3
    <3>6. Begins(k, S) = Begins(j, S)
      BY <2>1 DEF Begins
    <3>7. k.op = "list_display_range" =>
            \E b \in Begins(k, S) :
               LET ends == {m \in WhereIn(S, k.stop) : b <= m}
               IN  \E m \in IF ends = {} THEN {Len(S)} ELSE ends : k.seen = DataFrom(S, b, m)
      BY <2>1, <3>5, <3>6
    <3>8. k.op = "list_search" => \E q \in FirstIn(S, k.value) : k.at = S[q].node
      BY <1>9, <1>13, <2>1, <3>4
    <3>9. Answered(k, S, S, pool)
      <4>1. k.op \notin {"list_insert"} \cup AtNode /\ k.op # "list_delete" /\ k.op # "list_count_nodes"
        BY <2>1, <3>1, <3>3
      <4> QED  BY ONLY <4>1, <3>7, <3>8 DEF Answered
    <3> QED  BY <1>4, <3>1, <3>9 DEF Doing
  <2>9. Doing(label, k, S, s, cells, pool)
    BY <2>3, <2>5, <2>6, <2>7, <2>8
  <2>10. pc' = [pc EXCEPT ![t] = label] /\ job' = [job EXCEPT ![t] = k]
    BY <1>13 DEF Goto
  <2> QED  BY <1>5, <2>2, <2>9, <2>10
<1> QED  BY <1>8, <1>11, <1>12, <1>13 DEF walk

(* What the pool has left, as long as a writing call has changed nothing. *)
LEMMA SpareIsSpare ==
  ASSUME IInv, NEW s, ListedAs(s), KnownAs(s), NEW t \in Threads,
         pc[t] \in {"alloc", "link", "unlink"}, job[t].op \in Writing
  PROVE  /\ settled = ContentsOf(s, cells) /\ Len(settled) = Len(s)
         /\ Len(s) \in Nat /\ DOMAIN settled = 1 .. Len(s)
         /\ \A i \in 1 .. Len(s) : settled[i].node = s[i] /\ s[i] # NULL
         /\ {settled[i].node : i \in DOMAIN settled} = InList(s)
         /\ used = InList(s) \cup Away(pc[t], job[t])
         /\ InList(s) \cap Away(pc[t], job[t]) = {}
<1>1. IsPath(s, head, cells) /\ used = InList(s) \cup AllAway /\ InList(s) \cap AllAway = {}
  BY DEF ListedAs
<1>2. AllAway = Away(pc[t], job[t])
  BY WriterHasAll
<1>3. /\ settled = ContentsOf(s, cells) /\ Len(settled) = Len(s)
      /\ DOMAIN settled = 1 .. Len(s)
      /\ \A i \in 1 .. Len(s) : settled[i].node = s[i]
  BY NothingNewYet, InTouch
<1>4. /\ Len(s) \in Nat /\ InList(s) = {s[i] : i \in 1 .. Len(s)}
      /\ \A i \in 1 .. Len(s) : s[i] # NULL
  BY <1>1, PathPositions
<1> QED  BY <1>1, <1>2, <1>3, <1>4

LEMMA alloc_Known ==
  ASSUME IInv, NEW s, ListedAs(s), KnownAs(s), NEW t \in Threads, alloc(t)
  PROVE  KnownAs(s)'
<1> PICK j : j = job[t]
  OBVIOUS
<1> PICK S : S = settled
  OBVIOUS
<1> DEFINE next == CASE j.op = "list_insert"        -> NULL
                     [] j.op = "list_insert_after"  -> cells[j.node].next
                     [] j.op = "list_insert_before" -> j.node
           from == CASE j.op = "list_insert"        -> head
                     [] j.op = "list_insert_after"  -> j.node
                     [] j.op = "list_insert_before" -> j.at
<1>1. pc[t] = "alloc" /\ UNCHANGED <<pool, settled>>
  BY DEF alloc
<1>2. /\ j \in JobType /\ JobFits("alloc", j) /\ Marked("alloc", j, mark[t], s, cells, Mine[t])
      /\ IsPath(s, head, cells) /\ Asked(j) /\ cells \in CellsType /\ pool \subseteq Nodes
      /\ job = [job EXCEPT ![t] = j] /\ pc = [pc EXCEPT ![t] = "alloc"]
  BY <1>1, OneThread, AskedOfOne
<1>3. j.op \in {"list_insert", "list_insert_after", "list_insert_before"} /\ j.op \in Writing
  BY <1>2 DEF JobFits, AtNode, Writing
<1>4. /\ S = ContentsOf(s, cells) /\ Len(S) = Len(s) /\ Len(s) \in Nat /\ DOMAIN S = 1 .. Len(s)
      /\ \A i \in 1 .. Len(s) : S[i].node = s[i] /\ s[i] # NULL
      /\ SpareOf(S, pool) = pool \ used /\ used = InList(s)
  <2>1. Away(pc[t], job[t]) = {}
    BY <1>1, NothingAway
  <2> QED  BY <1>1, <1>3, <2>1, SpareIsSpare DEF SpareOf
<1>5. CASE UNCHANGED <<cells, used, pc, job>>
  <2>1. Doing("alloc", j, settled, s, cells, pool)
    BY DEF Doing
  <2>2. /\ pc' = [pc EXCEPT ![t] = "alloc"] /\ job' = [job EXCEPT ![t] = j]
        /\ UNCHANGED <<cells, pool, settled>>
        /\ pc[t] \notin {"free", "unlock"} /\ Asked(j)
    BY <1>1, <1>2, <1>5
  <2> QED  BY ONLY IInv, KnownAs(s), t \in Threads, <2>1, <2>2, StaysKnown
<1>6. CASE /\ pool \ used = {} /\ Goto(t, "unlock") /\ UNCHANGED <<cells, used, job>>
  <2>1. \E i : i \in Places(j, S)
    <3>1. CASE j.op = "list_insert"
      BY <3>1 DEF Places
    <3>2. CASE j.op \in AtNode
      <4>1. j.node \in InList(s)
        BY <1>2, <3>2 DEF JobFits, Marked
      <4>2. PICK i \in 1 .. Len(s) : s[i] = j.node
        BY <1>2, <4>1, PathPositions
      <4>3. i \in WhereIn(S, j.node)
        BY <1>4, <4>2 DEF WhereIn
      <4> QED  BY <3>2, <4>3 DEF Places, AtNode
    <3> QED  BY <1>3, <3>1, <3>2 DEF AtNode
  <2>2. Answered(j, S, S, pool)
    BY <1>3, <1>4, <1>6, <2>1 DEF Answered
  <2>3. Doing("unlock", j, settled, s, cells, pool)
    BY <1>4, <2>2 DEF Doing
  <2>4. /\ pc' = [pc EXCEPT ![t] = "unlock"] /\ job' = [job EXCEPT ![t] = j]
        /\ UNCHANGED <<cells, pool, settled>>
        /\ pc[t] \notin {"free", "unlock"} /\ Asked(j)
    BY <1>1, <1>2, <1>6 DEF Goto
  <2> QED  BY ONLY IInv, KnownAs(s), t \in Threads, <2>3, <2>4, StaysKnown
<1>7. CASE /\ \E c \in pool \ used :
                 /\ used' = used \cup {c}
                 /\ cells' = [cells EXCEPT ![c] = [data |-> Stored(j.value), next |-> next]]
                 /\ job' = [job EXCEPT ![t] = [j EXCEPT !.new = c, !.at = from]]
           /\ Goto(t, IF j.op = "list_insert" /\ head # NULL THEN "walk" ELSE "link")
  <2>1. PICK label : label = IF j.op = "list_insert" /\ head # NULL THEN "walk" ELSE "link"
    OBVIOUS
  <2>2. PICK c \in pool \ used :
           /\ cells' = [cells EXCEPT ![c] = [data |-> Stored(j.value), next |-> next]]
           /\ job' = [job EXCEPT ![t] = [j EXCEPT !.new = c, !.at = from]]
    BY <1>7
  <2> PICK k : k = [j EXCEPT !.new = c, !.at = from]
    OBVIOUS
  <2>3. /\ k.at = from /\ k.new = c /\ k.op = j.op /\ k.node = j.node /\ k.stop = j.stop
        /\ k.value = j.value /\ k.target = j.target /\ k.seen = j.seen
    <3> HIDE DEF from
    <3> QED  BY ONLY k = [j EXCEPT !.new = c, !.at = from], <1>2 DEF JobType
  <2>4. Asked(k)
    BY <1>2, <2>3 DEF Asked
  <2>5. c \notin InList(s) /\ c \in Nodes
    BY <1>2, <1>4
  <2>6. /\ cells'[c].next = next /\ cells'[c].data = j.value % Width
        /\ \A x \in InList(s) : cells'[x] = cells[x]
    <3> PICK d, m : d = Stored(j.value) /\ m = next
      OBVIOUS
    <3>1. cells' = [cells EXCEPT ![c] = [data |-> d, next |-> m]]
      BY <2>2
    <3>2. cells'[c].next = m /\ cells'[c].data = d /\ \A x \in InList(s) : cells'[x] = cells[x]
      BY ONLY <1>2, <2>5, <3>1 DEF CellsType
    <3>3. d = j.value % Width
      BY DEF Stored
    <3> QED  BY <3>2, <3>3
  <2>7. ContentsOf(s, cells') = ContentsOf(s, cells)
    BY <2>6 DEF ContentsOf, InList
  <2>8. label = "walk" => Walked(k, S, s)
    <3> SUFFICES ASSUME j.op = "list_insert", head # NULL PROVE Walked(k, S, s)
      BY <2>1
    <3>1. k.at = head /\ k.op \notin {"list_search", "list_delete"} \cup Counting
      BY <2>3 DEF Counting
    <3>2. Len(s) # 0 /\ head = s[1]
      BY <1>2, PathPositions
    <3>3. 1 \in 1 .. Len(s) + 1 /\ 1 # Len(s) + 1
      BY <1>4, <3>2
    <3> QED  BY <3>1, <3>2, <3>3 DEF Walked
  <2>9. label = "link" =>
          /\ k.op = "list_insert" => cells'[k.new].next = NULL
          /\ k.op = "list_insert_after" => k.at = k.node
          /\ k.op = "list_insert_before" => cells'[k.new].next = k.node
    BY <2>3, <2>6
  <2>10. Doing(label, k, settled, s, cells', pool)
    <3>1. label \in {"walk", "link"} /\ k.op # "list_delete"
      BY <1>3, <2>1, <2>3
    <3>2. cells'[k.new].data = k.value % Width
      BY <2>3, <2>6
    <3> QED  BY ONLY S = settled, <2>8, <2>9, <3>1, <3>2 DEF Doing
  <2>11. /\ pc' = [pc EXCEPT ![t] = label] /\ job' = [job EXCEPT ![t] = k]
         /\ k.op = job[t].op /\ UNCHANGED <<pool, settled>>
         /\ settled = ContentsOf(s, cells')
         /\ pc[t] \notin {"idle", "lock"} /\ job[t].op \in Writing
    BY <1>1, <1>3, <1>4, <1>7, <2>1, <2>2, <2>3, <2>7 DEF Goto
  <2> QED  BY ONLY IInv, KnownAs(s), t \in Threads, <2>4, <2>10, <2>11, WriterKnown
<1> QED  BY <1>5, <1>6, <1>7 DEF alloc

LEMMA link_Known ==
  ASSUME IInv, NEW s, ListedAs(s), KnownAs(s), NEW t \in Threads, link(t)
  PROVE  \E r : ListedAs(r)' /\ KnownAs(r)'
<1> PICK j : j = job[t]
  OBVIOUS
<1> PICK S : S = settled
  OBVIOUS
<1> PICK n : n = j.new
  OBVIOUS
<1>1. /\ pc[t] = "link" /\ pc' = [pc EXCEPT ![t] = "unlock"] /\ SetNext(j.at, n)
      /\ UNCHANGED <<pool, used, job, settled>>
  BY DEF link, Goto
<1>2. /\ j \in JobType /\ JobFits("link", j) /\ Placed("link", j, s, head, cells)
      /\ IsPath(s, head, cells) /\ Asked(j) /\ Doing("link", j, S, s, cells, pool)
      /\ job = [job EXCEPT ![t] = j] /\ cells \in CellsType
      /\ used \subseteq pool /\ pool \subseteq Nodes /\ TypeOK
  BY <1>1, OneThread, AskedOfOne DEF IInv
<1>3. /\ j.op \in {"list_insert", "list_insert_after", "list_insert_before"} /\ j.op \in Writing
      /\ n # NULL /\ j.at \in Pointer
      /\ j.op \in AtNode => j.node # NULL
  BY <1>2 DEF JobFits, AtNode, Writing, Placed, JobType
<1>4. /\ S = ContentsOf(s, cells) /\ Len(S) = Len(s) /\ Len(s) \in Nat /\ DOMAIN S = 1 .. Len(s)
      /\ \A i \in 1 .. Len(s) : S[i].node = s[i] /\ s[i] # NULL
      /\ SpareOf(S, pool) = pool \ InList(s) /\ n \in pool /\ n \notin InList(s)
  <2>1. Away(pc[t], job[t]) = {n}
    <3>1. Away("link", j) = {j.new}
      BY <1>3 DEF Away
    <3> QED  BY <1>1, <3>1
  <2> QED  BY <1>1, <1>2, <1>3, <2>1, SpareIsSpare DEF SpareOf
<1>5. /\ cells[n].data = j.value % Width
      /\ j.op = "list_insert" => cells[n].next = NULL
      /\ j.op = "list_insert_after" => j.at = j.node
      /\ j.op = "list_insert_before" => cells[n].next = j.node
  <2>1. Doing("link", j, S, s, cells, pool) /\ j.new # NULL /\ n = j.new
    BY <1>2, <1>3
  <2> QED  BY ONLY <2>1 DEF Doing
<1>6. PICK i \in 1 .. Len(s) + 1 :
         /\ j.at = IF i = 1 THEN NULL ELSE s[i-1]
         /\ cells[n].next = IF i = Len(s) + 1 THEN NULL ELSE s[i]
         /\ ListedAs(InsertAt(s, i, n))'
  BY link_Listed
<1> PICK r : r = InsertAt(s, i, n)
  OBVIOUS
<1>7. cells' \in CellsType /\ \A x \in Nodes : cells'[x].data = cells[x].data
  <2>1. n \in Pointer
    BY <1>2, <1>4 DEF Pointer
  <2>2. TypeOK /\ j.at \in Pointer /\ SetNext(j.at, n)
    BY <1>1, <1>2, <1>3
  <2>3. cells' \in CellsType
    BY ONLY <2>1, <2>2, PointerSet
  <2>4. \A x \in Nodes : cells'[x].data = cells[x].data
    BY ONLY <2>2, DataStays
  <2> QED  BY <2>3, <2>4
<1>8. ContentsOf(r, cells') = InsertAt(S, i, [node |-> n, data |-> j.value % Width])
  <2>1. PICK c2 : c2 = cells'
    OBVIOUS
  <2>2. c2 \in CellsType /\ \A x \in Nodes : c2[x].data = cells[x].data
    BY <1>7, <2>1
  <2>3. n \in Nodes
    BY <1>2, <1>4
  <2>4. ContentsOf(InsertAt(s, i, n), c2) =
          InsertAt(ContentsOf(s, cells), i, [node |-> n, data |-> cells[n].data])
    BY <1>2, <2>2, <2>3, ContentsLengthened
  <2>5. cells[n].data = j.value % Width
    BY <1>5
  <2> QED  BY <1>4, <2>1, <2>4, <2>5
<1>9. i \in Places(j, S)
  <2>1. CASE j.op = "list_insert"
    <3>1. cells[n].next = NULL
      BY <1>5, <2>1
    <3>2. i = Len(s) + 1
      BY <1>4, <1>6, <3>1
    <3> QED  BY <1>4, <2>1, <3>2 DEF Places
  <2>2. CASE j.op = "list_insert_after"
    <3>1. j.at = j.node /\ j.node # NULL
      BY <1>3, <1>5, <2>2 DEF AtNode
    <3>2. i - 1 \in 1 .. Len(s) /\ s[i-1] = j.node /\ i = (i - 1) + 1
      BY <1>4, <1>6, <3>1
    <3>3. i - 1 \in WhereIn(S, j.node)
      BY <1>4, <3>2 DEF WhereIn
    <3> QED  BY <2>2, <3>2, <3>3 DEF Places
  <2>3. CASE j.op = "list_insert_before"
    <3>1. cells[n].next = j.node /\ j.node # NULL
      BY <1>3, <1>5, <2>3 DEF AtNode
    <3>2. i \in 1 .. Len(s) /\ s[i] = j.node
      BY <1>4, <1>6, <3>1
    <3>3. i \in WhereIn(S, j.node)
      BY <1>4, <3>2 DEF WhereIn
    <3> QED  BY <2>3, <3>3 DEF Places
  <2> QED  BY <1>3, <2>1, <2>2, <2>3
<1>10. Answered(j, S, ContentsOf(r, cells'), pool)
  <2>1. n \in SpareOf(S, pool)
    BY <1>4
  <2> QED  BY <1>3, <1>8, <1>9, <2>1 DEF Answered
<1>11. Doing("unlock", j, settled, r, cells', pool)
  BY <1>10 DEF Doing
<1>12. KnownAs(r)'
  <2>1. /\ pc' = [pc EXCEPT ![t] = "unlock"] /\ job' = [job EXCEPT ![t] = j]
        /\ j.op = job[t].op /\ UNCHANGED <<pool, settled>> /\ Asked(j)
        /\ pc[t] \notin {"idle", "lock"} /\ job[t].op \in Writing
    BY <1>1, <1>2, <1>3
  <2> QED  BY ONLY IInv, KnownAs(s), t \in Threads, <1>11, <2>1, WriterKnown
<1>13. ListedAs(r)'
  BY <1>6
<1> QED  BY <1>12, <1>13

LEMMA unlink_Known ==
  ASSUME IInv, NEW s, ListedAs(s), KnownAs(s), NEW t \in Threads, unlink(t)
  PROVE  \E r : ListedAs(r)' /\ KnownAs(r)'
<1> PICK j : j = job[t]
  OBVIOUS
<1> PICK S : S = settled
  OBVIOUS
<1>1. /\ pc[t] = "unlink" /\ pc' = [pc EXCEPT ![t] = "free"]
      /\ SetNext(j.at, cells[j.target].next)
      /\ UNCHANGED <<pool, job, settled>>
  BY DEF unlink, Goto
<1>2. /\ j \in JobType /\ JobFits("unlink", j) /\ IsPath(s, head, cells)
      /\ Asked(j) /\ Doing("unlink", j, S, s, cells, pool)
      /\ job = [job EXCEPT ![t] = j] /\ cells \in CellsType /\ TypeOK
  BY <1>1, OneThread, AskedOfOne DEF IInv
<1>3. /\ j.op = "list_delete" /\ j.op \in Writing /\ j.target # NULL
      /\ j.at \in Pointer /\ j.target \in Pointer
  BY <1>2 DEF JobFits, Writing, JobType
<1>4. /\ S = ContentsOf(s, cells) /\ Len(s) \in Nat /\ DOMAIN S = 1 .. Len(s)
      /\ \A i \in 1 .. Len(s) : S[i].node = s[i]
  BY <1>1, <1>3, SpareIsSpare
<1>5. PICK q \in FirstIn(S, j.value) : S[q].node = j.target
  <2>1. Doing("unlink", j, S, s, cells, pool) /\ j.op = "list_delete" /\ j.target # NULL
    BY <1>2, <1>3
  <2> QED  BY ONLY <2>1 DEF Doing
<1>6. PICK i \in 1 .. Len(s) : job[t].target = s[i] /\ ListedAs(RemoveAt(s, i))'
  BY unlink_Listed
<1> PICK r : r = RemoveAt(s, i)
  OBVIOUS
<1>7. q = i
  <2>1. q \in 1 .. Len(s) /\ s[q] = s[i]
    BY <1>4, <1>5, <1>6 DEF FirstIn
  <2> QED  BY <1>2, <2>1, PathPositions
<1>8. cells' \in CellsType /\ \A x \in Nodes : cells'[x].data = cells[x].data
  <2>1. TypeOK /\ j.at \in Pointer
    BY <1>2, <1>3
  <2>2. cells[j.target].next \in Pointer
    BY <1>2, <1>3, NodeTyped
  <2>3. cells' \in CellsType
    BY ONLY <1>1, <2>1, <2>2, PointerSet
  <2>4. \A x \in Nodes : cells'[x].data = cells[x].data
    BY ONLY <1>1, <2>1, DataStays
  <2> QED  BY <2>3, <2>4
<1>9. ContentsOf(r, cells') = RemoveAt(S, q)
  <2>1. PICK c2 : c2 = cells'
    OBVIOUS
  <2>2. c2 \in CellsType /\ \A x \in Nodes : c2[x].data = cells[x].data
    BY <1>8, <2>1
  <2>3. ContentsOf(RemoveAt(s, i), c2) = RemoveAt(ContentsOf(s, cells), i)
    BY <1>2, <2>2, ContentsShortened
  <2> QED  BY <1>4, <1>7, <2>1, <2>3
<1>10. Doing("free", j, settled, r, cells', pool)
  BY <1>9 DEF Doing
<1>11. KnownAs(r)'
  <2>1. /\ pc' = [pc EXCEPT ![t] = "free"] /\ job' = [job EXCEPT ![t] = j]
        /\ j.op = job[t].op /\ UNCHANGED <<pool, settled>> /\ Asked(j)
        /\ pc[t] \notin {"idle", "lock"} /\ job[t].op \in Writing
    BY <1>1, <1>2, <1>3
  <2> QED  BY ONLY IInv, KnownAs(s), t \in Threads, <1>10, <2>1, WriterKnown
<1>12. ListedAs(r)'
  BY <1>6
<1> QED  BY <1>11, <1>12

LEMMA free_Known ==
  ASSUME IInv, NEW s, KnownAs(s), NEW t \in Threads, free(t)
  PROVE  KnownAs(s)'
<1> PICK j : j = job[t]
  OBVIOUS
<1>1. /\ pc[t] = "free" /\ pc' = [pc EXCEPT ![t] = "unlock"]
      /\ UNCHANGED <<cells, pool, job, settled>>
  BY DEF free, Goto
<1>2. /\ JobFits("free", j) /\ Asked(j) /\ Doing("free", j, settled, s, cells, pool)
      /\ job \in [Threads -> JobType]
  BY <1>1, AskedOfOne DEF IInv, TypeOK, JobType
<1>3. j.op = "list_delete" /\ j.op \notin {"list_insert"} \cup AtNode
  BY <1>2 DEF JobFits, AtNode
<1>4. \E q \in FirstIn(settled, j.value) : ContentsOf(s, cells) = RemoveAt(settled, q)
  BY <1>2 DEF Doing
<1>5. Doing("unlock", j, settled, s, cells, pool)
  BY ONLY <1>3, <1>4 DEF Doing, Answered
<1>6. job' = [job EXCEPT ![t] = j] /\ j.op = job[t].op
  BY <1>1, <1>2
<1> QED  BY ONLY IInv, KnownAs(s), t \in Threads, <1>1, <1>2, <1>5, <1>6, StaysKnown

(* A call returns: what it did is the list from now on. *)
LEMMA unlock_Known ==
  ASSUME IInv, ListedAs(Chain), KnownAs(Chain), NEW t \in Threads, unlock(t),
         NEW s, s = Chain
  PROVE  KnownAs(s)' /\ settled' = ContentsOf(s, cells)
<1> PICK j : j = job[t]
  OBVIOUS
<1>1. /\ pc[t] = "unlock" /\ pc' = [pc EXCEPT ![t] = "idle"] /\ job' = [job EXCEPT ![t] = NoJob]
      /\ settled' = IF writer = t THEN ContentsOf(s, cells) ELSE settled
      /\ UNCHANGED <<cells, pool>>
  BY DEF unlock, Goto, Contents, ContentsOf
<1>2. LockMatchesCalls /\ JobFits("unlock", j) /\ KnownAs(s)
  BY <1>1 DEF IInv
<1>3. j.op \in Writing <=> writer = t
  BY <1>1, <1>2 DEF LockMatchesCalls
<1>4. settled' = ContentsOf(s, cells)
  <2>1. CASE writer = t
    BY <1>1, <2>1
  <2>2. CASE writer # t
    <3>1. NothingNew
      BY <1>1, <1>3, <2>2, NothingNewYet
    <3> QED  BY <1>1, <1>2, <2>2, <3>1 DEF KnownAs
  <2> QED  BY <2>1, <2>2
<1>5. /\ pc'[t] = "idle" /\ job'[t] = NoJob
      /\ \A u \in Threads : u # t => pc'[u] = pc[u] /\ job'[u] = job[u]
  BY <1>1 DEF IInv, TypeOK
<1>6. ASSUME NEW u \in Threads
      PROVE  /\ Asked(job'[u])
             /\ Doing(pc'[u], job'[u], settled', s, cells', pool')
  <2>1. CASE u = t
    <3>1. Asked(NoJob)
      BY OpsDiffer DEF NoJob, Job, Asked, Counting
    <3>2. Doing("idle", NoJob, settled', s, cells', pool')
      BY DEF Doing
    <3> QED  BY <1>5, <2>1, <3>1, <3>2
  <2>2. CASE u # t
    <3>1. Asked(job[u]) /\ Doing(pc[u], job[u], settled, s, cells, pool)
      BY <1>2 DEF KnownAs
    <3>2. CASE j.op \in Writing
      <4>1. pc[u] \in {"idle", "lock"}
        BY <1>1, <2>2, <3>2, OthersOutside
      <4>2. Doing(pc[u], job[u], settled', s, cells', pool')
        BY <3>1, <4>1, OutsideKnown
      <4> QED  BY <1>5, <2>2, <3>1, <4>2
    <3>3. CASE j.op \notin Writing
      <4>1. settled' = settled
        BY <1>1, <1>3, <3>3
      <4> QED  BY <1>1, <1>5, <2>2, <3>1, <4>1
    <3> QED  BY <3>2, <3>3
  <2> QED  BY <2>1, <2>2
<1>7. settled' = ContentsOf(s, cells')
  BY <1>1, <1>4
<1> QED  BY <1>4, <1>6, <1>7 DEF KnownAs

LEMMA Ends_Known ==
  ASSUME IInv, NEW s, KnownAs(s), list_init \/ list_cleanup
  PROVE  KnownAs(<<>>)'
<1>1. /\ \A t \in Threads : pc[t] = "idle"
      /\ settled' = <<>> /\ UNCHANGED <<cells, pc, job>>
  BY DEF list_init, list_cleanup, Joined
<1>2. ContentsOf(<<>>, cells') = <<>>
  BY DEF ContentsOf
<1>3. \A t \in Threads : Asked(job'[t]) /\ Doing(pc'[t], job'[t], settled', <<>>, cells', pool')
  BY <1>1 DEF KnownAs, Doing
<1> QED  BY <1>1, <1>2, <1>3 DEF KnownAs

LEMMA InitKnown == Init => KnownAs(Chain)
<1> SUFFICES ASSUME Init PROVE KnownAs(Chain)
  OBVIOUS
<1>1. IsPath(<<>>, head, cells)
  BY EmptyPath DEF Init
<1>2. Chain = <<>>
  BY <1>1, PathIsChain, ChainIsOfHead
<1>3. ContentsOf(<<>>, cells) = <<>> /\ settled = <<>>
  BY DEF ContentsOf, Init
<1>4. Asked(NoJob)
  BY OpsDiffer DEF NoJob, Job, Asked, Counting
<1>5. \A t \in Threads : Asked(job[t]) /\ Doing(pc[t], job[t], settled, <<>>, cells, pool)
  BY <1>4 DEF Init, Doing
<1> QED  BY <1>2, <1>3, <1>5 DEF KnownAs

LEMMA StepKnown == KnownInv /\ [Next]_vars => KnownInv'
<1> SUFFICES ASSUME IInv, ListedAs(Chain), KnownAs(Chain), [Next]_vars
             PROVE  ListedAs(Chain)' /\ KnownAs(Chain)'
  BY StepSound DEF KnownInv, ListInv
<1> PICK s : s = Chain
  OBVIOUS
<1>1. ListedAs(s) /\ KnownAs(s)
  OBVIOUS
<1>2. \E r : ListedAs(r)' /\ KnownAs(r)'
  <2>1. CASE UNCHANGED vars
    <3>1. UNCHANGED <<head, cells, used, pc, job, mark, settled, pool>>
      BY <2>1 DEF vars
    <3>2. ListedAs(s)'
      BY <1>1, <3>1 DEF ListedAs, AllAway
    <3>3. KnownAs(s)'
      BY <1>1, <3>1 DEF KnownAs, NothingNew
    <3> QED  BY <3>2, <3>3
  <2>2. CASE list_init \/ list_cleanup
    <3>1. ListedAs(<<>>)'
      BY <1>1, <2>2, Ends_Listed
    <3>2. KnownAs(<<>>)'
      BY <1>1, <2>2, Ends_Known
    <3> QED  BY <3>1, <3>2
  <2>3. ASSUME NEW t \in Threads, CallInsert(t) \/ CallDelete(t) \/ CallInsertAt(t) \/ CallRead(t)
        PROVE  \E r : ListedAs(r)' /\ KnownAs(r)'
    <3>1. ListedAs(s)'
      BY <1>1, <2>3, Calls_Listed
    <3>2. KnownAs(s)'
      BY <1>1, <2>3, Calls_Known
    <3> QED  BY <3>1, <3>2
  <2>4. ASSUME NEW t \in Threads, CallInsertAtNull(t)
        PROVE  \E r : ListedAs(r)' /\ KnownAs(r)'
    <3>1. ListedAs(s)'
      BY <1>1, <2>4, CallInsertAtNull_Listed
    <3>2. UNCHANGED <<cells, pc, job, settled, pool>>
      BY <2>4 DEF CallInsertAtNull
    <3>3. KnownAs(s)'
      BY <1>1, <3>2 DEF KnownAs, NothingNew
    <3> QED  BY <3>1, <3>3
  <2>5. ASSUME NEW t \in Threads, rdlock(t) \/ wrlock(t) \/ walk(t) \/ alloc(t)
        PROVE  \E r : ListedAs(r)' /\ KnownAs(r)'
    <3>1. ListedAs(s)'
      BY <1>1, <2>5, Locks_Listed, walk_Listed, alloc_Listed
    <3>2. KnownAs(s)'
      BY <1>1, <2>5, Locks_Known, walk_Known, alloc_Known
    <3> QED  BY <3>1, <3>2
  <2>6. ASSUME NEW t \in Threads, link(t) \/ unlink(t)
        PROVE  \E r : ListedAs(r)' /\ KnownAs(r)'
    BY <1>1, <2>6, link_Known, unlink_Known
  <2>7. ASSUME NEW t \in Threads, free(t) PROVE \E r : ListedAs(r)' /\ KnownAs(r)'
    <3>1. ListedAs(s)'
      BY <1>1, <2>7, free_Listed
    <3>2. KnownAs(s)'
      BY <1>1, <2>7, free_Known
    <3> QED  BY <3>1, <3>2
  <2>8. ASSUME NEW t \in Threads, unlock(t) PROVE \E r : ListedAs(r)' /\ KnownAs(r)'
    <3>1. ListedAs(s)'
      BY <1>1, <2>8, unlock_Listed
    <3>2. KnownAs(s)'
      BY <2>8, unlock_Known
    <3> QED  BY <3>1, <3>2
  <2> QED  BY <2>1, <2>2, <2>3, <2>4, <2>5, <2>6, <2>7, <2>8 DEF Next, Inside
<1>3. PICK r : ListedAs(r)' /\ KnownAs(r)'
  BY <1>2
<1> QED  BY <1>3, KnownSomehow

(* What a call that has the lock has found and done so far is what NodeList  *)
(* says of the list as the call found it, at each step of the walk of        *)
(* list_search, list_delete, list_count_nodes and list_display_range, and    *)
(* until a call that writes has returned.                                    *)
THEOREM CallsKnowWhatTheyDo == Spec => []KnownInv
<1>1. Init => KnownInv
  BY InitSound, InitListed, InitKnown DEF KnownInv, ListInv
<1> QED  BY <1>1, StepKnown, PTL DEF Spec

-----------------------------------------------------------------------------
LEMMA SerialPut ==
  ASSUME NEW i, NEW value,
         \/ SpareOf(settled, pool) = {} /\ settled' = settled
         \/ \E n \in SpareOf(settled, pool) :
               settled' = InsertAt(settled, i, [node |-> n, data |-> value % Width])
  PROVE  Serial!Put(i, value)
BY DEF Serial!Put, Serial!Spare, SpareOf, InsertAt, Serial!InsertAt

LEMMA SerialWhere == ASSUME NEW n PROVE Serial!Where(n) = WhereIn(settled, n)
BY DEF Serial!Where, WhereIn

LEMMA SerialFirst == ASSUME NEW v PROVE Serial!First(v) = FirstIn(settled, v)
BY DEF Serial!First, FirstIn

(* What is seen from one position to another is the data of that part of the list. *)
LEMMA SerialData ==
  ASSUME NEW S \in Seq(Item), NEW b \in Nat, NEW k \in Nat, 1 <= b, b <= k + 1, k <= Len(S)
  PROVE  Serial!DataOf(SubSeq(S, b, k)) = DataFrom(S, b, k)
<1> PICK R : R = SubSeq(S, b, k)
  OBVIOUS
<1> PICK len : len = k - b + 1
  OBVIOUS
<1>1. len \in Nat /\ DOMAIN R = 1 .. len /\ \A m \in 1 .. len : R[m] = S[b + m - 1]
  OBVIOUS
<1>2. Serial!DataOf(R) = [m \in 1 .. len |-> R[m].data]
  BY <1>1 DEF Serial!DataOf
<1>3. DataFrom(S, b, k) = [m \in 1 .. len |-> S[b + m - 1].data]
  BY DEF DataFrom
<1> QED  BY <1>1, <1>2, <1>3

LEMMA SerialAllData ==
  ASSUME NEW S \in Seq(Item)
  PROVE  Serial!DataOf(S) = DataFrom(S, 1, Len(S))
<1> PICK len : len = Len(S)
  OBVIOUS
<1>1. len \in Nat /\ DOMAIN S = 1 .. len /\ len - 1 + 1 = len
  OBVIOUS
<1>2. Serial!DataOf(S) = [m \in 1 .. len |-> S[m].data]
  BY <1>1 DEF Serial!DataOf
<1>3. DataFrom(S, 1, len) = [m \in 1 .. len |-> S[1 + m - 1].data]
  BY <1>1 DEF DataFrom
<1>4. \A m \in 1 .. len : 1 + m - 1 = m
  BY <1>1
<1> QED  BY <1>2, <1>3, <1>4

LEMMA unlock_Answers ==
  ASSUME IInv, ListedAs(Chain), KnownAs(Chain), NEW t \in Threads, unlock(t)
  PROVE  Serial!Next
<1> PICK j : j = job[t]
  OBVIOUS
<1> PICK s : s = Chain
  OBVIOUS
<1>1. /\ pc[t] = "unlock" /\ pool' = pool
      /\ done' = [op |-> j.op, node |-> j.node, stop |-> j.stop, value |-> j.value,
                  ret |-> IF j.op = "list_search" THEN j.at ELSE NULL, seen |-> j.seen]
  BY DEF unlock, Returned
<1>2. /\ j \in JobType /\ JobFits("unlock", j)
      /\ Asked(j) /\ Doing("unlock", j, settled, s, cells, pool)
  BY <1>1, OneThread, AskedOfOne
<1>3. Answered(j, settled, settled', pool)
  <2>1. settled' = ContentsOf(s, cells)
    BY unlock_Known
  <2> QED  BY <1>2, <2>1 DEF Doing
<1>4. j.op \notin Writing => NothingNew /\ settled' = settled
  <2> SUFFICES ASSUME j.op \notin Writing PROVE NothingNew /\ settled' = settled
    OBVIOUS
  <2>1. writer # t
    BY <1>1 DEF IInv, LockMatchesCalls
  <2> QED  BY <1>1, <2>1, NothingNewYet DEF unlock
<1>5. j.op \notin Writing => settled \in Seq(Item) /\ DOMAIN settled = 1 .. Len(settled)
  BY <1>4, InTouch
<1>6. j.node \in Nodes \cup {NULL} /\ j.stop \in Nodes \cup {NULL}
  BY <1>2 DEF JobType, Pointer
<1>7. CASE j.op = "list_insert"
  <2>1. j.value \in Values /\ j.node = NULL /\ j.stop = NULL /\ j.seen = <<>>
    BY <1>2, <1>7 DEF Asked, AtNode, Counting, Writing
  <2>2. Places(j, settled) = {Len(settled) + 1}
    BY <1>7 DEF Places
  <2>3. Serial!Put(Len(settled) + 1, j.value)
    BY <1>3, <1>7, <2>2, SerialPut DEF Answered
  <2>4. Serial!list_insert(j.value)
    BY <1>1, <1>7, <2>1, <2>3 DEF Serial!list_insert, Serial!Did
  <2> QED  BY <2>1, <2>4 DEF Serial!Next
<1>8. CASE j.op = "list_insert_after"
  <2>1. j.value \in Values /\ j.stop = NULL /\ j.seen = <<>>
    BY <1>2, <1>8 DEF Asked, AtNode, Counting, Writing
  <2>2. PICK i \in WhereIn(settled, j.node) :
           \/ SpareOf(settled, pool) = {} /\ settled' = settled
           \/ \E n \in SpareOf(settled, pool) :
                 settled' = InsertAt(settled, i + 1, [node |-> n, data |-> j.value % Width])
    BY <1>3, <1>8 DEF Answered, Places, AtNode
  <2>3. Serial!Put(i + 1, j.value)
    BY <2>2, SerialPut
  <2>4. Serial!list_insert_after(j.node, j.value)
    BY <1>1, <1>8, <2>1, <2>3, SerialWhere DEF Serial!list_insert_after, Serial!Did
  <2> QED  BY <1>6, <2>1, <2>4 DEF Serial!Next
<1>9. CASE j.op = "list_insert_before"
  <2>1. j.value \in Values /\ j.stop = NULL /\ j.seen = <<>>
    BY <1>2, <1>9 DEF Asked, AtNode, Counting, Writing
  <2>2. PICK i \in WhereIn(settled, j.node) :
           \/ SpareOf(settled, pool) = {} /\ settled' = settled
           \/ \E n \in SpareOf(settled, pool) :
                 settled' = InsertAt(settled, i, [node |-> n, data |-> j.value % Width])
    BY <1>3, <1>9 DEF Answered, Places, AtNode
  <2>3. Serial!Put(i, j.value)
    BY <2>2, SerialPut
  <2>4. Serial!list_insert_before(j.node, j.value)
    BY <1>1, <1>9, <2>1, <2>3, SerialWhere DEF Serial!list_insert_before, Serial!Did
  <2> QED  BY <1>6, <2>1, <2>4 DEF Serial!Next
<1>10. CASE j.op = "list_delete"
  <2>1. j.value \in Values /\ j.node = NULL /\ j.stop = NULL /\ j.seen = <<>>
    BY <1>2, <1>10 DEF Asked, AtNode, Counting, Writing
  <2>2. \/ FirstIn(settled, j.value) = {} /\ settled' = settled
        \/ \E q \in FirstIn(settled, j.value) : settled' = RemoveAt(settled, q)
    BY <1>3, <1>10 DEF Answered
  <2>3. Serial!list_delete(j.value)
    BY <1>1, <1>10, <2>1, <2>2, SerialFirst
    DEF Serial!list_delete, Serial!Did, RemoveAt, Serial!RemoveAt
  <2> QED  BY <2>1, <2>3 DEF Serial!Next
<1>11. CASE j.op = "list_search"
  <2>1. /\ j.value \in Values /\ j.node = NULL /\ j.stop = NULL /\ j.seen = <<>>
        /\ j.op \notin Writing
    BY <1>2, <1>11 DEF Asked, AtNode, Counting, Writing
  <2>2. \/ FirstIn(settled, j.value) = {} /\ j.at = NULL
        \/ \E q \in FirstIn(settled, j.value) : j.at = settled[q].node
    BY <1>3, <1>11 DEF Answered
  <2>3. Serial!list_search(j.value)
    BY <1>1, <1>4, <1>11, <2>1, <2>2, SerialFirst DEF Serial!list_search, Serial!Did
  <2> QED  BY <2>1, <2>3 DEF Serial!Next
<1>12. CASE j.op = "list_count_nodes"
  <2>1. j.value = 0 /\ j.node = NULL /\ j.stop = NULL /\ j.op \notin Writing
    BY <1>2, <1>12 DEF Asked, AtNode, Counting, Writing
  <2>2. j.seen = Serial!DataOf(settled)
    BY <1>3, <1>5, <1>12, <2>1, SerialAllData DEF Answered
  <2>3. Serial!list_count_nodes
    BY <1>1, <1>4, <1>12, <2>1, <2>2 DEF Serial!list_count_nodes, Serial!Did
  <2> QED  BY <2>3 DEF Serial!Next
<1>13. CASE j.op = "list_display_range"
  <2>1. j.value = 0 /\ j.op \notin Writing
    BY <1>2, <1>13 DEF Asked, AtNode, Counting, Writing
  <2> DEFINE ends(b) == {k \in WhereIn(settled, j.stop) : b <= k}
  <2>2. PICK b \in Begins(j, settled) :
           \E k \in IF ends(b) = {} THEN {Len(settled)} ELSE ends(b) :
              j.seen = DataFrom(settled, b, k)
    BY <1>3, <1>13 DEF Answered
  <2>3. PICK k \in IF ends(b) = {} THEN {Len(settled)} ELSE ends(b) :
              j.seen = DataFrom(settled, b, k)
    BY <2>2
  <2>4. b \in Nat /\ k \in Nat /\ 1 <= b /\ b <= k + 1 /\ k <= Len(settled)
    BY <1>5, <2>1 DEF Begins, WhereIn
  <2>5. j.seen = Serial!DataOf(SubSeq(settled, b, k))
    BY <1>5, <2>1, <2>3, <2>4, SerialData
  <2>6. b \in IF j.node = NULL THEN {1} ELSE Serial!Where(j.node)
    BY <2>2, SerialWhere DEF Begins
  <2>7. ends(b) = {q \in Serial!Where(j.stop) : b <= q}
    BY SerialWhere
  <2> HIDE DEF ends
  <2>8. Serial!Did("list_display_range", j.node, j.stop, 0, NULL,
                   Serial!DataOf(SubSeq(settled, b, k)))
    BY <1>1, <1>13, <2>1, <2>5 DEF Serial!Did
  <2>9. Serial!list_display_range(j.node, j.stop)
    BY <1>1, <1>4, <2>1, <2>3, <2>6, <2>7, <2>8 DEF Serial!list_display_range
  <2> QED  BY <1>6, <2>9 DEF Serial!Next
<1> QED
  <2>1. j.op \in Writing \cup Reading
    BY <1>2 DEF JobFits
  <2> QED  BY <1>7, <1>8, <1>9, <1>10, <1>11, <1>12, <1>13, <2>1 DEF Writing, Reading

(* Each step of the list is one of NodeList or changes nothing there. *)
LEMMA StepAnswers ==
  ASSUME KnownInv, KnownInv', [Next]_vars
  PROVE  [Serial!Next]_Serial!vars
<1>1. CASE UNCHANGED vars
  BY <1>1 DEF vars, Serial!vars
<1>2. CASE list_init
  <2>1. pool' \in SUBSET Nodes
    BY DEF KnownInv, ListInv, IInv, TypeOK
  <2>2. Serial!list_init
    BY <1>2, <2>1 DEF list_init, Returned, Serial!list_init, Serial!Did
  <2> QED  BY <2>2 DEF Serial!Next
<1>3. CASE list_cleanup
  <2>1. Serial!list_cleanup
    BY <1>3 DEF list_cleanup, Returned, Serial!list_cleanup, Serial!Did
  <2> QED  BY <2>1 DEF Serial!Next
<1>4. ASSUME NEW t \in Threads, CallInsertAtNull(t)
      PROVE  Serial!Next
  <2>1. PICK op \in {"list_insert_after", "list_insert_before"}, value \in Mine[t] :
           Returned(op, NULL, NULL, value, NULL, <<>>)
    BY <1>4 DEF CallInsertAtNull
  <2>2. value \in Values /\ UNCHANGED <<pool, settled>>
    BY <1>4, ListAssumption DEF CallInsertAtNull
  <2>3. CASE op = "list_insert_after"
    <3>1. Serial!list_insert_after(NULL, value)
      BY <2>1, <2>2, <2>3 DEF Returned, Serial!list_insert_after, Serial!Did
    <3> QED  BY <2>2, <3>1 DEF Serial!Next
  <2>4. CASE op = "list_insert_before"
    <3>1. Serial!list_insert_before(NULL, value)
      BY <2>1, <2>2, <2>4 DEF Returned, Serial!list_insert_before, Serial!Did
    <3> QED  BY <2>2, <3>1 DEF Serial!Next
  <2> QED  BY <2>3, <2>4
<1>5. ASSUME NEW t \in Threads, CallInsert(t) \/ CallDelete(t) \/ CallInsertAt(t) \/ CallRead(t)
      PROVE  UNCHANGED Serial!vars
  BY <1>5 DEF CallInsert, CallDelete, CallInsertAt, CallRead, Call, Serial!vars
<1>6. ASSUME NEW t \in Threads, Inside(t), ~unlock(t)
      PROVE  UNCHANGED Serial!vars
  BY <1>6 DEF Inside, rdlock, wrlock, walk, alloc, link, unlink, free, Serial!vars
<1>7. ASSUME NEW t \in Threads, unlock(t)
      PROVE  Serial!Next
  BY <1>7, unlock_Answers DEF KnownInv, ListInv
<1> QED  BY <1>1, <1>2, <1>3, <1>4, <1>5, <1>6, <1>7 DEF Next

(* The calls of linked_list.c do at once what they promise, to a list that is *)
(* a sequence of nodes with their data: whatever the threads do between      *)
(* rdlock or wrlock and unlock, nobody sees half of it.                       *)
THEOREM ListRefinesNodeList == Spec => ImplementsNodeList
<1>1. Init => Serial!Init
  BY DEF Init, Serial!Init
<1>2. KnownInv /\ KnownInv' /\ [Next]_vars => [Serial!Next]_Serial!vars
  BY StepAnswers
<1>3. Spec => []KnownInv
  BY CallsKnowWhatTheyDo
<1> QED  BY <1>1, <1>2, <1>3, PTL DEF Spec, Serial!Spec, ImplementsNodeList
=============================================================================

--------------------------- MODULE SqlDelayProofs ---------------------------
(***************************************************************************)
(* What holds of SqlDelay for any threads, any number of calls and any     *)
(* size of the queue: transactions are atomic, a thread's calls are in     *)
(* order, the main thread reads its own writes, and an orderly end misses  *)
(* nothing but what a connection took along.  The argument follows each    *)
(* statement from the call through the open transaction, the line, the job *)
(* and the connection.                                                     *)
(***************************************************************************)
EXTENDS SqlDelay, FiniteSetTheorems, SequenceTheorems, TLAPS

USE SqlDelayAssumption DEF SqlDelayAssumption

----------------------------------------------------------------------------
(* The inductive invariant.                                                *)

\* What is delayed, in the order in which it will be executed, if no query
\* comes in between: the queue, and what waits for room in it.
Line == IF waiting = NULL THEN queue ELSE Append(queue, waiting)

\* Where statements are: what an item writes, the current job, the line, the
\* transactions, and what the connection has executed.
Written(item) == IF item.kind = "query" THEN {} ELSE ToSet(item.ids)
InJob == IF job = NULL THEN {} ELSE Written(job)
InLine == UNION {Written(Line[i]) : i \in DOMAIN Line}
InTransactions == UNION {ToSet(tran) : tran \in delayed}
Performed == ToSet(durable) \cup ToSet(staged)
Dealt == Performed \cup failed \cup lost

\* A statement is one, and a transaction one that was delayed.
Sound(item) ==
    /\ item.kind = "statement" => Len(item.ids) = 1
    /\ item.kind = "transaction" => item.ids \in delayed

\* The place of the delay thread says what its job is; of a transaction it has
\* staged a prefix.  In autocommit mode nothing is staged.
WorkerPlace ==
    /\ worker \in ItemKind => job # NULL /\ job.kind = worker
    /\ worker \in {"test", "dequeue", "ended"} => job = NULL
    /\ worker = "statements" =>
          /\ job # NULL /\ job.kind = "transaction" /\ ~autocommit
          /\ Len(staged) <= Len(job.ids)
          /\ staged = SubSeq(job.ids, 1, Len(staged))
    /\ autocommit => staged = <<>>
    /\ job # NULL => Sound(job)

\* What waits is a write of the thread that holds nMutex, and an open
\* transaction has statements of its own thread.  Stop has emptied the line.
LinePlace ==
    /\ \A i \in DOMAIN Line : Sound(Line[i])
    /\ waiting # NULL => waiting.kind # "query"
                         /\ \A id \in Written(waiting) : owner[id] = nMutex
    /\ \A t \in Thread : \A id \in OpenTransaction(t) : owner[id] = t
    /\ phase # "running" => waiting = NULL
    /\ phase \notin {"running", "stop"} => Line = <<>>

\* Every statement has been called.
Known ==
    /\ Performed \cup InJob \cup InLine \cup InTransactions
         \subseteq DOMAIN owner
    /\ \A t \in Thread : OpenTransaction(t) \subseteq DOMAIN owner

\* A statement is in one transaction at most, and one of a transaction is
\* nowhere else: not in a statement by itself, and not staged outside it.
Apart ==
    /\ \A t \in Thread :
          OpenTransaction(t)
              \cap (Performed \cup InJob \cup InLine \cup InTransactions) = {}
    /\ \A r, s \in delayed : r = s \/ ToSet(r) \cap ToSet(s) = {}
    /\ \A i \in DOMAIN Line :
          Line[i].kind = "statement" =>
          Written(Line[i]) \cap InTransactions = {}
    /\ job # NULL /\ job.kind = "statement" => InJob \cap InTransactions = {}
    /\ worker # "statements" => ToSet(staged) \cap InTransactions = {}

\* The order of the calls of each thread, between sets of statements and
\* within a sequence; o tells whose they are.
Before(o, A, B) ==
    \A a \in A, b \in B : o[a] = o[b] /\ o[a] # NULL => a < b
Ascending(o, s) ==
    \A i, j \in DOMAIN s :
        i < j /\ o[s[i]] = o[s[j]] /\ o[s[i]] # NULL => s[i] < s[j]
Orderly(o, item) == item.kind # "query" => Ascending(o, item.ids)

\* Everything is in order within itself, and what is further on its way comes
\* first: durable, staged, the job, the line, the open transactions.
OrderedBy(o) ==
    /\ Ascending(o, durable) /\ Ascending(o, staged)
    /\ Before(o, ToSet(durable), ToSet(staged))
    /\ job # NULL => Orderly(o, job)
    /\ Before(o, ToSet(durable), InJob)
    /\ worker # "statements" => Before(o, ToSet(staged), InJob)
    /\ \A i \in DOMAIN Line :
          /\ Orderly(o, Line[i])
          /\ Before(o, Performed \cup InJob, Written(Line[i]))
          /\ \A j \in DOMAIN Line :
                i < j => Before(o, Written(Line[i]), Written(Line[j]))
    /\ \A t \in Thread :
          /\ m_tranQueues[t] # NULL => Ascending(o, m_tranQueues[t])
          /\ Before(o, Performed \cup InJob \cup InLine, OpenTransaction(t))
Ordered == OrderedBy(owner)

\* No statement is lost on the way, and what a query is to see is done, or
\* before it in the line.
Accounted ==
    /\ phase \notin {"halted", "crashed"} =>
          \A id \in DOMAIN owner :
              \/ id \in Dealt \cup InJob \cup InLine
              \/ \E t \in Thread : id \in OpenTransaction(t)
    /\ job # NULL /\ job.kind = "query" => job.ids \subseteq Dealt
    /\ \A i \in DOMAIN Line : Line[i].kind = "query" =>
          Line[i].ids \subseteq
              Dealt \cup InJob \cup UNION {Written(Line[j]) : j \in 1..(i - 1)}

\* The delay thread does not outlive the program.
Ended == phase \in {"halted", "crashed"} => worker = "ended"

Rest == LinePlace /\ Known /\ Apart /\ Ordered /\ Accounted

SqlDelayInv == TypeOK /\ WorkerPlace /\ Rest /\ Ended

----------------------------------------------------------------------------
(* Types.                                                                  *)

\* The program starts with every variable in its type.
LEMMA InitTypeOK == Init => TypeOK
  BY EmptySeq DEF Init, TypeOK

\* The bound on the calls is a number: a Database has finitely many queries
\* under way.
LEMMA QueriesCounted ==
  ASSUME TypeOK
  PROVE  QueriesUnderWay \in Nat
  <1>1. Len(results) \in Nat /\ Len(queue) \in Nat
          /\ DOMAIN queue = 1..Len(queue)
    BY DEF TypeOK
  <1> DEFINE asking == {i \in DOMAIN queue : queue[i].kind = "query"}
  <1>2. asking \in SUBSET (1..Len(queue)) /\ IsFiniteSet(1..Len(queue))
    BY <1>1, FS_Interval
  <1>3. Cardinality(asking) \in Nat
    BY <1>2, FS_Subset, FS_CardinalityType
  <1> QED
    BY <1>1, <1>3 DEF QueriesUnderWay

\* A call gets the next number, which no statement has had.
LEMMA NewTyped ==
  ASSUME TypeOK, NEW o \in Thread \cup {NULL}, NewStatement(o)
  PROVE  /\ New \in Statements /\ New \notin DOMAIN owner
         /\ owner' \in Seq(Thread \cup {NULL}) /\ Len(owner') <= MaxCalls
         /\ DOMAIN owner' = DOMAIN owner \cup {New} /\ owner'[New] = o
         /\ \A id \in DOMAIN owner : owner'[id] = owner[id] /\ id < New
  <1>1. /\ owner \in Seq(Thread \cup {NULL})
        /\ Len(owner) \in Nat /\ DOMAIN owner = 1..Len(owner)
    BY DEF TypeOK
  <1>2. New \in Statements
    BY <1>1, QueriesCounted DEF NewStatement, New, Statements
  <1>3. /\ owner' \in Seq(Thread \cup {NULL}) /\ Len(owner') = New
        /\ owner'[New] = o /\ \A id \in 1..Len(owner) : owner'[id] = owner[id]
    BY <1>1, AppendProperties DEF NewStatement, New
  <1>4. DOMAIN owner' = 1..New
    BY <1>3
  <1> QED
    BY <1>1, <1>2, <1>3, <1>4 DEF New, Statements

\* The queue takes an item that it has room for.
LEMMA EnqueueTyped ==
  ASSUME TypeOK, NEW item \in Item, HasRoom, queue' = Append(queue, item)
  PROVE  queue' \in Seq(Item) /\ Len(queue') <= QueueMax
  <1>1. queue \in Seq(Item)
    BY DEF TypeOK
  <1> QED
    BY <1>1, AppendProperties DEF HasRoom

\* SqlDelayThread::Delay leaves a bounded queue, and nMutex is kept exactly
\* while something waits.
LEMMA DelayTyped ==
  ASSUME TypeOK, NEW t \in Thread, NEW item \in Item, nMutex = NULL,
         Delay(t, item)
  PROVE  /\ nMutex' \in Thread \cup {NULL} /\ waiting' \in Item \cup {NULL}
         /\ nMutex' = NULL <=> waiting' = NULL
         /\ queue' \in Seq(Item) /\ Len(queue') <= QueueMax
  <1>1. CASE HasRoom
    <2>1. queue' \in Seq(Item) /\ Len(queue') <= QueueMax
      BY <1>1, EnqueueTyped DEF Delay
    <2> QED
      BY <1>1, <2>1 DEF Delay, TypeOK
  <1>2. CASE ~HasRoom
    BY <1>2 DEF Delay, TypeOK
  <1> QED
    BY <1>1, <1>2

\* What the delay thread executes is of the kind that its place says.
LEMMA JobTyped ==
  ASSUME TypeOK, WorkerPlace
  PROVE  /\ worker = "statement" =>
              job.ids \in Seq(Statements) /\ job.ids[1] \in Statements
         /\ worker \in {"transaction", "statements"} =>
              job.ids \in Seq(Statements)
         /\ worker = "query" => job.ids \in SUBSET Statements
  BY DEF TypeOK, WorkerPlace, Item, ItemKind, Sound

\* What is given up is a set of statements.
LEMMA GiveUpTyped ==
  ASSUME TypeOK, WorkerPlace,
         worker \in {"statement", "transaction", "statements"}, GiveUp
  PROVE  failed' \subseteq Statements
  <1>1. job.ids \in Seq(Statements) /\ failed \subseteq Statements
    BY JobTyped DEF TypeOK
  <1>2. ToSet(job.ids) \subseteq Statements
    BY <1>1, ElementOfSeq DEF ToSet
  <1> QED
    BY <1>1, <1>2 DEF GiveUp

\* An open transaction holds statements.
LEMMA OpenTyped ==
  ASSUME TypeOK, NEW t \in Thread
  PROVE  OpenTransaction(t) \subseteq Statements
  BY DEF TypeOK, OpenTransaction, ToSet

\* The staged and the durable statements stay sequences.
LEMMA PerformTyped ==
  ASSUME TypeOK, NEW id \in Statements
  PROVE  /\ Append(staged, id) \in Seq(Statements)
         /\ Perform(id) =>
              staged' \in Seq(Statements) /\ durable' \in Seq(Statements)
  <1>1. durable \in Seq(Statements) /\ staged \in Seq(Statements)
    BY DEF TypeOK
  <1>2. /\ Append(durable, id) \in Seq(Statements)
        /\ Append(staged, id) \in Seq(Statements)
    BY <1>1, AppendProperties
  <1> QED
    BY <1>1, <1>2, Zenon DEF Perform

\* What is staged can be made durable.
LEMMA CommitTyped ==
  ASSUME TypeOK
  PROVE  durable \o staged \in Seq(Statements) /\ <<>> \in Seq(Statements)
  <1>1. durable \in Seq(Statements) /\ staged \in Seq(Statements)
    BY DEF TypeOK
  <1> QED
    BY <1>1, ConcatProperties, EmptySeq

\* The part of TypeOK about what is TRUE or FALSE.
Flags == m_running \in BOOLEAN /\ active \in BOOLEAN /\ autocommit \in BOOLEAN

\* The flags of the delay thread and of the connection stay flags.
LEMMA NextFlags ==
  ASSUME Flags, Next
  PROVE  Flags'
  <1> USE DEF Flags, clientVars, threadVars, serverVars
  <1>1. CASE Clients
    BY <1>1, Zenon
       DEF Clients, Execute, BeginTransaction, CommitTransaction,
       RollbackTransaction, DirectExecute, TryStatement, Perform,
       RoomMade, AsyncQuery, ResultUpdate
  <1>2. CASE DelayThread
    BY <1>2, Zenon
       DEF DelayThread, TestRunning, Dequeue, ExecuteStatement, ExecuteQuery,
       StartTransaction, TransactionStatement, Commit, TryStatement,
       Perform, workerFrame
  <1>3. CASE HaltDelayThread \/ Stop \/ StopDeactivate \/ Halted \/ Crash
               \/ ConnectionLost \/ Over
    BY <1>3, Zenon
       DEF HaltDelayThread, Stop, StopDeactivate, Halted, Crash,
       ConnectionLost, Over, vars, endFrame
  <1> QED
    BY <1>1, <1>2, <1>3, Zenon DEF Next

\* The calls of the program's threads keep the types.
LEMMA ClientsTyped ==
  ASSUME TypeOK, Flags', Clients
  PROVE  TypeOK'
  <1> USE DEF Flags, clientVars, threadVars, serverVars
  <1>1. ASSUME NEW t \in Thread, Execute(t) PROVE TypeOK'
    <2>1. New \in Statements /\ owner' \in Seq(Thread \cup {NULL})
            /\ Len(owner') <= MaxCalls
      BY <1>1, NewTyped DEF Execute
    <2>2. CASE m_tranQueues[t] # NULL
      <3>1. m_tranQueues \in [Thread -> Seq(Statements) \cup {NULL}]
        BY DEF TypeOK
      <3>2. /\ m_tranQueues[t] \in Seq(Statements)
            /\ Append(m_tranQueues[t], New) \in Seq(Statements)
        BY <2>1, <2>2, <3>1, AppendProperties
      <3>3. m_tranQueues' = [m_tranQueues EXCEPT ![t] = Append(@, New)]
        BY <1>1, <2>2 DEF Execute
      <3>4. m_tranQueues' \in [Thread -> Seq(Statements) \cup {NULL}]
        BY <3>1, <3>2, <3>3
      <3> QED
        BY <1>1, <2>1, <2>2, <3>4 DEF Execute, TypeOK
    <2>3. CASE m_tranQueues[t] = NULL
      <3>1. [kind |-> "statement", ids |-> <<New>>] \in Item
        BY <2>1 DEF Item
      <3> QED
        BY <1>1, <2>1, <2>3, <3>1, DelayTyped DEF Execute, TypeOK
    <2> QED
      BY <2>2, <2>3
  <1>2. ASSUME NEW t \in Thread, BeginTransaction(t) \/ RollbackTransaction(t)
        PROVE TypeOK'
    <2>1. failed' \subseteq Statements
      BY <1>2, OpenTyped DEF BeginTransaction, RollbackTransaction, TypeOK
    <2>2. m_tranQueues \in [Thread -> Seq(Statements) \cup {NULL}]
      BY DEF TypeOK
    <2>3. m_tranQueues' \in [Thread -> Seq(Statements) \cup {NULL}]
      BY <1>2, <2>2, CommitTyped DEF BeginTransaction, RollbackTransaction
    <2> QED
      BY <1>2, <2>1, <2>3 DEF BeginTransaction, RollbackTransaction, TypeOK
  <1>3. ASSUME NEW t \in Thread, CommitTransaction(t) PROVE TypeOK'
    <2>1. m_tranQueues[t] \in Seq(Statements)
      BY <1>3 DEF CommitTransaction, TypeOK
    <2>2. [kind |-> "transaction", ids |-> m_tranQueues[t]] \in Item
      BY <2>1 DEF Item
    <2> QED
      BY <1>3, <2>1, <2>2, DelayTyped DEF CommitTransaction, TypeOK
  <1>4. ASSUME NEW t \in Thread, DirectExecute(t) PROVE TypeOK'
    <2>1. New \in Statements /\ owner' \in Seq(Thread \cup {NULL})
            /\ Len(owner') <= MaxCalls
      BY <1>4, NewTyped DEF DirectExecute
    <2>2. staged' \in Seq(Statements) /\ durable' \in Seq(Statements)
      BY <1>4, <2>1, PerformTyped DEF DirectExecute, TryStatement, TypeOK
    <2>3. failed' \subseteq Statements
      BY <1>4, <2>1, Zenon DEF DirectExecute, TryStatement, TypeOK
    <2> QED
      BY <1>4, <2>1, <2>2, <2>3 DEF DirectExecute, TypeOK
  <1>5. CASE RoomMade
    <2>1. waiting \in Item
      BY <1>5 DEF RoomMade, TypeOK
    <2>2. queue' \in Seq(Item) /\ Len(queue') <= QueueMax
      BY <1>5, <2>1, EnqueueTyped DEF RoomMade
    <2> QED
      BY <1>5, <2>2 DEF RoomMade, TypeOK
  <1>6. CASE AsyncQuery
    <2>1. MainDelayed \subseteq Statements
      BY DEF MainDelayed, TypeOK, Statements
    <2>2. [kind |-> "query", ids |-> MainDelayed] \in Item
      BY <2>1 DEF Item
    <2>3. queue' \in Seq(Item) /\ Len(queue') <= QueueMax
      BY <1>6, <2>2, EnqueueTyped DEF AsyncQuery
    <2> QED
      BY <1>6, <2>3 DEF AsyncQuery, TypeOK
  <1>7. CASE ResultUpdate
    BY <1>7 DEF ResultUpdate, TypeOK
  <1> QED
    BY <1>1, <1>2, <1>3, <1>4, <1>5, <1>6, <1>7 DEF Clients

\* The steps of SqlDelayThread::run keep the types.
LEMMA DelayThreadTyped ==
  ASSUME TypeOK, WorkerPlace, Flags', DelayThread
  PROVE  TypeOK'
  <1> USE DEF Flags, clientVars, threadVars, serverVars, workerFrame
  <1>1. CASE TestRunning
    BY <1>1 DEF TestRunning, TypeOK
  <1>2. CASE Dequeue
    <2>1. CASE active
      <3>1. queue \in Seq(Item) /\ queue # <<>>
        BY <1>2, <2>1 DEF Dequeue, TypeOK
      <3>2. queue' \in Seq(Item) /\ Len(queue') = Len(queue) - 1
              /\ job' \in Item
        BY <1>2, <2>1, <3>1, HeadTailProperties DEF Dequeue
      <3>3. worker' \in ItemKind
        BY <1>2, <2>1, <3>2 DEF Dequeue, Item, ItemKind
      <3> QED
        BY <1>2, <2>1, <3>1, <3>2, <3>3 DEF Dequeue, TypeOK
    <2>2. CASE ~active
      BY <1>2, <2>2 DEF Dequeue, TypeOK
    <2> QED
      BY <2>1, <2>2
  <1>3. CASE ExecuteStatement
    <2>1. /\ staged' \in Seq(Statements) /\ durable' \in Seq(Statements)
          /\ failed' \subseteq Statements
      BY <1>3, JobTyped, PerformTyped
         DEF ExecuteStatement, TryStatement, TypeOK
    <2> QED
      BY <1>3, <2>1 DEF ExecuteStatement, Done, TypeOK
  <1>4. CASE ExecuteQuery
    <2>1. results \in Seq([asked : SUBSET Statements,
            seen : SUBSET Statements])
      BY DEF TypeOK
    <2>2. job.ids \subseteq Statements
      BY <1>4, JobTyped DEF ExecuteQuery
    <2>3. PICK answer \in {[asked |-> job.ids,
                            seen |-> job.ids \cap ToSet(durable \o staged)],
                           [asked |-> {}, seen |-> {}]} :
            results' = Append(results, answer)
      BY <1>4 DEF ExecuteQuery
    <2>4. answer \in [asked : SUBSET Statements, seen : SUBSET Statements]
      BY <2>2, <2>3
    <2>5. results' \in Seq([asked : SUBSET Statements,
            seen : SUBSET Statements])
      BY <2>1, <2>3, <2>4, AppendProperties
    <2> QED
      BY <1>4, <2>5 DEF ExecuteQuery, Done, TypeOK
  <1>5. CASE StartTransaction
    <2>1. staged \in Seq(Statements) /\ durable \in Seq(Statements)
      BY DEF TypeOK
    <2>2. staged' \in Seq(Statements) /\ durable' \in Seq(Statements)
      BY <1>5, <2>1, CommitTyped DEF StartTransaction
    <2>3. failed' \subseteq Statements
      BY <1>5, GiveUpTyped DEF StartTransaction, TypeOK
    <2> QED
      BY <1>5, <2>2, <2>3 DEF StartTransaction, Done, TypeOK
  <1>6. CASE TransactionStatement
    <2>1. job.ids \in Seq(Statements) /\ Len(staged) \in Nat
      BY <1>6, JobTyped DEF TransactionStatement, TypeOK
    <2>2. Len(staged) < Len(job.ids) => job.ids[Len(staged) + 1] \in Statements
      BY <2>1, ElementOfSeq
    <2>3. staged' \in Seq(Statements)
      BY <1>6, <2>2, PerformTyped, CommitTyped DEF TransactionStatement
    <2>4. failed' \subseteq Statements
      BY <1>6, GiveUpTyped DEF TransactionStatement, TypeOK
    <2> QED
      BY <1>6, <2>3, <2>4 DEF TransactionStatement, Done, TypeOK
  <1>7. CASE Commit
    <2>1. staged \in Seq(Statements) /\ durable \in Seq(Statements)
      BY DEF TypeOK
    <2>2. staged' \in Seq(Statements) /\ durable' \in Seq(Statements)
      BY <1>7, <2>1, CommitTyped DEF Commit
    <2>3. failed' \subseteq Statements
      BY <1>7, GiveUpTyped DEF Commit, TypeOK
    <2> QED
      BY <1>7, <2>2, <2>3 DEF Commit, Done, TypeOK
  <1> QED
    BY <1>1, <1>2, <1>3, <1>4, <1>5, <1>6, <1>7 DEF DelayThread

\* Every step keeps the types.
LEMMA NextTypeOK ==
  ASSUME TypeOK, WorkerPlace, Next
  PROVE  TypeOK'
  <1>1. Flags'
    BY NextFlags DEF Flags, TypeOK
  <1> USE <1>1 DEF Flags, clientVars, threadVars, serverVars, endFrame
  <1>2. CASE HaltDelayThread \/ Stop \/ StopDeactivate
    BY <1>2 DEF HaltDelayThread, Stop, StopDeactivate, TypeOK
  <1>3. CASE Crash
    BY <1>3, EmptySeq DEF Crash, TypeOK
  <1>4. CASE Over
    BY <1>4 DEF Over, vars, TypeOK
  <1>5. lost \cup ToSet(staged) \subseteq Statements
    <2>1. staged \in Seq(Statements) /\ lost \subseteq Statements
      BY DEF TypeOK
    <2> QED
      BY <2>1, ElementOfSeq DEF ToSet
  <1>6. CASE Halted \/ ConnectionLost
    BY <1>5, <1>6, EmptySeq DEF Halted, ConnectionLost, TypeOK
  <1> QED
    BY <1>2, <1>3, <1>4, <1>6, ClientsTyped, DelayThreadTyped DEF Next

----------------------------------------------------------------------------
(* The line of what is delayed.                                            *)

\* The line is the queue, with what waits for room in it at the end.
LEMMA LineTyped ==
  ASSUME TypeOK
  PROVE  /\ Line \in Seq(Item) /\ Len(Line) \in Nat
         /\ DOMAIN Line = 1..Len(Line)
         /\ nMutex = NULL => Line = queue
  <1>1. /\ queue \in Seq(Item) /\ waiting \in Item \cup {NULL}
        /\ nMutex = NULL <=> waiting = NULL
    BY DEF TypeOK
  <1>2. Line \in Seq(Item)
    BY <1>1, AppendProperties DEF Line
  <1> QED
    BY <1>1, <1>2 DEF Line

\* The line depends on the queue and on what waits, and on nothing else.
LEMMA LineKept ==
  ASSUME UNCHANGED <<queue, waiting>>
  PROVE  Line' = Line /\ InLine' = InLine
  BY DEF Line, InLine

\* Delay puts an item at the end of the line, be there room or not.
LEMMA LineAppended ==
  ASSUME TypeOK, NEW t \in Thread, NEW item \in Item, nMutex = NULL,
         Delay(t, item)
  PROVE  /\ Line' = Append(Line, item)
         /\ Len(Line') = Len(Line) + 1 /\ Line'[Len(Line) + 1] = item
         /\ DOMAIN Line' = DOMAIN Line \cup {Len(Line) + 1}
         /\ \A i \in DOMAIN Line : Line'[i] = Line[i] /\ i < Len(Line) + 1
         /\ InLine' = InLine \cup Written(item)
  <1>1. waiting = NULL /\ Line = queue
    BY LineTyped DEF TypeOK
  <1>2. Line' = Append(Line, item)
    BY <1>1 DEF Delay, Line
  <1>3. /\ Len(Line') = Len(Line) + 1 /\ Line'[Len(Line) + 1] = item
        /\ \A i \in 1..Len(Line) : Line'[i] = Line[i]
    BY <1>2, LineTyped, AppendProperties
  <1>4. DOMAIN Line' = 1..(Len(Line) + 1) /\ DOMAIN Line = 1..Len(Line)
          /\ Len(Line) \in Nat
    BY <1>2, LineTyped
  <1> QED
    BY <1>2, <1>3, <1>4 DEF InLine

\* When room is made, what waits joins the queue: the line is the same.
LEMMA LineMoved ==
  ASSUME TypeOK, RoomMade
  PROVE  Line' = Line /\ InLine' = InLine
  <1>1. Line' = Line
    BY DEF TypeOK, RoomMade, Line
  <1> QED
    BY <1>1 DEF InLine

\* The delay thread takes the first of the line.
LEMMA LineTaken ==
  ASSUME TypeOK, Dequeue, active
  PROVE  /\ 1 \in DOMAIN Line /\ job' = Line[1]
         /\ \A i \in DOMAIN Line' :
              i + 1 \in DOMAIN Line /\ Line'[i] = Line[i + 1]
         /\ \A i \in DOMAIN Line : i > 1 => i - 1 \in DOMAIN Line'
         /\ DOMAIN Line' \subseteq Nat \ {0}
         /\ InLine = Written(job') \cup InLine'
  <1>1. /\ queue \in Seq(Item) /\ waiting \in Item \cup {NULL}
        /\ waiting' = waiting
        /\ queue # <<>> /\ queue' = Tail(queue) /\ job' = Head(queue)
    BY DEF TypeOK, Dequeue, clientVars
  <1>2. /\ Len(queue) \in Nat \ {0} /\ queue' \in Seq(Item)
        /\ Len(queue') = Len(queue) - 1 /\ job' = queue[1]
        /\ \A i \in 1..Len(queue') : queue'[i] = queue[i + 1]
    BY <1>1, HeadTailProperties
  <1> DEFINE Shifted ==
        /\ 1 \in DOMAIN Line /\ job' = Line[1]
        /\ \A i \in DOMAIN Line' :
             i + 1 \in DOMAIN Line /\ Line'[i] = Line[i + 1]
        /\ \A i \in DOMAIN Line : i > 1 => i - 1 \in DOMAIN Line'
        /\ DOMAIN Line' \subseteq Nat \ {0} /\ DOMAIN Line \subseteq Nat \ {0}
  <1>3. ASSUME waiting = NULL PROVE Shifted
    <2>1. Line = queue /\ Line' = queue' /\ DOMAIN Line = 1..Len(queue)
            /\ DOMAIN Line' = 1..Len(queue')
      BY <1>1, <1>2, <1>3 DEF Line
    <2> QED
      BY <1>2, <2>1
  <1>4. ASSUME waiting # NULL PROVE Shifted
    <2>1. /\ Line = Append(queue, waiting) /\ Line' = Append(queue', waiting)
          /\ DOMAIN Line = 1..(Len(queue) + 1) /\ DOMAIN Line' = 1..Len(queue)
          /\ \A i \in 1..Len(queue) : Line[i] = queue[i]
          /\ \A i \in 1..Len(queue') : Line'[i] = queue'[i]
          /\ Line[Len(queue) + 1] = waiting /\ Line'[Len(queue)] = waiting
      BY <1>1, <1>2, <1>4, AppendProperties DEF Line
    <2> QED
      BY <1>2, <2>1
  <1>5. Shifted
    BY <1>3, <1>4
  <1>6. \A i \in DOMAIN Line : Line[i] = job' \/ \E j \in DOMAIN Line' :
          Line[i] = Line'[j]
    <2> SUFFICES ASSUME NEW i \in DOMAIN Line, i # 1
                 PROVE  \E j \in DOMAIN Line' : Line[i] = Line'[j]
      BY <1>5
    <2>1. i - 1 \in DOMAIN Line' /\ Line'[i - 1] = Line[i]
      BY <1>5
    <2> QED
      BY <2>1
  <1>7. InLine = Written(job') \cup InLine'
    BY <1>5, <1>6 DEF InLine
  <1> QED
    BY <1>5, <1>7

\* Where AsyncQuery puts what it asks.
Slot == Len(queue) + 1
Asked == [kind |-> "query", ids |-> MainDelayed]

\* AsyncQuery does without nMutex: its query comes last in the queue, but
\* before what waits for room.
LEMMA LineAsked ==
  ASSUME TypeOK, AsyncQuery
  PROVE  /\ Slot \in DOMAIN Line' /\ Line'[Slot] = Asked
         /\ \A i \in DOMAIN Line' : i < Slot =>
              i \in DOMAIN Line /\ Line'[i] = Line[i]
         /\ \A i \in DOMAIN Line' : i > Slot =>
               /\ i = Slot + 1 /\ waiting # NULL /\ Line'[i] = waiting
               /\ Slot \in DOMAIN Line /\ Line[Slot] = waiting
         /\ \A i \in DOMAIN Line :
               i < Slot \/ (i = Slot /\ waiting # NULL /\ Line[Slot] = waiting)
         /\ DOMAIN Line \subseteq DOMAIN Line'
         /\ DOMAIN Line' \subseteq Nat \ {0}
         /\ InLine' = InLine
  <1>1. /\ queue \in Seq(Item) /\ waiting \in Item \cup {NULL}
        /\ waiting' = waiting
        /\ queue' = Append(queue, Asked)
    BY DEF TypeOK, AsyncQuery, clientVars, Asked
  <1>2. Asked \in Item
    BY DEF Asked, Item, MainDelayed, TypeOK, Statements
  <1>3. /\ queue' \in Seq(Item) /\ Len(queue) \in Nat
        /\ Len(queue') = Len(queue) + 1 /\ queue'[Len(queue) + 1] = Asked
        /\ \A i \in 1..Len(queue) : queue'[i] = queue[i]
    BY <1>1, <1>2, AppendProperties
  <1>4. Written(Asked) = {}
    BY DEF Written, Asked
  <1> USE DEF Slot
  <1>5. CASE waiting = NULL
    <2>1. Line = queue /\ Line' = queue' /\ DOMAIN Line = 1..Len(queue)
            /\ DOMAIN Line' = 1..Slot
      BY <1>1, <1>3, <1>5 DEF Line
    <2>2. InLine' = InLine
      BY <1>3, <1>4, <2>1 DEF InLine
    <2> QED
      BY <1>3, <1>5, <2>1, <2>2
  <1>6. CASE waiting # NULL
    <2>1. /\ Line = Append(queue, waiting) /\ Line' = Append(queue', waiting)
          /\ DOMAIN Line = 1..Slot /\ DOMAIN Line' = 1..(Slot + 1)
          /\ \A i \in 1..Len(queue) : Line[i] = queue[i]
          /\ \A i \in 1..Slot : Line'[i] = queue'[i]
          /\ Line[Slot] = waiting /\ Line'[Slot + 1] = waiting
      BY <1>1, <1>3, <1>6, AppendProperties DEF Line
    <2>2. InLine' = InLine
      <3>1. \A i \in DOMAIN Line : \E j \in DOMAIN Line' : Line[i] = Line'[j]
        BY <1>3, <2>1
      <3>2. \A j \in DOMAIN Line' : Line'[j] = Asked \/ \E i \in DOMAIN Line :
              Line[i] = Line'[j]
        BY <1>3, <2>1
      <3> QED
        BY <1>4, <3>1, <3>2 DEF InLine
    <2> QED
      BY <1>3, <1>6, <2>1, <2>2
  <1> QED
    BY <1>5, <1>6

----------------------------------------------------------------------------
(* The place of the delay thread.                                          *)

\* Every step leaves the delay thread with the job its place says, and what it
\* has staged of a transaction is a prefix of that transaction.
LEMMA NextWorkerPlace ==
  ASSUME TypeOK, WorkerPlace, LinePlace, Next
  PROVE  WorkerPlace'
  <1> USE DEF clientVars, threadVars, serverVars, workerFrame, endFrame
  <1>1. CASE Clients
    <2>1. UNCHANGED <<worker, job, autocommit>>
      BY <1>1 DEF Clients, Execute, BeginTransaction, CommitTransaction,
         RollbackTransaction, DirectExecute, RoomMade, AsyncQuery,
         ResultUpdate, TryStatement, Perform
    <2>2. delayed \subseteq delayed'
      BY <1>1 DEF Clients, Execute, BeginTransaction, CommitTransaction,
         RollbackTransaction, DirectExecute, RoomMade, AsyncQuery, ResultUpdate
    <2>3. UNCHANGED staged \/ (worker # "statements" /\ ~autocommit)
      <3>1. ASSUME NEW t \in Thread, DirectExecute(t)
            PROVE UNCHANGED staged \/ (worker # "statements" /\ ~autocommit)
        BY <3>1, Zenon DEF DirectExecute, TryStatement, Perform, InTransaction
      <3>2. UNCHANGED staged \/ \E t \in Thread : DirectExecute(t)
        BY <1>1 DEF Clients, Execute, BeginTransaction, CommitTransaction,
           RollbackTransaction, RoomMade, AsyncQuery, ResultUpdate
      <3> QED
        BY <3>1, <3>2
    <2> QED
      BY <2>1, <2>2, <2>3 DEF WorkerPlace, Sound
  <1>2. CASE TestRunning
    BY <1>2 DEF TestRunning, WorkerPlace, ItemKind, Sound
  <1>3. CASE Dequeue
    <2>1. CASE active
      <3>1. job' = Line[1] /\ 1 \in DOMAIN Line
        BY <1>3, <2>1, LineTaken
      <3>2. Line[1] \in Item /\ Sound(Line[1])
        BY <3>1, LineTyped DEF LinePlace
      <3>3. worker' = job'.kind
        BY <1>3, <2>1 DEF Dequeue
      <3> QED
        BY <1>3, <3>1, <3>2, <3>3
           DEF Dequeue, WorkerPlace, Item, ItemKind, Sound
    <2>2. CASE ~active
      BY <1>3, <2>2 DEF Dequeue, WorkerPlace, ItemKind, Sound
    <2> QED
      BY <2>1, <2>2
  <1>4. CASE ExecuteStatement
    <2>1. UNCHANGED staged \/ ~autocommit
      BY <1>4 DEF ExecuteStatement, TryStatement, Perform
    <2>2. worker' = "test" /\ job' = NULL /\ UNCHANGED autocommit
      BY <1>4 DEF ExecuteStatement, TryStatement, Done, Perform
    <2> QED
      BY <2>1, <2>2 DEF WorkerPlace, ItemKind
  <1>5. CASE ExecuteQuery
    BY <1>5 DEF ExecuteQuery, Done, WorkerPlace, ItemKind
  <1>6. CASE StartTransaction
    <2>1. CASE worker' = "test"
      <3>1. job' = NULL /\ UNCHANGED staged
        BY <1>6, <2>1 DEF StartTransaction, Done
      <3>2. autocommit' => autocommit
        BY <1>6, <2>1, Zenon DEF StartTransaction, Done
      <3> QED
        BY <2>1, <3>1, <3>2 DEF WorkerPlace, ItemKind
    <2>2. CASE worker' = "statements"
      <3>1. job.ids \in Seq(Statements)
        BY <1>6, JobTyped DEF StartTransaction
      <3>2. SubSeq(job.ids, 1, 0) = <<>> /\ Len(job.ids) \in Nat
        BY <3>1, SubSeqEmpty
      <3>3. autocommit' = FALSE /\ staged' = <<>> /\ job' = job /\ job # NULL
              /\ job.kind = "transaction" /\ UNCHANGED delayed /\ Sound(job)
        BY <1>6, <2>2 DEF StartTransaction, Done, WorkerPlace, ItemKind
      <3> QED
        BY <2>2, <3>2, <3>3 DEF WorkerPlace, ItemKind, Sound
    <2> QED
      BY <1>6, <2>1, <2>2 DEF StartTransaction, Done
  <1>7. CASE TransactionStatement
    <2>1. CASE worker' = "test"
      BY <1>7, <2>1 DEF TransactionStatement, Done, WorkerPlace, ItemKind
    <2>2. CASE worker' = "statements"
      <3>1. /\ job.ids \in Seq(Statements) /\ staged \in Seq(Statements)
            /\ Len(staged) \in Nat
            /\ Len(staged) < Len(job.ids)
            /\ staged = SubSeq(job.ids, 1, Len(staged))
            /\ staged' = Append(staged, job.ids[Len(staged) + 1])
        BY <1>7, <2>2, JobTyped
           DEF TransactionStatement, TypeOK, WorkerPlace, Done
      <3>2. Len(staged') = Len(staged) + 1 /\ Len(staged') \in Nat
        BY <3>1
      <3>3. staged' = SubSeq(job.ids, 1, Len(staged'))
        BY <3>1, <3>2
      <3> QED
        BY <1>7, <2>2, <3>1, <3>2, <3>3
           DEF TransactionStatement, Done, WorkerPlace, ItemKind, Sound
    <2> QED
      BY <1>7, <2>1, <2>2 DEF TransactionStatement, Done
  <1>8. CASE Commit
    BY <1>8 DEF Commit, Done, WorkerPlace, ItemKind
  <1>9. CASE HaltDelayThread \/ Stop \/ StopDeactivate
    BY <1>9 DEF HaltDelayThread, Stop, StopDeactivate, WorkerPlace, ItemKind,
       Sound
  <1>10. CASE Halted
    BY <1>10 DEF Halted, WorkerPlace, ItemKind, Sound
  <1>11. CASE Crash
    BY <1>11 DEF Crash, WorkerPlace, ItemKind, Sound
  <1>12. CASE Over
    BY <1>12 DEF Over, vars, WorkerPlace, ItemKind, Sound
  <1>13. CASE ConnectionLost
    BY <1>13 DEF ConnectionLost, InTransaction, WorkerPlace, Sound
  <1> QED
    BY <1>1, <1>2, <1>3, <1>4, <1>5, <1>6, <1>7, <1>8, <1>9, <1>10, <1>11,
       <1>12, <1>13 DEF Next, DelayThread

----------------------------------------------------------------------------
(* Sequences of statements, and their order.                               *)

\* Append adds its element to the members of a sequence.
LEMMA ToSetAppend ==
  ASSUME NEW S, NEW s \in Seq(S), NEW e \in S
  PROVE  ToSet(Append(s, e)) = ToSet(s) \cup {e}
  <1>1. DOMAIN s = 1..Len(s) /\ Len(s) \in Nat
          /\ DOMAIN Append(s, e) = 1..(Len(s) + 1)
    OBVIOUS
  <1>2. \A i \in 1..Len(s) : Append(s, e)[i] = s[i]
    BY AppendProperties
  <1>3. Append(s, e)[Len(s) + 1] = e
    BY AppendProperties
  <1>4. ToSet(Append(s, e)) \subseteq ToSet(s) \cup {e}
    BY <1>1, <1>2, <1>3 DEF ToSet
  <1>5. ToSet(s) \subseteq ToSet(Append(s, e))
    BY <1>1, <1>2 DEF ToSet
  <1>6. e \in ToSet(Append(s, e))
    BY <1>1, <1>3 DEF ToSet
  <1> QED
    BY <1>4, <1>5, <1>6

\* A concatenation has the members of both its parts.
LEMMA ToSetConcat ==
  ASSUME NEW S, NEW s \in Seq(S), NEW t \in Seq(S)
  PROVE  ToSet(s \o t) = ToSet(s) \cup ToSet(t)
  <1>1. /\ DOMAIN s = 1..Len(s) /\ DOMAIN t = 1..Len(t) /\ Len(s) \in Nat
        /\ Len(t) \in Nat
        /\ DOMAIN (s \o t) = 1..(Len(s) + Len(t))
        /\ \A i \in 1..(Len(s) + Len(t)) :
             (s \o t)[i] = IF i <= Len(s) THEN s[i] ELSE t[i - Len(s)]
    BY ConcatProperties
  <1>2. ToSet(s \o t) \subseteq ToSet(s) \cup ToSet(t)
    BY <1>1 DEF ToSet
  <1>3. ToSet(s) \subseteq ToSet(s \o t)
    BY <1>1 DEF ToSet
  <1>4. ToSet(t) \subseteq ToSet(s \o t)
    <2> SUFFICES ASSUME NEW i \in 1..Len(t) PROVE t[i] \in ToSet(s \o t)
      BY <1>1 DEF ToSet
    <2>1. Len(s) + i \in 1..(Len(s) + Len(t)) /\ (s \o t)[Len(s) + i] = t[i]
      BY <1>1
    <2> QED
      BY <1>1, <2>1 DEF ToSet
  <1> QED
    BY <1>2, <1>3, <1>4

\* The empty sequence has no members.
LEMMA ToSetEmpty == ToSet(<<>>) = {}
  BY DEF ToSet

\* A sequence of one has that one member.
LEMMA ToSetOne == \A e : ToSet(<<e>>) = {e}
  BY DEF ToSet

\* A statement that comes after all of an ordered sequence can be appended.
LEMMA AscendingAppend ==
  ASSUME NEW o, NEW S, NEW s \in Seq(S), NEW e \in S, Ascending(o, s),
         Before(o, ToSet(s), {e})
  PROVE  Ascending(o, Append(s, e))
  <1>1. /\ DOMAIN s = 1..Len(s) /\ Len(s) \in Nat
        /\ DOMAIN Append(s, e) = 1..(Len(s) + 1)
        /\ \A i \in 1..Len(s) : Append(s, e)[i] = s[i]
        /\ Append(s, e)[Len(s) + 1] = e
    BY AppendProperties
  <1>2. SUFFICES ASSUME NEW i \in 1..(Len(s) + 1), NEW j \in 1..(Len(s) + 1),
                        i < j,
               o[Append(s, e)[i]] = o[Append(s, e)[j]],
               o[Append(s, e)[i]] # NULL
        PROVE  Append(s, e)[i] < Append(s, e)[j]
    BY <1>1 DEF Ascending
  <1>3. i \in 1..Len(s) /\ Append(s, e)[i] = s[i]
    BY <1>1, <1>2
  <1>4. CASE j \in 1..Len(s)
    BY <1>1, <1>2, <1>3, <1>4 DEF Ascending
  <1>5. CASE j = Len(s) + 1
    BY <1>1, <1>2, <1>3, <1>5 DEF Before, ToSet
  <1> QED
    BY <1>1, <1>4, <1>5

\* Two ordered sequences, the one before the other, make an ordered one.
LEMMA AscendingConcat ==
  ASSUME NEW o, NEW S, NEW s \in Seq(S), NEW t \in Seq(S), Ascending(o, s),
         Ascending(o, t), Before(o, ToSet(s), ToSet(t))
  PROVE  Ascending(o, s \o t)
  <1>1. /\ DOMAIN s = 1..Len(s) /\ DOMAIN t = 1..Len(t) /\ Len(s) \in Nat
        /\ Len(t) \in Nat
        /\ DOMAIN (s \o t) = 1..(Len(s) + Len(t))
        /\ \A i \in 1..(Len(s) + Len(t)) :
             (s \o t)[i] = IF i <= Len(s) THEN s[i] ELSE t[i - Len(s)]
    BY ConcatProperties
  <1>2. SUFFICES ASSUME NEW i \in 1..(Len(s) + Len(t)),
                        NEW j \in 1..(Len(s) + Len(t)), i < j,
               o[(s \o t)[i]] = o[(s \o t)[j]], o[(s \o t)[i]] # NULL
        PROVE  (s \o t)[i] < (s \o t)[j]
    BY <1>1 DEF Ascending
  <1>3. CASE j <= Len(s)
    <2>1. i \in DOMAIN s /\ j \in DOMAIN s /\ (s \o t)[i] = s[i]
            /\ (s \o t)[j] = s[j]
      BY <1>1, <1>2, <1>3
    <2> QED
      BY <1>2, <2>1 DEF Ascending
  <1>4. CASE i <= Len(s) /\ j > Len(s)
    <2>1. i \in DOMAIN s /\ j - Len(s) \in DOMAIN t /\ (s \o t)[i] = s[i]
            /\ (s \o t)[j] = t[j - Len(s)]
      BY <1>1, <1>4
    <2>2. s[i] \in ToSet(s) /\ t[j - Len(s)] \in ToSet(t)
      BY <2>1 DEF ToSet
    <2> QED
      BY <1>2, <2>1, <2>2 DEF Before
  <1>5. CASE i > Len(s)
    <2>1. i - Len(s) \in DOMAIN t /\ j - Len(s) \in DOMAIN t
            /\ (s \o t)[i] = t[i - Len(s)] /\ (s \o t)[j] = t[j - Len(s)]
      BY <1>1, <1>2, <1>5
    <2>2. i - Len(s) < j - Len(s)
      BY <1>1, <1>2
    <2> QED
      BY <1>2, <2>1, <2>2 DEF Ascending
  <1> QED
    BY <1>1, <1>3, <1>4, <1>5

\* A prefix of an ordered sequence is ordered.
LEMMA AscendingPrefix ==
  ASSUME NEW o, NEW S, NEW s \in Seq(S), NEW n \in 0..Len(s), Ascending(o, s)
  PROVE  Ascending(o, SubSeq(s, 1, n))
           /\ ToSet(SubSeq(s, 1, n)) \subseteq ToSet(s)
  <1>1. DOMAIN SubSeq(s, 1, n) = 1..n /\ \A i \in 1..n :
          SubSeq(s, 1, n)[i] = s[i]
    OBVIOUS
  <1>2. 1..n \subseteq DOMAIN s
    OBVIOUS
  <1> QED
    BY <1>1, <1>2 DEF Ascending, ToSet

\* Order only depends on who has called the statements it is about.
LEMMA OrderStable ==
  ASSUME NEW o, NEW p
  PROVE  /\ \A A, B : Before(o, A, B) /\ (\A a \in A \cup B : p[a] = o[a]) =>
              Before(p, A, B)
         /\ \A s : Ascending(o, s) /\ (\A a \in ToSet(s) : p[a] = o[a]) =>
              Ascending(p, s)
  <1>1. ASSUME NEW A, NEW B, Before(o, A, B), \A a \in A \cup B : p[a] = o[a]
        PROVE  Before(p, A, B)
    BY <1>1 DEF Before
  <1>2. ASSUME NEW s, Ascending(o, s), \A a \in ToSet(s) : p[a] = o[a]
        PROVE  Ascending(p, s)
    <2>1. \A i \in DOMAIN s : p[s[i]] = o[s[i]]
      BY <1>2 DEF ToSet
    <2> QED
      BY <1>2, <2>1 DEF Ascending
  <1> QED
    BY <1>1, <1>2

----------------------------------------------------------------------------
(* What a step changes.                                                    *)

\* PExecute within a transaction adds its statement to that of its own thread,
\* and leaves those of the others alone.
LEMMA OpenAppended ==
  ASSUME TypeOK, NEW t \in Thread, NEW id \in Statements,
         m_tranQueues[t] # NULL,
         m_tranQueues' = [m_tranQueues EXCEPT ![t] = Append(@, id)]
  PROVE  /\ m_tranQueues[t] \in Seq(Statements)
         /\ m_tranQueues'[t] = Append(m_tranQueues[t], id)
         /\ OpenTransaction(t)' = OpenTransaction(t) \cup {id}
         /\ \A u \in Thread : u # t =>
               m_tranQueues'[u] = m_tranQueues[u]
               /\ OpenTransaction(u)' = OpenTransaction(u)
  <1>1. m_tranQueues[t] \in Seq(Statements)
    BY DEF TypeOK
  <1>2. /\ m_tranQueues'[t] = Append(m_tranQueues[t], id)
        /\ \A u \in Thread : u # t => m_tranQueues'[u] = m_tranQueues[u]
    BY DEF TypeOK
  <1>3. Append(m_tranQueues[t], id) \in Seq(Statements)
    BY <1>1, AppendProperties
  <1>4. Append(m_tranQueues[t], id) # NULL
    BY <1>3
  <1> QED
    BY <1>1, <1>2, <1>4, ToSetAppend DEF OpenTransaction

\* A transaction that is closed or begun has no statements; the others keep
\* theirs.
LEMMA OpenClosed ==
  ASSUME TypeOK, NEW t \in Thread, NEW s \in {NULL, <<>>},
         m_tranQueues' = [m_tranQueues EXCEPT ![t] = s]
  PROVE  /\ OpenTransaction(t)' = {} /\ m_tranQueues'[t] = s
         /\ \A u \in Thread : u # t =>
               m_tranQueues'[u] = m_tranQueues[u]
               /\ OpenTransaction(u)' = OpenTransaction(u)
  <1>1. /\ m_tranQueues'[t] = s
        /\ \A u \in Thread : u # t => m_tranQueues'[u] = m_tranQueues[u]
    BY DEF TypeOK
  <1> QED
    BY <1>1, ToSetEmpty DEF OpenTransaction

\* An open transaction depends on m_tranQueues alone.
LEMMA OpenKept ==
  ASSUME UNCHANGED m_tranQueues
  PROVE  \A t \in Thread : OpenTransaction(t)' = OpenTransaction(t)
  BY DEF OpenTransaction

\* The steps by which the delay thread executes its job.
Working == \/ ExecuteStatement \/ ExecuteQuery \/ StartTransaction
           \/ TransactionStatement \/ Commit

\* What the statements of the current job are, by where the delay thread is.
LEMMA JobPlace ==
  ASSUME TypeOK, WorkerPlace
  PROVE  /\ worker \in {"statement", "transaction", "statements"} =>
              job # NULL /\ InJob = ToSet(job.ids)
              /\ job.ids \in Seq(Statements) /\ job.kind # "query"
         /\ worker = "statement" =>
              InJob = {job.ids[1]} /\ job.ids[1] \in Statements
         /\ worker = "query" => InJob = {} /\ job # NULL /\ job.kind = "query"
         /\ worker \in {"test", "dequeue", "ended"} => InJob = {} /\ job = NULL
         /\ worker = "statements" => ToSet(staged) \subseteq InJob
  <1>1.
      /\ worker \in {"statement", "transaction", "statements"} =>
              job # NULL /\ InJob = ToSet(job.ids)
              /\ job.ids \in Seq(Statements) /\ job.kind # "query"
      /\ worker = "query" => InJob = {} /\ job # NULL /\ job.kind = "query"
      /\ worker \in {"test", "dequeue", "ended"} => InJob = {} /\ job = NULL
    BY JobTyped DEF WorkerPlace, InJob, Written, ItemKind
  <1>2. worker = "statement" =>
          InJob = {job.ids[1]} /\ job.ids[1] \in Statements
    <2> SUFFICES ASSUME worker = "statement"
                 PROVE InJob = {job.ids[1]} /\ job.ids[1] \in Statements
      OBVIOUS
    <2>1. Len(job.ids) = 1
      BY DEF WorkerPlace, Sound, ItemKind
    <2>2. DOMAIN job.ids = {1}
      BY <1>1, <2>1
    <2>3. ToSet(job.ids) = {job.ids[1]}
      BY <2>2 DEF ToSet
    <2> QED
      BY <1>1, <2>3, JobTyped
  <1>3. worker = "statements" => ToSet(staged) \subseteq InJob
    <2> SUFFICES ASSUME worker = "statements"
                 PROVE ToSet(staged) \subseteq InJob
      OBVIOUS
    <2>1. job.ids \in Seq(Statements) /\ InJob = ToSet(job.ids)
      BY <1>1
    <2>2. staged = SubSeq(job.ids, 1, Len(staged))
            /\ Len(staged) <= Len(job.ids)
      BY DEF WorkerPlace
    <2>3. Len(staged) \in Nat
      BY DEF TypeOK
    <2>4. /\ DOMAIN staged = 1..Len(staged)
          /\ \A i \in 1..Len(staged) :
               staged[i] = job.ids[i] /\ i \in DOMAIN job.ids
      BY <2>1, <2>2, <2>3
    <2> QED
      BY <2>1, <2>4 DEF ToSet
  <1> QED
    BY <1>1, <1>2, <1>3

\* The connection adds what it executes to what is durable, or stages it.
LEMMA PerformPlace ==
  ASSUME TypeOK, NEW id \in Statements, Perform(id)
  PROVE  /\ ToSet(durable') \cup ToSet(staged') = ToSet(durable)
              \cup ToSet(staged) \cup {id}
         /\ \/ durable' = Append(durable, id) /\ staged' = staged /\ autocommit
            \/ staged' = Append(staged, id) /\ durable' = durable
                 /\ ~autocommit
  <1>1. durable \in Seq(Statements) /\ staged \in Seq(Statements)
    BY DEF TypeOK
  <1>2. \/ durable' = Append(durable, id) /\ staged' = staged /\ autocommit
        \/ staged' = Append(staged, id) /\ durable' = durable /\ ~autocommit
    BY Zenon DEF Perform
  <1>3. ToSet(Append(durable, id)) = ToSet(durable) \cup {id}
          /\ ToSet(Append(staged, id)) = ToSet(staged) \cup {id}
    BY <1>1, ToSetAppend
  <1> QED
    BY <1>2, <1>3

\* The steps by which the delay thread executes its job lose none of its
\* statements: what was done, staged or in the job is so, or has failed.
LEMMA WorkEffect ==
  ASSUME TypeOK, WorkerPlace, Working
  PROVE  /\ UNCHANGED <<owner, m_tranQueues, nMutex, waiting, queue, phase,
                        delayed>>
         /\ Line' = Line /\ InLine' = InLine
         /\ InTransactions' = InTransactions
         /\ \A t \in Thread : OpenTransaction(t)' = OpenTransaction(t)
         /\ Performed' \cup InJob' \subseteq Performed \cup InJob
         /\ Dealt \subseteq Dealt' /\ InJob \subseteq Dealt' \cup InJob'
         /\ failed \subseteq failed' /\ lost' = lost
  <1> USE DEF clientVars, threadVars, serverVars, workerFrame
  <1>1. UNCHANGED <<owner, m_tranQueues, nMutex, waiting, queue, phase,
                    lost, delayed>>
    BY DEF Working, ExecuteStatement, ExecuteQuery, StartTransaction,
       TransactionStatement, Commit
  <1>2. /\ Line' = Line /\ InLine' = InLine /\ InTransactions' = InTransactions
        /\ \A t \in Thread : OpenTransaction(t)' = OpenTransaction(t)
    BY <1>1, LineKept, OpenKept DEF InTransactions
  <1>3. durable \in Seq(Statements) /\ staged \in Seq(Statements)
    BY DEF TypeOK
  <1>4. ToSet(durable \o staged) = Performed
    BY <1>3, ToSetConcat DEF Performed
  <1> DEFINE Moved == /\ Performed' \cup InJob' \subseteq Performed \cup InJob
                      /\ Dealt \subseteq Dealt'
                      /\ InJob \subseteq Dealt' \cup InJob'
                      /\ failed \subseteq failed'
  <1>5. CASE ExecuteStatement
    <2>1. InJob' = {} /\ worker = "statement"
      BY <1>5 DEF ExecuteStatement, Done, InJob
    <2>2. CASE Perform(job.ids[1]) /\ UNCHANGED failed
      BY <1>1, <1>2, <2>1, <2>2, JobPlace, PerformPlace DEF Performed, Dealt
    <2>3. CASE failed' = failed \cup {job.ids[1]} /\ UNCHANGED serverVars
      BY <1>1, <1>2, <2>1, <2>3, JobPlace DEF Performed, Dealt
    <2> QED
      BY <1>1, <1>2, <1>5, <2>2, <2>3 DEF ExecuteStatement, TryStatement
  <1>6. CASE ExecuteQuery
    <2>1. InJob' = {} /\ InJob = {}
      BY <1>6, JobPlace DEF ExecuteQuery, Done, InJob
    <2> QED
      BY <1>1, <1>2, <1>6, <2>1 DEF ExecuteQuery, Performed, Dealt
  <1>7. CASE StartTransaction
    <2>1. InJob = ToSet(job.ids)
      BY <1>7, JobPlace DEF StartTransaction
    <2>2. CASE job.ids = <<>> /\ Done /\ UNCHANGED <<serverVars, failed>>
      BY <2>1, <2>2, <1>1, <1>2, ToSetEmpty DEF Performed, Dealt, Done, InJob
    <2>3. CASE durable' = durable \o staged /\ staged' = <<>>
                 /\ UNCHANGED <<job, failed>>
      BY <2>3, <1>1, <1>2, <1>4, ToSetEmpty DEF Performed, Dealt, InJob
    <2>4. CASE Done /\ GiveUp /\ UNCHANGED <<staged, durable>>
      BY <2>1, <2>4, <1>1, <1>2 DEF Performed, Dealt, Done, GiveUp, InJob
    <2> QED
      BY <1>7, <2>2, <2>3, <2>4 DEF StartTransaction
  <1>8. CASE TransactionStatement
    <2>1. InJob = ToSet(job.ids) /\ ToSet(staged) \subseteq InJob
            /\ job.ids \in Seq(Statements) /\ Len(staged) \in Nat
      BY <1>3, <1>8, JobPlace DEF TransactionStatement
    <2>2. CASE staged' = Append(staged, job.ids[Len(staged) + 1])
                 /\ UNCHANGED <<durable, job, failed>>
      <3>1. Len(staged) + 1 \in DOMAIN job.ids
              /\ job.ids[Len(staged) + 1] \in Statements
        BY <1>8, <2>1, ElementOfSeq DEF TransactionStatement
      <3>2. job.ids[Len(staged) + 1] \in InJob
        BY <2>1, <3>1 DEF ToSet
      <3>3. ToSet(staged') = ToSet(staged) \cup {job.ids[Len(staged) + 1]}
        BY <1>3, <2>2, <3>1, ToSetAppend
      <3> QED
        BY <2>2, <3>2, <3>3, <1>1, <1>2 DEF Performed, Dealt, InJob
    <2>3. CASE staged' = <<>> /\ Done /\ GiveUp /\ UNCHANGED durable
      BY <2>1, <2>3, <1>1, <1>2, ToSetEmpty
         DEF Performed, Dealt, Done, GiveUp, InJob
    <2> QED
      BY <1>8, <2>2, <2>3 DEF TransactionStatement
  <1>9. CASE Commit
    <2>1. InJob = ToSet(job.ids) /\ ToSet(staged) \subseteq InJob
            /\ staged' = <<>> /\ Done /\ InJob' = {}
      BY <1>9, JobPlace DEF Commit, Done, InJob
    <2>2. CASE durable' = durable \o staged /\ UNCHANGED failed
      <3>1. job.ids \in Seq(Statements) /\ staged = job.ids
        BY <1>9, JobPlace, SubSeqFull DEF Commit, WorkerPlace
      <3> QED
        BY <2>1, <2>2, <3>1, <1>1, <1>2, <1>4, ToSetEmpty DEF Performed, Dealt
    <2>3. CASE GiveUp /\ (durable' = durable \/ durable' = durable \o staged)
      BY <2>1, <2>3, <1>1, <1>2, <1>4, ToSetEmpty DEF Performed, Dealt, GiveUp
    <2> QED
      BY <1>9, <2>2, <2>3 DEF Commit
  <1> QED
    BY <1>5, <1>6, <1>7, <1>8, <1>9 DEF Working

----------------------------------------------------------------------------
(* Order, when calls are made.                                             *)

\* Order between sets of statements, and their unions and parts.
LEMMA BeforeUnion ==
  ASSUME NEW o
  PROVE  /\ \A A, B, C : Before(o, A, C) /\ Before(o, B, C) =>
              Before(o, A \cup B, C)
         /\ \A A, B, C : Before(o, A, B) /\ Before(o, A, C) =>
              Before(o, A, B \cup C)
         /\ \A A, B, C,
              D : Before(o, A, B) /\ C \subseteq A /\ D \subseteq B =>
              Before(o, C, D)
         /\ \A A : Before(o, A, {}) /\ Before(o, {}, A)
  BY DEF Before

\* A new call changes nothing in the order of the earlier ones, and comes after
\* them all; one executed directly is not ordered with anything.
LEMMA OwnerGrows ==
  ASSUME TypeOK, NEW n \in Thread \cup {NULL}, NewStatement(n)
  PROVE  /\ \A A, B \in SUBSET DOMAIN owner : Before(owner, A, B) =>
              Before(owner', A, B)
         /\ \A s : ToSet(s) \subseteq DOMAIN owner /\ Ascending(owner, s) =>
              Ascending(owner', s)
         /\ \A item : Written(item) \subseteq DOMAIN owner
              /\ Orderly(owner, item) => Orderly(owner', item)
         /\ \A A \in SUBSET DOMAIN owner : Before(owner', A, {New})
         /\ n = NULL => \A B : Before(owner', {New}, B)
  <1>1. \A id \in DOMAIN owner : owner'[id] = owner[id] /\ id < New
    BY NewTyped
  <1>2. owner'[New] = n
    BY NewTyped
  <1>3. ASSUME NEW A \in SUBSET DOMAIN owner, NEW B \in SUBSET DOMAIN owner,
               Before(owner, A, B)
        PROVE  Before(owner', A, B)
    BY <1>1, <1>3, OrderStable
  <1>4. ASSUME NEW s, ToSet(s) \subseteq DOMAIN owner, Ascending(owner, s)
        PROVE  Ascending(owner', s)
    BY <1>1, <1>4, OrderStable
  <1>5. ASSUME NEW item, Written(item) \subseteq DOMAIN owner,
               Orderly(owner, item)
        PROVE  Orderly(owner', item)
    BY <1>4, <1>5 DEF Orderly, Written
  <1>6. ASSUME NEW A \in SUBSET DOMAIN owner
        PROVE  Before(owner', A, {New})
    BY <1>1, <1>6 DEF Before
  <1>7. n = NULL => \A B : Before(owner', {New}, B)
    BY <1>2 DEF Before
  <1> QED
    BY <1>3, <1>4, <1>5, <1>6, <1>7

\* What an item of the line writes is in the line.
LEMMA InLineHas ==
  \A i \in DOMAIN Line : Written(Line[i]) \subseteq InLine
  BY DEF InLine

\* The transactions of two threads share no statement: tranThread is that of
\* the caller.
LEMMA OpenApart ==
  ASSUME LinePlace, NEW t \in Thread, NEW u \in Thread, t # u
  PROVE  OpenTransaction(t) \cap OpenTransaction(u) = {}
  BY DEF LinePlace

\* A new call leaves everything in order, wherever it goes.
LEMMA OrderedGrows ==
  ASSUME TypeOK, Known, Ordered, NEW n \in Thread \cup {NULL}, NewStatement(n)
  PROVE  OrderedBy(owner')
  <1>1. /\ ToSet(durable) \subseteq DOMAIN owner
        /\ ToSet(staged) \subseteq DOMAIN owner
        /\ InJob \subseteq DOMAIN owner /\ InLine \subseteq DOMAIN owner
        /\ Performed \cup InJob \subseteq DOMAIN owner
        /\ Performed \cup InJob \cup InLine \subseteq DOMAIN owner
        /\ \A t \in Thread : OpenTransaction(t) \subseteq DOMAIN owner
        /\ \A i \in DOMAIN Line : Written(Line[i]) \subseteq DOMAIN owner
    BY InLineHas DEF Known, Performed
  <1>2. /\ Ascending(owner', durable) /\ Ascending(owner', staged)
        /\ Before(owner', ToSet(durable), ToSet(staged))
    BY <1>1, OwnerGrows DEF Ordered, OrderedBy
  <1>3. /\ job # NULL => Orderly(owner', job)
        /\ Before(owner', ToSet(durable), InJob)
        /\ worker # "statements" => Before(owner', ToSet(staged), InJob)
    BY <1>1, OwnerGrows DEF Ordered, OrderedBy, InJob
  <1>4. \A i \in DOMAIN Line :
          /\ Orderly(owner', Line[i])
          /\ Before(owner', Performed \cup InJob, Written(Line[i]))
          /\ \A j \in DOMAIN Line : i < j =>
               Before(owner', Written(Line[i]), Written(Line[j]))
    BY <1>1, OwnerGrows DEF Ordered, OrderedBy
  <1>5. ASSUME NEW t \in Thread
        PROVE  /\ m_tranQueues[t] # NULL => Ascending(owner', m_tranQueues[t])
               /\ Before(owner', Performed \cup InJob \cup InLine,
                    OpenTransaction(t))
    <2>1. m_tranQueues[t] # NULL =>
            ToSet(m_tranQueues[t]) \subseteq DOMAIN owner
      BY <1>1 DEF OpenTransaction
    <2> QED
      BY <1>1, <2>1, OwnerGrows DEF Ordered, OrderedBy
  <1> QED
    BY <1>2, <1>3, <1>4, <1>5 DEF OrderedBy

----------------------------------------------------------------------------
(* The invariant, step by step.                                            *)

\* A step that moves no statement keeps the invariant.
LEMMA StillKeeps ==
  ASSUME TypeOK, Rest,
         UNCHANGED <<owner, m_tranQueues, job, staged, durable, delayed,
         Line>>,
         worker' = "statements" <=> worker = "statements",
         failed \subseteq failed', lost \subseteq lost'
  PROVE  /\ Known' /\ Apart' /\ Ordered'
         /\ phase' = phase \/ phase' \in {"halted", "crashed"}
              \/ phase \notin {"halted", "crashed"} => Accounted'
  <1>1. /\ InLine' = InLine /\ InJob' = InJob
        /\ InTransactions' = InTransactions
        /\ Performed' = Performed /\ Dealt \subseteq Dealt'
        /\ \A t \in Thread : OpenTransaction(t)' = OpenTransaction(t)
    BY OpenKept DEF InLine, InJob, InTransactions, Performed, Dealt
  <1>2. Known'
    BY <1>1 DEF Rest, Known
  <1>3. Apart'
    BY <1>1 DEF Rest, Apart
  <1>4. Ordered'
    BY <1>1 DEF Rest, Ordered, OrderedBy
  <1>5. ASSUME phase' = phase \/ phase' \in {"halted", "crashed"}
                 \/ phase \notin {"halted", "crashed"}
        PROVE  Accounted'
    <2>1. phase' \notin {"halted", "crashed"} =>
            phase \notin {"halted", "crashed"}
      BY <1>5
    <2>2. phase' \notin {"halted", "crashed"} =>
            \A id \in DOMAIN owner' :
              \/ id \in Dealt' \cup InJob' \cup InLine'
              \/ \E t \in Thread : id \in OpenTransaction(t)'
      BY <1>1, <2>1 DEF Rest, Accounted
    <2>3. job' # NULL /\ job'.kind = "query" => job'.ids \subseteq Dealt'
      BY <1>1 DEF Rest, Accounted
    <2>4. \A i \in DOMAIN Line' : Line'[i].kind = "query" =>
              Line'[i].ids \subseteq
                 Dealt' \cup InJob'
                 \cup UNION {Written(Line'[j]) : j \in 1..(i - 1)}
      BY <1>1 DEF Rest, Accounted
    <2> QED
      BY <2>2, <2>3, <2>4 DEF Accounted
  <1> QED
    BY <1>2, <1>3, <1>4, <1>5

\* PExecute in an open transaction keeps the invariant.
LEMMA EnlistKeeps ==
  ASSUME TypeOK, WorkerPlace, Rest, NEW t \in Thread, Execute(t),
         m_tranQueues[t] # NULL
  PROVE  Rest'
  <1>1. /\ NewStatement(t)
        /\ m_tranQueues' = [m_tranQueues EXCEPT ![t] = Append(@, New)]
        /\ UNCHANGED <<queue, nMutex, waiting, results, worker, job,
                       autocommit, staged,
                       durable, phase, failed, lost, delayed>>
        /\ phase = "running"
    BY DEF Execute, Running, threadVars, serverVars
  <1>2. /\ New \in Statements /\ New \notin DOMAIN owner
        /\ DOMAIN owner' = DOMAIN owner \cup {New} /\ owner'[New] = t
        /\ \A id \in DOMAIN owner : owner'[id] = owner[id]
    BY <1>1, NewTyped
  <1>3. /\ m_tranQueues[t] \in Seq(Statements)
        /\ m_tranQueues'[t] = Append(m_tranQueues[t], New)
        /\ OpenTransaction(t)' = OpenTransaction(t) \cup {New}
        /\ \A u \in Thread : u # t =>
              m_tranQueues'[u] = m_tranQueues[u]
              /\ OpenTransaction(u)' = OpenTransaction(u)
    BY <1>1, <1>2, OpenAppended
  <1>4. /\ Line' = Line /\ InLine' = InLine /\ InJob' = InJob
        /\ InTransactions' = InTransactions /\ Performed' = Performed
        /\ Dealt' = Dealt
    BY <1>1, LineKept DEF InJob, InTransactions, Performed, Dealt
  <1>5. LinePlace'
    <2>1. (\A i \in DOMAIN Line : Sound(Line[i]))'
      BY <1>1, <1>4 DEF Rest, LinePlace, Sound
    <2>2. waiting' # NULL => waiting'.kind # "query"
                         /\ \A id \in Written(waiting') : owner'[id] = nMutex'
      <3>1. nMutex = NULL
        BY DEF Execute
      <3> QED
        BY <1>1, <3>1 DEF TypeOK
    <2>3. ASSUME NEW u \in Thread, NEW id \in OpenTransaction(u)'
          PROVE  owner'[id] = u
      BY <1>2, <1>3, <2>3 DEF Rest, LinePlace, Known
    <2>4. phase' = "running"
      BY <1>1
    <2> QED
      BY <2>1, <2>2, <2>3, <2>4 DEF LinePlace
  <1>6. Known'
    BY <1>2, <1>3, <1>4 DEF Rest, Known
  <1>7. Apart'
    <2>1. New \notin Performed \cup InJob \cup InLine \cup InTransactions
      BY <1>2 DEF Rest, Known
    <2>2. \A u \in Thread : OpenTransaction(u)'
             \cap (Performed' \cup InJob' \cup InLine' \cup InTransactions') =
               {}
      BY <1>3, <1>4, <2>1 DEF Rest, Apart
    <2> QED
      BY <1>1, <1>4, <2>2 DEF Rest, Apart
  <1>8. Ordered'
    <2>1. OrderedBy(owner')
      BY <1>1, OrderedGrows DEF Rest
    <2>2. Performed \cup InJob \cup InLine \subseteq DOMAIN owner
      BY DEF Rest, Known
    <2>3. Before(owner', Performed \cup InJob \cup InLine, {New})
      BY <1>1, <2>2, OwnerGrows
    <2>4. ToSet(m_tranQueues[t]) = OpenTransaction(t)
            /\ OpenTransaction(t) \in SUBSET DOMAIN owner
      BY DEF OpenTransaction, Execute, Rest, Known
    <2>5. Before(owner', OpenTransaction(t), {New})
      BY <1>1, <2>4, OwnerGrows
    <2>6. Ascending(owner', m_tranQueues'[t])
      BY <1>2, <1>3, <2>1, <2>4, <2>5, AscendingAppend DEF OrderedBy
    <2>7. Before(owner', Performed \cup InJob \cup InLine, OpenTransaction(t)')
      <3>1. Before(owner', Performed \cup InJob \cup InLine,
              OpenTransaction(t))
        BY <2>1 DEF OrderedBy
      <3>2. Before(owner', Performed \cup InJob \cup InLine,
              OpenTransaction(t) \cup {New})
        BY <2>3, <3>1, BeforeUnion
      <3> QED
        BY <1>3, <3>2
    <2>8. \A u \in Thread :
             /\ m_tranQueues'[u] # NULL => Ascending(owner', m_tranQueues'[u])
             /\ Before(owner', Performed' \cup InJob' \cup InLine',
                  OpenTransaction(u)')
      BY <1>3, <1>4, <2>1, <2>6, <2>7 DEF OrderedBy
    <2> QED
      BY <1>1, <1>4, <2>1, <2>8 DEF OrderedBy, Ordered
  <1>9. Accounted'
    <2>1. \A id \in DOMAIN owner' :
              \/ id \in Dealt' \cup InJob' \cup InLine'
              \/ \E u \in Thread : id \in OpenTransaction(u)'
      <3> SUFFICES ASSUME NEW id \in DOMAIN owner',
                          id \notin Dealt' \cup InJob' \cup InLine'
                   PROVE  \E u \in Thread : id \in OpenTransaction(u)'
        OBVIOUS
      <3>1. CASE id = New
        BY <1>3, <3>1
      <3>2. CASE id # New
        <4>1. PICK u \in Thread : id \in OpenTransaction(u)
          BY <1>1, <1>2, <1>4, <3>2 DEF Rest, Accounted
        <4> QED
          BY <1>3, <4>1
      <3> QED
        BY <3>1, <3>2
    <2> QED
      BY <1>1, <1>4, <2>1 DEF Rest, Accounted
  <1> QED
    BY <1>5, <1>6, <1>7, <1>8, <1>9 DEF Rest

\* BeginTransaction, which throws an open one away, and RollbackTransaction
\* keep the invariant.
LEMMA CloseKeeps ==
  ASSUME TypeOK, WorkerPlace, Rest, NEW t \in Thread,
         BeginTransaction(t) \/ RollbackTransaction(t)
  PROVE  Rest'
  <1>1. /\ UNCHANGED <<owner, nMutex, waiting, queue, worker, job, autocommit,
                       staged,
                       durable, phase, lost, delayed>>
        /\ failed' = failed \cup OpenTransaction(t)
        /\ phase = "running"
    BY DEF BeginTransaction, RollbackTransaction, Running, threadVars,
       serverVars
  <1>2. /\ OpenTransaction(t)' = {}
        /\ \A u \in Thread : u # t =>
              m_tranQueues'[u] = m_tranQueues[u]
              /\ OpenTransaction(u)' = OpenTransaction(u)
        /\ m_tranQueues'[t] \in {NULL, <<>>}
    BY OpenClosed DEF BeginTransaction, RollbackTransaction
  <1>3. /\ Line' = Line /\ InLine' = InLine /\ InJob' = InJob
        /\ InTransactions' = InTransactions /\ Performed' = Performed
        /\ Dealt' = Dealt \cup OpenTransaction(t)
    BY <1>1, LineKept DEF InJob, InTransactions, Performed, Dealt
  <1>4. LinePlace'
    <2>1. (\A i \in DOMAIN Line : Sound(Line[i]))'
      BY <1>1, <1>3 DEF Rest, LinePlace, Sound
    <2> QED
      BY <1>1, <1>2, <1>3, <2>1 DEF Rest, LinePlace
  <1>5. Known'
    BY <1>1, <1>2, <1>3 DEF Rest, Known
  <1>6. Apart'
    <2>1. \A u \in Thread : OpenTransaction(u)'
             \cap (Performed' \cup InJob' \cup InLine' \cup InTransactions') =
               {}
      BY <1>2, <1>3 DEF Rest, Apart
    <2> QED
      BY <1>1, <1>3, <2>1 DEF Rest, Apart
  <1>7. Ordered'
    <2>1. Ascending(owner, <<>>)
      BY DEF Ascending
    <2>2. \A u \in Thread :
             /\ m_tranQueues'[u] # NULL => Ascending(owner, m_tranQueues'[u])
             /\ Before(owner, Performed' \cup InJob' \cup InLine',
                  OpenTransaction(u)')
      BY <1>2, <1>3, <2>1, BeforeUnion DEF Rest, Ordered, OrderedBy
    <2> QED
      BY <1>1, <1>3, <2>2 DEF Rest, Ordered, OrderedBy
  <1>8. Accounted'
    <2>1. \A id \in DOMAIN owner' :
              \/ id \in Dealt' \cup InJob' \cup InLine'
              \/ \E u \in Thread : id \in OpenTransaction(u)'
      <3> SUFFICES ASSUME NEW id \in DOMAIN owner',
                          id \notin Dealt' \cup InJob' \cup InLine'
                   PROVE  \E u \in Thread : id \in OpenTransaction(u)'
        OBVIOUS
      <3>1. PICK u \in Thread : id \in OpenTransaction(u)
        BY <1>1, <1>3 DEF Rest, Accounted
      <3>2. u # t
        BY <1>3, <3>1
      <3> QED
        BY <1>2, <3>1, <3>2
    <2>2. job' # NULL /\ job'.kind = "query" => job'.ids \subseteq Dealt'
      BY <1>1, <1>3 DEF Rest, Accounted
    <2>3. \A i \in DOMAIN Line' : Line'[i].kind = "query" =>
              Line'[i].ids \subseteq
                 Dealt' \cup InJob'
                 \cup UNION {Written(Line'[j]) : j \in 1..(i - 1)}
      BY <1>3 DEF Rest, Accounted
    <2> QED
      BY <2>1, <2>2, <2>3 DEF Accounted
  <1> QED
    BY <1>4, <1>5, <1>6, <1>7, <1>8 DEF Rest

\* What waits for room is a write of the thread that holds nMutex.
LEMMA WaitingPlace ==
  ASSUME TypeOK, NEW t \in Thread, NEW item \in Item, nMutex = NULL,
         Delay(t, item),
         NEW o, item.kind # "query", \A id \in Written(item) : o[id] = t
  PROVE  waiting' # NULL => waiting'.kind # "query"
                            /\ \A id \in Written(waiting') : o[id] = nMutex'
  <1>1. waiting = NULL
    BY DEF TypeOK
  <1>2. CASE HasRoom
    BY <1>1, <1>2 DEF Delay
  <1>3. CASE ~HasRoom
    BY <1>3 DEF Delay
  <1> QED
    BY <1>2, <1>3

\* PExecute outside a transaction keeps the invariant.
LEMMA DelayKeeps ==
  ASSUME TypeOK, WorkerPlace, Rest, NEW t \in Thread, Execute(t),
         m_tranQueues[t] = NULL
  PROVE  Rest'
  <1> DEFINE item == [kind |-> "statement", ids |-> <<New>>]
  <1>1. /\ NewStatement(t) /\ Delay(t, item) /\ nMutex = NULL
        /\ UNCHANGED <<m_tranQueues, results, worker, job, autocommit, staged,
                       durable, phase, failed, lost, delayed>>
        /\ phase = "running"
    BY DEF Execute, Running, threadVars, serverVars
  <1>2. /\ New \in Statements /\ New \notin DOMAIN owner
        /\ DOMAIN owner' = DOMAIN owner \cup {New} /\ owner'[New] = t
        /\ \A id \in DOMAIN owner : owner'[id] = owner[id]
    BY <1>1, NewTyped
  <1>3. item \in Item /\ item.kind = "statement" /\ item.ids = <<New>>
          /\ Written(item) = {New}
    BY <1>2, ToSetOne DEF Item, Written
  <1> HIDE DEF item
  <1>4. /\ Len(Line) + 1 \in DOMAIN Line' /\ Line'[Len(Line) + 1] = item
        /\ DOMAIN Line' = DOMAIN Line \cup {Len(Line) + 1}
        /\ \A i \in DOMAIN Line : Line'[i] = Line[i] /\ i < Len(Line) + 1
        /\ InLine' = InLine \cup {New}
    BY <1>1, <1>3, LineAppended
  <1>5. /\ InJob' = InJob /\ InTransactions' = InTransactions
        /\ Performed' = Performed /\ Dealt' = Dealt
        /\ \A u \in Thread : OpenTransaction(u)' = OpenTransaction(u)
    BY <1>1, OpenKept DEF InJob, InTransactions, Performed, Dealt
  <1>6. DOMAIN Line = 1..Len(Line) /\ Len(Line) \in Nat
    BY LineTyped
  <1>7. LinePlace'
    <2>1. (\A i \in DOMAIN Line : Sound(Line[i]))'
      <3>1. Len(item.ids) = 1
        BY <1>3
      <3> QED
        BY <1>1, <1>3, <1>4, <3>1 DEF Rest, LinePlace, Sound
    <2>2. \A id \in Written(item) : owner'[id] = t
      BY <1>2, <1>3
    <2>3. waiting' # NULL => waiting'.kind # "query"
                             /\ \A id \in Written(waiting') :
                                  owner'[id] = nMutex'
      BY <1>1, <1>3, <2>2, WaitingPlace
    <2>4. \A u \in Thread : \A id \in OpenTransaction(u)' : owner'[id] = u
      BY <1>2, <1>5 DEF Rest, LinePlace, Known
    <2> QED
      BY <1>1, <2>1, <2>3, <2>4 DEF LinePlace
  <1>8. Known'
    BY <1>2, <1>4, <1>5 DEF Rest, Known
  <1>9. Apart'
    <2>1. New \notin Performed \cup InJob \cup InLine \cup InTransactions
          /\ \A u \in Thread : New \notin OpenTransaction(u)
      BY <1>2 DEF Rest, Known
    <2>2. \A u \in Thread : OpenTransaction(u)'
             \cap (Performed' \cup InJob' \cup InLine' \cup InTransactions') =
               {}
      BY <1>4, <1>5, <2>1 DEF Rest, Apart
    <2>3. \A i \in DOMAIN Line' :
             Line'[i].kind = "statement" =>
             Written(Line'[i]) \cap InTransactions' = {}
      BY <1>3, <1>4, <1>5, <2>1 DEF Rest, Apart
    <2> QED
      BY <1>1, <1>5, <2>2, <2>3 DEF Rest, Apart
  <1>10. Ordered'
    <2>1. OrderedBy(owner')
      BY <1>1, OrderedGrows DEF Rest
    <2>2. /\ Performed \cup InJob \subseteq DOMAIN owner
          /\ \A i \in DOMAIN Line : Written(Line[i]) \in SUBSET DOMAIN owner
      BY InLineHas DEF Rest, Known
    <2>3. /\ Before(owner', Performed \cup InJob, {New})
          /\ \A i \in DOMAIN Line : Before(owner', Written(Line[i]), {New})
      BY <1>1, <2>2, OwnerGrows
    <2>4. Orderly(owner', item)
      BY <1>3 DEF Orderly, Ascending
    <2>5. \A i \in DOMAIN Line' :
            /\ Orderly(owner', Line'[i])
            /\ Before(owner', Performed' \cup InJob', Written(Line'[i]))
      BY <1>3, <1>4, <1>5, <2>1, <2>3, <2>4 DEF OrderedBy
    <2>6. ASSUME NEW i \in DOMAIN Line', NEW j \in DOMAIN Line', i < j
          PROVE  Before(owner', Written(Line'[i]), Written(Line'[j]))
      <3>1. i \in DOMAIN Line /\ Line'[i] = Line[i]
        BY <1>4, <1>6, <2>6
      <3>2. CASE j \in DOMAIN Line
        BY <1>4, <2>1, <2>6, <3>1, <3>2 DEF OrderedBy
      <3>3. CASE j = Len(Line) + 1
        BY <1>3, <1>4, <2>3, <3>1, <3>3
      <3> QED
        BY <1>4, <3>2, <3>3
    <2>7. ASSUME NEW u \in Thread
          PROVE  Before(owner', Performed' \cup InJob' \cup InLine',
                   OpenTransaction(u)')
      <3>1. Before(owner', Performed \cup InJob \cup InLine,
              OpenTransaction(u))
        BY <2>1 DEF OrderedBy
      <3>2. Before(owner', {New}, OpenTransaction(u))
        <4>1. m_tranQueues[t] = NULL => OpenTransaction(t) = {}
          BY DEF OpenTransaction
        <4>2. \A id \in OpenTransaction(u) : owner'[id] = u
          BY <1>2 DEF Rest, LinePlace, Known
        <4> QED
          BY <1>2, <4>1, <4>2 DEF Before
      <3>3. Before(owner', (Performed \cup InJob \cup InLine) \cup {New},
              OpenTransaction(u))
        BY <3>1, <3>2, BeforeUnion
      <3>4. (Performed \cup InJob \cup InLine) \cup {New} = Performed'
              \cup InJob' \cup InLine'
        BY <1>4, <1>5
      <3> QED
        BY <1>5, <3>3, <3>4
    <2>8. \A u \in Thread : m_tranQueues'[u] # NULL =>
            Ascending(owner', m_tranQueues'[u])
      BY <1>1, <2>1 DEF OrderedBy
    <2> QED
      BY <1>1, <1>5, <2>1, <2>5, <2>6, <2>7, <2>8 DEF OrderedBy, Ordered
  <1>11. Accounted'
    <2>1. \A id \in DOMAIN owner' :
              \/ id \in Dealt' \cup InJob' \cup InLine'
              \/ \E u \in Thread : id \in OpenTransaction(u)'
      BY <1>1, <1>2, <1>4, <1>5 DEF Rest, Accounted
    <2>2. job' # NULL /\ job'.kind = "query" => job'.ids \subseteq Dealt'
      BY <1>1, <1>5 DEF Rest, Accounted
    <2>3. ASSUME NEW i \in DOMAIN Line', Line'[i].kind = "query"
          PROVE  Line'[i].ids \subseteq
                 Dealt' \cup InJob'
                 \cup UNION {Written(Line'[j]) : j \in 1..(i - 1)}
      <3>1. i \in DOMAIN Line /\ Line'[i] = Line[i]
        BY <1>3, <1>4, <2>3
      <3>2. \A j \in 1..(i - 1) : Line'[j] = Line[j]
        BY <1>4, <1>6, <3>1
      <3>3. UNION {Written(Line'[j]) : j \in 1..(i - 1)} =
              UNION {Written(Line[j]) : j \in 1..(i - 1)}
        BY <3>2
      <3> QED
        BY <1>5, <2>3, <3>1, <3>3 DEF Rest, Accounted
    <2> QED
      BY <2>1, <2>2, <2>3 DEF Accounted
  <1> QED
    BY <1>7, <1>8, <1>9, <1>10, <1>11 DEF Rest

\* CommitTransaction, by which an open transaction becomes an item of the line,
\* keeps the invariant.
LEMMA CommitKeeps ==
  ASSUME TypeOK, WorkerPlace, Rest, NEW t \in Thread, CommitTransaction(t)
  PROVE  Rest'
  <1> DEFINE item == [kind |-> "transaction", ids |-> m_tranQueues[t]]
  <1> DEFINE Open == OpenTransaction(t)
  <1>1. /\ Delay(t, item) /\ nMutex = NULL /\ m_tranQueues[t] # NULL
        /\ delayed' = delayed \cup {m_tranQueues[t]}
        /\ m_tranQueues' = [m_tranQueues EXCEPT ![t] = NULL]
        /\ UNCHANGED <<owner, results, worker, job, autocommit, staged,
                       durable, phase, failed, lost>>
        /\ phase = "running"
    BY DEF CommitTransaction, Running, threadVars, serverVars
  <1>2. m_tranQueues[t] \in Seq(Statements) /\ Open = ToSet(m_tranQueues[t])
    BY <1>1 DEF TypeOK, OpenTransaction
  <1>3. /\ item \in Item /\ item.kind = "transaction"
        /\ item.ids = m_tranQueues[t]
        /\ Written(item) = Open /\ item.ids \in delayed'
    BY <1>1, <1>2 DEF Item, Written
  <1> HIDE DEF item
  <1>4. /\ Len(Line) + 1 \in DOMAIN Line' /\ Line'[Len(Line) + 1] = item
        /\ DOMAIN Line' = DOMAIN Line \cup {Len(Line) + 1}
        /\ \A i \in DOMAIN Line : Line'[i] = Line[i] /\ i < Len(Line) + 1
        /\ InLine' = InLine \cup Open
    BY <1>1, <1>3, LineAppended
  <1>5. /\ OpenTransaction(t)' = {} /\ m_tranQueues'[t] = NULL
        /\ \A u \in Thread : u # t =>
              m_tranQueues'[u] = m_tranQueues[u]
              /\ OpenTransaction(u)' = OpenTransaction(u)
    BY <1>1, OpenClosed
  <1>6. /\ InJob' = InJob /\ InTransactions' = InTransactions \cup Open
        /\ Performed' = Performed /\ Dealt' = Dealt
    BY <1>1, <1>2 DEF InJob, InTransactions, Performed, Dealt
  <1>7. DOMAIN Line = 1..Len(Line) /\ Len(Line) \in Nat
    BY LineTyped
  <1>8. /\ Open \cap (Performed \cup InJob \cup InLine \cup InTransactions) =
             {}
        /\ \A id \in Open : owner[id] = t
        /\ Open \subseteq DOMAIN owner
        /\ \A u \in Thread : u # t => Open \cap OpenTransaction(u) = {}
    BY OpenApart DEF Rest, Apart, LinePlace, Known
  <1> HIDE DEF Open
  <1>9. LinePlace'
    <2>1. (\A i \in DOMAIN Line : Sound(Line[i]))'
      BY <1>1, <1>3, <1>4 DEF Rest, LinePlace, Sound
    <2>2. waiting' # NULL => waiting'.kind # "query"
                             /\ \A id \in Written(waiting') :
                                  owner[id] = nMutex'
      BY <1>1, <1>3, <1>8, WaitingPlace
    <2>3. \A u \in Thread : \A id \in OpenTransaction(u)' : owner'[id] = u
      BY <1>1, <1>5 DEF Rest, LinePlace
    <2> QED
      BY <1>1, <2>1, <2>2, <2>3 DEF LinePlace
  <1>10. Known'
    BY <1>1, <1>4, <1>5, <1>6, <1>8 DEF Rest, Known
  <1>11. Apart'
    <2>1. \A u \in Thread : OpenTransaction(u)'
             \cap (Performed' \cup InJob' \cup InLine' \cup InTransactions') =
               {}
      BY <1>4, <1>5, <1>6, <1>8 DEF Rest, Apart
    <2>2. \A r \in delayed : ToSet(r) \subseteq InTransactions
      BY DEF InTransactions
    <2>3. \A r, s \in delayed' : r = s \/ ToSet(r) \cap ToSet(s) = {}
      BY <1>1, <1>2, <1>8, <2>2 DEF Rest, Apart
    <2>4. ASSUME NEW i \in DOMAIN Line', Line'[i].kind = "statement"
          PROVE  Written(Line'[i]) \cap InTransactions' = {}
      <3>1. i \in DOMAIN Line /\ Line'[i] = Line[i]
        BY <1>3, <1>4, <2>4
      <3> QED
        BY <1>6, <1>8, <2>4, <3>1, InLineHas DEF Rest, Apart
    <2>5. job' # NULL /\ job'.kind = "statement" =>
            InJob' \cap InTransactions' = {}
      BY <1>1, <1>6, <1>8 DEF Rest, Apart
    <2>6. worker' # "statements" => ToSet(staged') \cap InTransactions' = {}
      BY <1>1, <1>6, <1>8 DEF Rest, Apart, Performed
    <2> QED
      BY <2>1, <2>3, <2>4, <2>5, <2>6 DEF Apart
  <1>12. Ordered'
    <2>1. OrderedBy(owner)
      BY DEF Rest, Ordered
    <2>2. Before(owner, Performed \cup InJob \cup InLine, Open)
      BY <2>1 DEF OrderedBy, Open
    <2>3. /\ Before(owner, Performed \cup InJob, Open)
          /\ \A i \in DOMAIN Line : Before(owner, Written(Line[i]), Open)
      BY <2>2, InLineHas DEF Before
    <2>4. Orderly(owner, item)
      BY <1>1, <1>3, <2>1 DEF Orderly, OrderedBy
    <2>5. \A i \in DOMAIN Line' :
            /\ Orderly(owner, Line'[i])
            /\ Before(owner, Performed' \cup InJob', Written(Line'[i]))
      BY <1>3, <1>4, <1>6, <2>1, <2>3, <2>4 DEF OrderedBy
    <2>6. ASSUME NEW i \in DOMAIN Line', NEW j \in DOMAIN Line', i < j
          PROVE  Before(owner, Written(Line'[i]), Written(Line'[j]))
      <3>1. i \in DOMAIN Line /\ Line'[i] = Line[i]
        BY <1>4, <1>7, <2>6
      <3>2. CASE j \in DOMAIN Line
        BY <1>4, <2>1, <2>6, <3>1, <3>2 DEF OrderedBy
      <3>3. CASE j = Len(Line) + 1
        BY <1>3, <1>4, <2>3, <3>1, <3>3
      <3> QED
        BY <1>4, <3>2, <3>3
    <2>7. ASSUME NEW u \in Thread
          PROVE  Before(owner, Performed' \cup InJob' \cup InLine',
                   OpenTransaction(u)')
      <3>1. CASE u = t
        BY <1>5, <3>1, BeforeUnion
      <3>2. CASE u # t
        <4>1. Before(owner, Performed \cup InJob \cup InLine,
                OpenTransaction(u))
          BY <2>1 DEF OrderedBy
        <4>2. Before(owner, Open, OpenTransaction(u))
          BY <1>8, <3>2 DEF Before, Rest, LinePlace
        <4>3. Before(owner, (Performed \cup InJob \cup InLine) \cup Open,
                OpenTransaction(u))
          BY <4>1, <4>2, BeforeUnion
        <4>4. (Performed \cup InJob \cup InLine) \cup Open = Performed'
                \cup InJob' \cup InLine'
          BY <1>4, <1>6
        <4> QED
          BY <1>5, <3>2, <4>3, <4>4
      <3> QED
        BY <3>1, <3>2
    <2>8. \A u \in Thread : m_tranQueues'[u] # NULL =>
            Ascending(owner, m_tranQueues'[u])
      BY <1>5, <2>1 DEF OrderedBy
    <2> QED
      BY <1>1, <1>6, <2>1, <2>5, <2>6, <2>7, <2>8 DEF OrderedBy, Ordered
  <1>13. Accounted'
    <2>1. \A id \in DOMAIN owner' :
              \/ id \in Dealt' \cup InJob' \cup InLine'
              \/ \E u \in Thread : id \in OpenTransaction(u)'
      <3> SUFFICES ASSUME NEW id \in DOMAIN owner',
                          id \notin Dealt' \cup InJob' \cup InLine'
                   PROVE  \E u \in Thread : id \in OpenTransaction(u)'
        OBVIOUS
      <3>1. PICK u \in Thread : id \in OpenTransaction(u)
        BY <1>1, <1>4, <1>6 DEF Rest, Accounted
      <3>2. u # t
        BY <1>4, <3>1 DEF Open
      <3> QED
        BY <1>5, <3>1, <3>2
    <2>2. job' # NULL /\ job'.kind = "query" => job'.ids \subseteq Dealt'
      BY <1>1, <1>6 DEF Rest, Accounted
    <2>3. ASSUME NEW i \in DOMAIN Line', Line'[i].kind = "query"
          PROVE  Line'[i].ids \subseteq
                 Dealt' \cup InJob'
                 \cup UNION {Written(Line'[j]) : j \in 1..(i - 1)}
      <3>1. i \in DOMAIN Line /\ Line'[i] = Line[i]
        BY <1>3, <1>4, <2>3
      <3>2. \A j \in 1..(i - 1) : Line'[j] = Line[j]
        BY <1>4, <1>7, <3>1
      <3>3. UNION {Written(Line'[j]) : j \in 1..(i - 1)} =
              UNION {Written(Line[j]) : j \in 1..(i - 1)}
        BY <3>2
      <3> QED
        BY <1>6, <2>3, <3>1, <3>3 DEF Rest, Accounted
    <2> QED
      BY <2>1, <2>2, <2>3 DEF Accounted
  <1> QED
    BY <1>9, <1>10, <1>11, <1>12, <1>13 DEF Rest

\* AsyncQuery keeps the invariant, though it may overtake what another thread
\* has waiting: what the main thread delayed is before it, for the main thread
\* is not the one that waits.
LEMMA AskKeeps ==
  ASSUME TypeOK, WorkerPlace, Rest, AsyncQuery
  PROVE  Rest'
  <1>1. /\ UNCHANGED <<owner, m_tranQueues, nMutex, waiting, results, worker,
                       job, autocommit,
                       staged, durable, phase, failed, lost, delayed>>
        /\ phase = "running" /\ nMutex # Main
    BY DEF AsyncQuery, Running, clientVars, threadVars, serverVars
  <1>2. /\ InLine' = InLine /\ InJob' = InJob
        /\ InTransactions' = InTransactions
        /\ Performed' = Performed /\ Dealt' = Dealt
        /\ \A u \in Thread : OpenTransaction(u)' = OpenTransaction(u)
    BY <1>1, LineAsked, OpenKept DEF InJob, InTransactions, Performed, Dealt
  <1>3. /\ Asked.kind = "query" /\ Asked.ids = MainDelayed
        /\ Written(Asked) = {}
    BY DEF Asked, Written
  <1>4. /\ \A i \in DOMAIN Line' : i # Slot =>
             \E k \in DOMAIN Line : Line'[i] = Line[k]
        /\ Line'[Slot] = Asked
    BY LineAsked DEF Slot
  <1>5. LinePlace'
    <2>1. (\A i \in DOMAIN Line : Sound(Line[i]))'
      BY <1>1, <1>3, <1>4 DEF Rest, LinePlace, Sound
    <2> QED
      BY <1>1, <1>2, <2>1 DEF Rest, LinePlace
  <1>6. Known'
    BY <1>1, <1>2 DEF Rest, Known
  <1>7. Apart'
    <2>1. \A i \in DOMAIN Line' :
             Line'[i].kind = "statement" =>
             Written(Line'[i]) \cap InTransactions' = {}
      BY <1>2, <1>3, <1>4 DEF Rest, Apart
    <2> QED
      BY <1>1, <1>2, <2>1 DEF Rest, Apart
  <1>8. Ordered'
    <2>1. OrderedBy(owner)
      BY DEF Rest, Ordered
    <2>2. Orderly(owner, Asked)
      BY <1>3 DEF Orderly
    <2>3. \A i \in DOMAIN Line' :
            /\ Orderly(owner, Line'[i])
            /\ Before(owner, Performed' \cup InJob', Written(Line'[i]))
      BY <1>2, <1>3, <1>4, <2>1, <2>2, BeforeUnion DEF OrderedBy
    <2>4. ASSUME NEW i \in DOMAIN Line', NEW j \in DOMAIN Line', i < j
          PROVE  Before(owner, Written(Line'[i]), Written(Line'[j]))
      <3>1. CASE i = Slot \/ j = Slot
        BY <1>3, <1>4, <3>1, BeforeUnion
      <3>2. Slot \in Nat /\ i \in Nat /\ j \in Nat
        BY LineAsked DEF TypeOK, Slot
      <3>3. CASE j < Slot
        BY <2>1, <2>4, <3>2, <3>3, LineAsked DEF OrderedBy
      <3>4. CASE i < Slot /\ j > Slot
        <4>1. i \in DOMAIN Line /\ Line'[i] = Line[i]
          BY <3>4, LineAsked
        <4>2. Slot \in DOMAIN Line /\ Line'[j] = Line[Slot]
          BY <3>4, LineAsked
        <4> QED
          BY <2>1, <3>4, <4>1, <4>2 DEF OrderedBy
      <3>5. ~(i > Slot /\ j > Slot)
        BY <2>4, <3>2, LineAsked
      <3> QED
        BY <2>4, <3>1, <3>2, <3>3, <3>4, <3>5
    <2> QED
      BY <1>1, <1>2, <2>1, <2>3, <2>4 DEF OrderedBy, Ordered
  <1>9. Accounted'
    <2>1. \A id \in DOMAIN owner' :
              \/ id \in Dealt' \cup InJob' \cup InLine'
              \/ \E u \in Thread : id \in OpenTransaction(u)'
      BY <1>1, <1>2 DEF Rest, Accounted
    <2>2. job' # NULL /\ job'.kind = "query" => job'.ids \subseteq Dealt'
      BY <1>1, <1>2 DEF Rest, Accounted
    <2>3. ASSUME NEW i \in DOMAIN Line', Line'[i].kind = "query"
          PROVE  Line'[i].ids \subseteq
                 Dealt' \cup InJob'
                 \cup UNION {Written(Line'[j]) : j \in 1..(i - 1)}
      <3>1. Slot \in Nat /\ i \in Nat \ {0}
        BY LineAsked DEF TypeOK, Slot
      <3>2. DOMAIN Line \subseteq Nat \ {0}
        BY LineAsked
      <3>3. CASE i < Slot
        <4>1. i \in DOMAIN Line /\ Line'[i] = Line[i]
          BY <3>3, LineAsked
        <4>2. \A j \in 1..(i - 1) : Line'[j] = Line[j]
          <5> SUFFICES ASSUME NEW j \in 1..(i - 1) PROVE Line'[j] = Line[j]
            OBVIOUS
          <5>1. j \in DOMAIN Line /\ j < Slot
            BY <3>1, <3>3, <4>1, LineTyped
          <5>2. j \in DOMAIN Line'
            BY <5>1, LineAsked
          <5> QED
            BY <5>1, <5>2, LineAsked
        <4>3. UNION {Written(Line'[j]) : j \in 1..(i - 1)} =
                UNION {Written(Line[j]) : j \in 1..(i - 1)}
          BY <4>2
        <4> QED
          BY <1>2, <2>3, <4>1, <4>3 DEF Rest, Accounted
      <3>4. CASE i = Slot
        <4> SUFFICES ASSUME NEW id \in MainDelayed, id \notin Dealt \cup InJob
                     PROVE  \E j \in 1..(i - 1) : id \in Written(Line'[j])
          BY <1>2, <1>3, <1>4, <3>4
        <4>1. id \in DOMAIN owner /\ owner[id] = Main
                /\ id \notin OpenTransaction(Main)
          BY DEF MainDelayed
        <4>2. \A u \in Thread : id \notin OpenTransaction(u)
          BY <4>1 DEF Rest, LinePlace
        <4>3. id \in InLine
          BY <1>1, <4>1, <4>2 DEF Rest, Accounted
        <4>4. PICK k \in DOMAIN Line : id \in Written(Line[k])
          BY <4>3 DEF InLine
        <4>5. CASE k < Slot
          BY <3>1, <3>2, <3>4, <4>4, <4>5, LineAsked
        <4>6. CASE k = Slot /\ waiting # NULL /\ Line[Slot] = waiting
          BY <1>1, <4>1, <4>4, <4>6 DEF Rest, LinePlace
        <4> QED
          BY <4>4, <4>5, <4>6, LineAsked
      <3>5. CASE i > Slot
        BY <2>3, <3>5, LineAsked DEF Rest, LinePlace
      <3> QED
        BY <3>1, <3>3, <3>4, <3>5
    <2> QED
      BY <2>1, <2>2, <2>3 DEF Accounted
  <1> QED
    BY <1>5, <1>6, <1>7, <1>8, <1>9 DEF Rest

\* DirectPExecute keeps the invariant; it finds no transaction on the
\* connection, because of mMutex.
LEMMA DirectKeeps ==
  ASSUME TypeOK, WorkerPlace, Rest, NEW t \in Thread, DirectExecute(t)
  PROVE  Rest'
  <1>1. /\ NewStatement(NULL) /\ worker # "statements"
        /\ UNCHANGED <<m_tranQueues, nMutex, waiting, results, queue, worker,
                       job, phase, lost, delayed>>
        /\ phase = "running"
    BY DEF DirectExecute, InTransaction, Running, threadVars
  <1>2. /\ New \in Statements /\ New \notin DOMAIN owner
        /\ DOMAIN owner' = DOMAIN owner \cup {New} /\ owner'[New] = NULL
        /\ \A id \in DOMAIN owner : owner'[id] = owner[id]
    BY <1>1, NewTyped
  <1>3. /\ Line' = Line /\ InLine' = InLine /\ InJob' = InJob
        /\ InTransactions' = InTransactions
        /\ \A u \in Thread : OpenTransaction(u)' = OpenTransaction(u)
    BY <1>1, LineKept, OpenKept DEF InJob, InTransactions
  <1>4. \/ durable' = Append(durable, New) /\ staged' = staged
             /\ failed' = failed /\ autocommit
        \/ durable' = durable /\ staged' = Append(staged, New)
             /\ failed' = failed /\ ~autocommit
        \/ durable' = durable /\ staged' = staged
             /\ failed' = failed \cup {New}
    BY <1>2, PerformPlace DEF DirectExecute, TryStatement, serverVars
  <1>5. durable \in Seq(Statements) /\ staged \in Seq(Statements)
    BY DEF TypeOK
  <1>6. /\ ToSet(Append(durable, New)) = ToSet(durable) \cup {New}
        /\ ToSet(Append(staged, New)) = ToSet(staged) \cup {New}
    BY <1>2, <1>5, ToSetAppend
  <1>7. /\ Performed' \subseteq Performed \cup {New}
        /\ Dealt' = Dealt \cup {New}
        /\ ToSet(staged') \subseteq ToSet(staged) \cup {New}
        /\ ToSet(durable') \subseteq ToSet(durable) \cup {New}
    BY <1>1, <1>4, <1>6 DEF Performed, Dealt
  <1>8. New \notin Performed \cup InJob \cup InLine \cup InTransactions
        /\ \A u \in Thread : New \notin OpenTransaction(u)
    BY <1>2 DEF Rest, Known
  <1>9. LinePlace'
    <2>1. (\A i \in DOMAIN Line : Sound(Line[i]))'
      BY <1>1, <1>3 DEF Rest, LinePlace, Sound
    <2>2. \A u \in Thread : \A id \in OpenTransaction(u)' : owner'[id] = u
      BY <1>2, <1>3 DEF Rest, LinePlace, Known
    <2>3. waiting # NULL => Written(waiting) \subseteq InLine
      <3> SUFFICES ASSUME waiting # NULL
                   PROVE Written(waiting) \subseteq InLine
        OBVIOUS
      <3>1. queue \in Seq(Item) /\ waiting \in Item
        BY DEF TypeOK
      <3>2. Len(queue) + 1 \in DOMAIN Line /\ Line[Len(queue) + 1] = waiting
        BY <3>1, AppendProperties DEF Line
      <3> QED
        BY <3>2, InLineHas
    <2>4. waiting' # NULL => waiting'.kind # "query"
                             /\ \A id \in Written(waiting') :
                                  owner'[id] = nMutex'
      BY <1>1, <1>2, <2>3 DEF Rest, LinePlace, Known
    <2> QED
      BY <1>1, <2>1, <2>2, <2>4 DEF LinePlace
  <1>10. Known'
    BY <1>2, <1>3, <1>7 DEF Rest, Known
  <1>11. Apart'
    <2>1. \A u \in Thread : OpenTransaction(u)'
             \cap (Performed' \cup InJob' \cup InLine' \cup InTransactions') =
               {}
      BY <1>3, <1>7, <1>8 DEF Rest, Apart
    <2>2. ToSet(staged') \cap InTransactions' = {}
      BY <1>1, <1>3, <1>7, <1>8 DEF Rest, Apart
    <2> QED
      BY <1>1, <1>3, <2>1, <2>2 DEF Rest, Apart
  <1>12. Ordered'
    <2>1. OrderedBy(owner')
      BY <1>1, OrderedGrows DEF Rest
    <2>2. ToSet(durable) \in SUBSET DOMAIN owner
            /\ ToSet(staged) \in SUBSET DOMAIN owner
      BY DEF Rest, Known, Performed
    <2>3. /\ Before(owner', ToSet(durable), {New})
          /\ Before(owner', ToSet(staged), {New})
          /\ \A B : Before(owner', {New}, B)
      BY <1>1, <2>2, OwnerGrows
    <2>4. Ascending(owner', durable') /\ Ascending(owner', staged')
      <3>1. Ascending(owner', durable) /\ Ascending(owner', staged)
        BY <2>1 DEF OrderedBy
      <3>2. /\ Ascending(owner', Append(durable, New))
            /\ Ascending(owner', Append(staged, New))
        BY <1>2, <1>5, <2>3, <3>1, AscendingAppend
      <3> QED
        BY <1>4, <3>1, <3>2
    <2>5. Before(owner', ToSet(durable'), ToSet(staged'))
      <3>1. CASE durable' = Append(durable, New) /\ staged' = staged
        <4>1. Before(owner', ToSet(durable) \cup {New}, ToSet(staged))
          BY <2>1, <2>3, BeforeUnion DEF OrderedBy
        <4> QED
          BY <1>6, <3>1, <4>1
      <3>2. CASE durable' = durable /\ staged' = Append(staged, New)
        <4>1. Before(owner', ToSet(durable), ToSet(staged) \cup {New})
          BY <2>1, <2>3, BeforeUnion DEF OrderedBy
        <4> QED
          BY <1>6, <3>2, <4>1
      <3>3. CASE durable' = durable /\ staged' = staged
        BY <2>1, <3>3 DEF OrderedBy
      <3> QED
        BY <1>4, <3>1, <3>2, <3>3
    <2>6. \A A, B : Before(owner', A, B) => Before(owner', A \cup {New}, B)
      BY <2>3, BeforeUnion
    <2>7. \A A, B, C : Before(owner', A, B) /\ C \subseteq A =>
            Before(owner', C, B)
      BY BeforeUnion
    <2>8. /\ Before(owner', ToSet(durable'), InJob)
          /\ Before(owner', ToSet(staged'), InJob)
      BY <1>1, <1>7, <2>1, <2>6, <2>7 DEF OrderedBy
    <2>9. \A i \in DOMAIN Line :
            Before(owner', Performed' \cup InJob', Written(Line[i]))
      <3>1. \A i \in DOMAIN Line :
              Before(owner', (Performed \cup InJob) \cup {New},
              Written(Line[i]))
        BY <2>1, <2>6 DEF OrderedBy
      <3>2. Performed' \cup InJob' \subseteq (Performed \cup InJob) \cup {New}
        BY <1>3, <1>7
      <3> QED
        BY <2>7, <3>1, <3>2
    <2>10. \A u \in Thread :
             Before(owner', Performed' \cup InJob' \cup InLine',
             OpenTransaction(u))
      <3>1. \A u \in Thread :
              Before(owner', (Performed \cup InJob \cup InLine) \cup {New},
              OpenTransaction(u))
        BY <2>1, <2>6 DEF OrderedBy
      <3>2. Performed' \cup InJob' \cup InLine'
              \subseteq (Performed \cup InJob \cup InLine) \cup {New}
        BY <1>3, <1>7
      <3> QED
        BY <2>7, <3>1, <3>2
    <2> QED
      BY <1>1, <1>3, <2>1, <2>4, <2>5, <2>8, <2>9, <2>10 DEF OrderedBy, Ordered
  <1>13. Accounted'
    <2>1. \A id \in DOMAIN owner' :
              \/ id \in Dealt' \cup InJob' \cup InLine'
              \/ \E u \in Thread : id \in OpenTransaction(u)'
      BY <1>1, <1>2, <1>3, <1>7 DEF Rest, Accounted
    <2>2. job' # NULL /\ job'.kind = "query" => job'.ids \subseteq Dealt'
      BY <1>1, <1>7 DEF Rest, Accounted
    <2>3. \A i \in DOMAIN Line' : Line'[i].kind = "query" =>
              Line'[i].ids \subseteq
                 Dealt' \cup InJob'
                 \cup UNION {Written(Line'[j]) : j \in 1..(i - 1)}
      BY <1>3, <1>7 DEF Rest, Accounted
    <2> QED
      BY <2>1, <2>2, <2>3 DEF Accounted
  <1> QED
    BY <1>9, <1>10, <1>11, <1>12, <1>13 DEF Rest

\* Taking the first of the line keeps the invariant.
LEMMA DequeueKeeps ==
  ASSUME TypeOK, WorkerPlace, Rest, Dequeue, active
  PROVE  Rest'
  <1>1. /\ UNCHANGED <<owner, m_tranQueues, nMutex, waiting, phase,
                       autocommit, staged, durable,
                       failed, lost, delayed>>
        /\ worker = "dequeue" /\ worker' = job'.kind
    BY DEF Dequeue, clientVars, serverVars
  <1>2. /\ 1 \in DOMAIN Line /\ job' = Line[1]
        /\ \A i \in DOMAIN Line' :
             i + 1 \in DOMAIN Line /\ Line'[i] = Line[i + 1]
        /\ \A i \in DOMAIN Line : i > 1 => i - 1 \in DOMAIN Line'
        /\ DOMAIN Line' \subseteq Nat \ {0}
        /\ InLine = Written(job') \cup InLine'
    BY LineTaken
  <1>3. job' \in Item /\ job' # NULL
    BY <1>2, LineTyped, ElementOfSeq
  <1>4. worker' # "statements"
    BY <1>1, <1>3 DEF Item, ItemKind
  <1>5. /\ InJob = {} /\ InJob' = Written(job')
        /\ InJob' \cup InLine' = InJob \cup InLine
        /\ InTransactions' = InTransactions
        /\ Performed' = Performed /\ Dealt' = Dealt
        /\ \A u \in Thread : OpenTransaction(u)' = OpenTransaction(u)
    BY <1>1, <1>2, <1>3, JobPlace, OpenKept
       DEF InJob, InTransactions, Performed, Dealt
  <1>6. LinePlace'
    <2>1. (\A i \in DOMAIN Line : Sound(Line[i]))'
      BY <1>1, <1>2 DEF Rest, LinePlace, Sound
    <2>2. phase \in {"running", "stop"}
      <3> SUFFICES ASSUME phase \notin {"running", "stop"} PROVE FALSE
        OBVIOUS
      <3>1. Line = <<>>
        BY DEF Rest, LinePlace
      <3> QED
        BY <1>2, <3>1
    <2> QED
      BY <1>1, <1>5, <2>1, <2>2 DEF Rest, LinePlace
  <1>7. Known'
    BY <1>1, <1>5 DEF Rest, Known
  <1>8. Apart'
    <2>1. \A i \in DOMAIN Line' :
             Line'[i].kind = "statement" =>
             Written(Line'[i]) \cap InTransactions' = {}
      BY <1>2, <1>5 DEF Rest, Apart
    <2>2. job' # NULL /\ job'.kind = "statement" =>
            InJob' \cap InTransactions' = {}
      BY <1>2, <1>5 DEF Rest, Apart
    <2>3. \A u \in Thread : OpenTransaction(u)'
             \cap (Performed' \cup InJob' \cup InLine' \cup InTransactions') =
               {}
      BY <1>5 DEF Rest, Apart
    <2>4. ToSet(staged') \cap InTransactions' = {}
      BY <1>1, <1>5 DEF Rest, Apart
    <2> QED
      BY <1>1, <2>1, <2>2, <2>3, <2>4 DEF Rest, Apart
  <1>9. Ordered'
    <2>1. OrderedBy(owner)
      BY DEF Rest, Ordered
    <2>2. Before(owner, Performed, InJob') /\ Orderly(owner, job')
      BY <1>2, <1>5, <2>1 DEF OrderedBy
    <2>3. Before(owner, ToSet(durable), InJob')
            /\ Before(owner, ToSet(staged), InJob')
      BY <2>2 DEF Performed, Before
    <2>4. ASSUME NEW i \in DOMAIN Line'
          PROVE  /\ Orderly(owner, Line'[i])
                 /\ Before(owner, Performed' \cup InJob', Written(Line'[i]))
                 /\ \A j \in DOMAIN Line' : i < j =>
                      Before(owner, Written(Line'[i]), Written(Line'[j]))
      <3>1. i + 1 \in DOMAIN Line /\ Line'[i] = Line[i + 1] /\ 1 < i + 1
        BY <1>2
      <3>2. Before(owner, Performed, Written(Line'[i]))
              /\ Before(owner, InJob', Written(Line'[i]))
        BY <1>2, <1>5, <2>1, <3>1 DEF OrderedBy
      <3>3. Before(owner, Performed' \cup InJob', Written(Line'[i]))
        BY <1>5, <3>2, BeforeUnion
      <3>4. ASSUME NEW j \in DOMAIN Line', i < j
            PROVE  Before(owner, Written(Line'[i]), Written(Line'[j]))
        <4>1. j + 1 \in DOMAIN Line /\ Line'[j] = Line[j + 1] /\ i + 1 < j + 1
          BY <1>2, <3>4
        <4> QED
          BY <2>1, <3>1, <4>1 DEF OrderedBy
      <3> QED
        BY <2>1, <3>1, <3>3, <3>4 DEF OrderedBy
    <2>5. \A u \in Thread :
             Before(owner, Performed' \cup InJob' \cup InLine',
             OpenTransaction(u)')
      <3>1. Performed' \cup InJob' \cup InLine' = Performed \cup InJob
              \cup InLine
        BY <1>5
      <3> QED
        BY <1>5, <2>1, <3>1 DEF OrderedBy
    <2> QED
      BY <1>1, <2>1, <2>2, <2>3, <2>4, <2>5 DEF OrderedBy, Ordered
  <1>10. Accounted'
    <2>1. phase' \notin {"halted", "crashed"} =>
            \A id \in DOMAIN owner' :
              \/ id \in Dealt' \cup InJob' \cup InLine'
              \/ \E u \in Thread : id \in OpenTransaction(u)'
      BY <1>1, <1>5 DEF Rest, Accounted
    <2>2. job'.kind = "query" => job'.ids \subseteq Dealt'
      BY <1>2, <1>5 DEF Rest, Accounted
    <2>3. ASSUME NEW i \in DOMAIN Line', Line'[i].kind = "query"
          PROVE  Line'[i].ids \subseteq
                 Dealt' \cup InJob'
                 \cup UNION {Written(Line'[j]) : j \in 1..(i - 1)}
      <3>1. i + 1 \in DOMAIN Line /\ Line'[i] = Line[i + 1] /\ i \in Nat \ {0}
        BY <1>2
      <3>2. Line[i + 1].ids
              \subseteq Dealt \cup UNION {Written(Line[j]) : j \in 1..i}
        <4>1. (i + 1) - 1 = i
          BY <3>1
        <4> QED
          BY <1>5, <2>3, <3>1, <4>1 DEF Rest, Accounted
      <3>3. ASSUME NEW j \in 1..i
            PROVE  Written(Line[j]) \subseteq
                      InJob' \cup UNION {Written(Line'[k]) : k \in 1..(i - 1)}
        <4>1. CASE j = 1
          BY <1>2, <1>5, <4>1
        <4>2. CASE j # 1
          <5>1. j - 1 \in 1..(i - 1) /\ (j - 1) + 1 = j
            BY <3>1, <4>2
          <5>2. j \in DOMAIN Line /\ j > 1
            BY <3>1, <4>2, LineTyped
          <5>3. j - 1 \in DOMAIN Line'
            BY <1>2, <5>2
          <5>4. Line'[j - 1] = Line[j]
            BY <1>2, <5>1, <5>3
          <5> QED
            BY <5>1, <5>4
        <4> QED
          BY <4>1, <4>2
      <3> QED
        BY <1>5, <3>1, <3>2, <3>3
    <2> QED
      BY <2>1, <2>2, <2>3 DEF Accounted
  <1> QED
    BY <1>6, <1>7, <1>8, <1>9, <1>10 DEF Rest

\* What they leave.
WorkDone ==
    /\ Ascending(owner, durable') /\ Ascending(owner, staged')
    /\ Before(owner, ToSet(durable'), ToSet(staged'))
    /\ job' # NULL => job' = job /\ job.kind = "transaction"
    /\ Before(owner, ToSet(durable'), InJob')
    /\ worker' # "statements" =>
          InJob' = {} /\ ToSet(staged') \cap InTransactions = {}

\* Whatever the delay thread does with its job, what is durable and what is
\* staged stay in order, and no part of a transaction is left staged after it.
LEMMA WorkOrder ==
  ASSUME TypeOK, WorkerPlace, Rest, Working
  PROVE  WorkDone
  <1>1. durable \in Seq(Statements) /\ staged \in Seq(Statements)
    BY DEF TypeOK
  <1>2. /\ Ascending(owner, durable) /\ Ascending(owner, staged)
        /\ Before(owner, ToSet(durable), ToSet(staged))
        /\ Before(owner, ToSet(durable), InJob)
        /\ worker # "statements" => Before(owner, ToSet(staged), InJob)
        /\ job # NULL => Orderly(owner, job)
    BY DEF Rest, Ordered, OrderedBy
  <1>3. /\ worker # "statements" => ToSet(staged) \cap InTransactions = {}
        /\ job # NULL /\ job.kind = "statement" =>
             InJob \cap InTransactions = {}
    BY DEF Rest, Apart
  <1>4. /\ Ascending(owner, <<>>) /\ ToSet(<<>>) = {}
        /\ \A A : Before(owner, A, {})
    BY ToSetEmpty DEF Ascending, Before
  <1>5. Done => InJob' = {}
    BY DEF Done, InJob
  <1>6. /\ Ascending(owner, durable \o staged)
        /\ ToSet(durable \o staged) = ToSet(durable) \cup ToSet(staged)
    BY <1>1, <1>2, AscendingConcat, ToSetConcat
  <1>7. CASE ExecuteStatement
    <2>1. Done /\ InJob = {job.ids[1]} /\ job.ids[1] \in Statements
            /\ job # NULL
          /\ job.kind = "statement" /\ worker # "statements"
      BY <1>7, JobPlace DEF ExecuteStatement, WorkerPlace, ItemKind
    <2> DEFINE id == job.ids[1]
    <2>2. /\ Ascending(owner, Append(durable, id))
          /\ Ascending(owner, Append(staged, id))
          /\ ToSet(Append(durable, id)) = ToSet(durable) \cup {id}
          /\ ToSet(Append(staged, id)) = ToSet(staged) \cup {id}
      BY <1>1, <1>2, <2>1, AscendingAppend, ToSetAppend
    <2>3. CASE durable' = Append(durable, id) /\ staged' = staged /\ autocommit
      <3>1. ToSet(staged') = {}
        BY <1>4, <2>3 DEF WorkerPlace
      <3> QED
        BY <1>2, <1>4, <1>5, <2>1, <2>2, <2>3, <3>1 DEF WorkDone, Done
    <2>4. CASE staged' = Append(staged, id) /\ durable' = durable
      <3>1. Before(owner, ToSet(durable), ToSet(staged) \cup {id})
        BY <1>2, <2>1, BeforeUnion
      <3>2. (ToSet(staged) \cup {id}) \cap InTransactions = {}
        BY <1>3, <2>1
      <3> QED
        BY <1>2, <1>4, <1>5, <2>1, <2>2, <2>4, <3>1, <3>2 DEF WorkDone, Done
    <2>5. CASE UNCHANGED serverVars
      BY <1>2, <1>3, <1>4, <1>5, <2>1, <2>5 DEF WorkDone, Done, serverVars
    <2> QED
      BY <1>7, <2>1, <2>3, <2>4, <2>5, PerformPlace
         DEF ExecuteStatement, TryStatement
  <1>8. CASE ExecuteQuery
    BY <1>2, <1>3, <1>4, <1>5, <1>8
       DEF ExecuteQuery, WorkDone, Done, serverVars
  <1>9. CASE StartTransaction
    <2>1. worker = "transaction" /\ job # NULL /\ job.kind = "transaction"
      BY <1>9 DEF StartTransaction, WorkerPlace, ItemKind
    <2>2. CASE Done /\ UNCHANGED <<staged, durable>>
      BY <1>2, <1>3, <1>4, <1>5, <2>1, <2>2 DEF WorkDone, Done
    <2>3. CASE /\ durable' = durable \o staged /\ staged' = <<>>
               /\ worker' = "statements" /\ job' = job
      <3>1. InJob' = InJob
        BY <2>3 DEF InJob
      <3>2. Before(owner, ToSet(durable) \cup ToSet(staged), InJob)
        BY <1>2, <2>1, BeforeUnion
      <3> QED
        BY <1>4, <1>6, <2>1, <2>3, <3>1, <3>2 DEF WorkDone
    <2> QED
      BY <1>9, <2>2, <2>3 DEF StartTransaction, serverVars
  <1>10. CASE TransactionStatement
    <2>1. /\ worker = "statements" /\ job # NULL /\ job.kind = "transaction"
          /\ job.ids \in Seq(Statements) /\ Ascending(owner, job.ids)
          /\ InJob = ToSet(job.ids)
      BY <1>2, <1>10, JobPlace DEF TransactionStatement, WorkerPlace, Orderly
    <2>2. CASE /\ staged' = Append(staged, job.ids[Len(staged) + 1])
               /\ UNCHANGED <<durable, worker, job>>
      <3>1. Len(staged) < Len(job.ids) /\ Len(staged) \in Nat
              /\ Len(job.ids) \in Nat
        BY <1>1, <1>10, <2>1 DEF TransactionStatement
      <3>2. staged = SubSeq(job.ids, 1, Len(staged))
        BY <2>1 DEF WorkerPlace
      <3>3. staged' = SubSeq(job.ids, 1, Len(staged) + 1)
        BY <1>1, <2>1, <2>2, <3>1, <3>2
      <3>4. Ascending(owner, staged') /\ ToSet(staged') \subseteq InJob
        <4>1. Len(staged) + 1 \in 0..Len(job.ids)
          BY <3>1
        <4> QED
          BY <2>1, <3>3, <4>1, AscendingPrefix
      <3>5. InJob' = InJob
        BY <2>2 DEF InJob
      <3>6. Before(owner, ToSet(durable), ToSet(staged'))
        BY <1>2, <3>4, BeforeUnion
      <3> QED
        BY <1>2, <2>1, <2>2, <3>4, <3>5, <3>6 DEF WorkDone
    <2>3. CASE staged' = <<>> /\ Done /\ UNCHANGED durable
      BY <1>2, <1>4, <1>5, <2>3 DEF WorkDone, Done
    <2> QED
      BY <1>10, <2>2, <2>3 DEF TransactionStatement
  <1>11. CASE Commit
    <2>1. staged' = <<>> /\ Done
            /\ (durable' = durable \/ durable' = durable \o staged)
      BY <1>11 DEF Commit
    <2> QED
      BY <1>2, <1>4, <1>5, <1>6, <2>1 DEF WorkDone, Done
  <1> QED
    BY <1>7, <1>8, <1>9, <1>10, <1>11 DEF Working

\* Executing a job keeps the invariant.
LEMMA WorkKeeps ==
  ASSUME TypeOK, WorkerPlace, Rest, Working
  PROVE  Rest'
  <1>1. /\ UNCHANGED <<owner, m_tranQueues, nMutex, waiting, queue, phase,
                       delayed>>
        /\ Line' = Line /\ InLine' = InLine /\ InTransactions' = InTransactions
        /\ \A t \in Thread : OpenTransaction(t)' = OpenTransaction(t)
        /\ Performed' \cup InJob' \subseteq Performed \cup InJob
        /\ Dealt \subseteq Dealt' /\ InJob \subseteq Dealt' \cup InJob'
    BY WorkEffect
  <1>2. WorkDone
    BY WorkOrder
  <1>3. LinePlace'
    <2>1. (\A i \in DOMAIN Line : Sound(Line[i]))'
      BY <1>1 DEF Rest, LinePlace, Sound
    <2> QED
      BY <1>1, <2>1 DEF Rest, LinePlace
  <1>4. Known'
    BY <1>1 DEF Rest, Known
  <1>5. Apart'
    BY <1>1, <1>2 DEF Rest, Apart, WorkDone
  <1>6. Ordered'
    <2>1. OrderedBy(owner)
      BY DEF Rest, Ordered
    <2>2. \A i \in DOMAIN Line :
            Before(owner, Performed' \cup InJob', Written(Line[i]))
      BY <1>1, <2>1, BeforeUnion DEF OrderedBy
    <2>3. ASSUME NEW u \in Thread
          PROVE  Before(owner, Performed' \cup InJob' \cup InLine',
                   OpenTransaction(u))
      <3>1. Before(owner, Performed \cup InJob \cup InLine, OpenTransaction(u))
        BY <2>1 DEF OrderedBy
      <3>2. Performed' \cup InJob' \cup InLine'
              \subseteq Performed \cup InJob \cup InLine
        BY <1>1
      <3> QED
        BY <3>1, <3>2, BeforeUnion
    <2>4. /\ job' # NULL => Orderly(owner, job')
          /\ worker' # "statements" => Before(owner, ToSet(staged'), InJob')
      <3>1. \A A : Before(owner, A, {})
        BY DEF Before
      <3> QED
        BY <1>2, <2>1, <3>1 DEF WorkDone, OrderedBy
    <2> QED
      BY <1>1, <1>2, <2>1, <2>2, <2>3, <2>4 DEF OrderedBy, Ordered, WorkDone
  <1>7. Accounted'
    <2>1. phase' \notin {"halted", "crashed"} =>
            \A id \in DOMAIN owner' :
              \/ id \in Dealt' \cup InJob' \cup InLine'
              \/ \E u \in Thread : id \in OpenTransaction(u)'
      BY <1>1 DEF Rest, Accounted
    <2>2. job' # NULL /\ job'.kind = "query" => job'.ids \subseteq Dealt'
      BY <1>2 DEF WorkDone
    <2>3. ASSUME NEW i \in DOMAIN Line', Line'[i].kind = "query"
          PROVE  Line'[i].ids \subseteq
                 Dealt' \cup InJob'
                 \cup UNION {Written(Line'[j]) : j \in 1..(i - 1)}
      <3>1. Line[i].ids
              \subseteq Dealt \cup InJob
                \cup UNION {Written(Line[j]) : j \in 1..(i - 1)}
        BY <1>1, <2>3 DEF Rest, Accounted
      <3>2. Dealt \cup InJob \subseteq Dealt' \cup InJob'
        BY <1>1
      <3> QED
        BY <1>1, <3>1, <3>2
    <2> QED
      BY <2>1, <2>2, <2>3 DEF Accounted
  <1> QED
    BY <1>3, <1>4, <1>5, <1>6, <1>7 DEF Rest

\* The steps that move no statement from where it is.
Idle ==
    \/ RoomMade \/ ResultUpdate \/ TestRunning \/ (Dequeue /\ ~active)
    \/ HaltDelayThread \/ Stop \/ StopDeactivate \/ UNCHANGED vars

\* Steps that move no statement keep the invariant; Stop waits for the queue.
LEMMA IdleKeeps ==
  ASSUME TypeOK, WorkerPlace, Rest, Idle
  PROVE  Rest'
  <1> USE DEF clientVars, threadVars, serverVars, workerFrame, endFrame
  <1>1. UNCHANGED <<owner, m_tranQueues, job, staged, durable, delayed,
                    failed, lost>>
    BY DEF Idle, RoomMade, ResultUpdate, TestRunning, Dequeue, HaltDelayThread,
           Stop, StopDeactivate, vars
  <1>2. Line' = Line
    <2>1. CASE RoomMade
      BY <2>1, LineMoved
    <2>2. CASE ~RoomMade
      <3>1. UNCHANGED <<queue, waiting>>
        BY <2>2 DEF Idle, ResultUpdate, TestRunning, Dequeue, HaltDelayThread,
                    Stop, StopDeactivate, vars
      <3> QED
        BY <3>1, LineKept
    <2> QED
      BY <2>1, <2>2
  <1>3. worker' = "statements" <=> worker = "statements"
    BY DEF Idle, RoomMade, ResultUpdate, TestRunning, Dequeue, HaltDelayThread,
           Stop, StopDeactivate, vars
  <1>4. phase' = phase \/ phase \notin {"halted", "crashed"}
    BY DEF Idle, RoomMade, ResultUpdate, TestRunning, Dequeue, HaltDelayThread,
           Stop, StopDeactivate, vars
  <1>5. Known' /\ Apart' /\ Ordered' /\ Accounted'
    BY <1>1, <1>2, <1>3, <1>4, StillKeeps
  <1>6. LinePlace'
    <2>1. (\A i \in DOMAIN Line : Sound(Line[i]))'
      BY <1>1, <1>2 DEF Rest, LinePlace, Sound
    <2>2. \A t \in Thread : \A id \in OpenTransaction(t)' : owner'[id] = t
      BY <1>1, OpenKept DEF Rest, LinePlace
    <2>3. waiting' # NULL => waiting' = waiting /\ nMutex' = nMutex
      BY DEF Idle, RoomMade, ResultUpdate, TestRunning, Dequeue,
         HaltDelayThread,
           Stop, StopDeactivate, vars
    <2>4. waiting' # NULL => waiting'.kind # "query"
                             /\ \A id \in Written(waiting') :
                                  owner'[id] = nMutex'
      BY <1>1, <2>3 DEF Rest, LinePlace
    <2>5. phase' # "running" => waiting' = NULL
      <3>1. CASE HaltDelayThread
        BY <3>1 DEF HaltDelayThread, Quiet, TypeOK
      <3>2. CASE ~HaltDelayThread
        <4>1. phase' # "running" => phase # "running"
          BY <3>2 DEF Idle, RoomMade, ResultUpdate, TestRunning, Dequeue,
                      Stop, StopDeactivate, vars
        <4> QED
          BY <2>3, <4>1 DEF Rest, LinePlace
      <3> QED
        BY <3>1, <3>2
    <2>6. phase' \notin {"running", "stop"} => Line' = <<>>
      <3>1. CASE Stop
        <4>1. Line = queue /\ queue = <<>>
          BY <3>1 DEF Stop, Line, Rest, LinePlace
        <4> QED
          BY <1>2, <4>1
      <3>2. CASE ~Stop
        <4>1. phase' \notin {"running", "stop"} =>
                phase \notin {"running", "stop"}
          BY <3>2 DEF Idle, RoomMade, ResultUpdate, TestRunning, Dequeue,
                      HaltDelayThread, StopDeactivate, vars
        <4> QED
          BY <1>2, <4>1 DEF Rest, LinePlace
      <3> QED
        BY <3>1, <3>2
    <2> QED
      BY <2>1, <2>2, <2>4, <2>5, <2>6 DEF LinePlace
  <1> QED
    BY <1>5, <1>6 DEF Rest

\* The end of the program keeps the invariant, be it HaltDelayThread's or a
\* crash.
LEMMA EndKeeps ==
  ASSUME TypeOK, WorkerPlace, Rest, Halted \/ Crash
  PROVE  Rest'
  <1>1. /\ UNCHANGED <<owner, delayed, durable>> /\ staged' = <<>>
        /\ phase' \in {"halted", "crashed"} /\ worker' = "ended"
        /\ m_tranQueues' = m_tranQueues
             \/ m_tranQueues' = [t \in Thread |-> NULL]
    BY DEF Halted, Crash, endFrame, clientVars
  <1>2. Line' = <<>> /\ waiting' = NULL /\ DOMAIN Line' = {}
    <2>1. CASE Halted
      <3>1. Line = <<>> /\ waiting = NULL
        BY <2>1 DEF Halted, Rest, LinePlace
      <3> QED
        BY <2>1, <3>1, LineKept DEF Halted, endFrame, clientVars
    <2>2. CASE Crash
      BY <2>2 DEF Crash, Line
    <2> QED
      BY <2>1, <2>2
  <1>3. job' = NULL
    BY DEF Halted, Crash, WorkerPlace, endFrame
  <1>4. /\ InLine' = {} /\ InJob' = {} /\ InTransactions' = InTransactions
        /\ Performed' \subseteq Performed
    BY <1>1, <1>2, <1>3, ToSetEmpty
       DEF InLine, InJob, InTransactions, Performed
  <1>5. \A t \in Thread : m_tranQueues'[t] \in {m_tranQueues[t], NULL}
    BY <1>1
  <1>6. \A t \in Thread : OpenTransaction(t)' \in {OpenTransaction(t), {}}
    BY <1>5 DEF OpenTransaction
  <1>7. LinePlace'
    <2>1. \A t \in Thread : \A id \in OpenTransaction(t)' : owner'[id] = t
      BY <1>1, <1>6 DEF Rest, LinePlace
    <2> QED
      BY <1>2, <2>1 DEF LinePlace
  <1>8. Known'
    BY <1>1, <1>4, <1>6 DEF Rest, Known
  <1>9. Apart'
    <2>1. \A t \in Thread : OpenTransaction(t)'
             \cap (Performed' \cup InJob' \cup InLine' \cup InTransactions') =
               {}
      BY <1>4, <1>6 DEF Rest, Apart
    <2>2. ToSet(staged') = {}
      BY <1>1, ToSetEmpty
    <2> QED
      BY <1>1, <1>2, <1>3, <2>1, <2>2 DEF Rest, Apart
  <1>10. Ordered'
    <2>1. OrderedBy(owner)
      BY DEF Rest, Ordered
    <2>2. /\ Ascending(owner, <<>>) /\ ToSet(<<>>) = {}
          /\ \A A : Before(owner, A, {}) /\ Before(owner, {}, A)
      BY ToSetEmpty DEF Ascending, Before
    <2>3. ASSUME NEW t \in Thread
          PROVE  /\ m_tranQueues'[t] # NULL =>
                      Ascending(owner, m_tranQueues'[t])
                 /\ Before(owner, Performed' \cup InJob' \cup InLine',
                      OpenTransaction(t)')
      <3>1. Before(owner, Performed \cup InJob \cup InLine, OpenTransaction(t))
        BY <2>1 DEF OrderedBy
      <3>2. Performed' \cup InJob' \cup InLine'
              \subseteq Performed \cup InJob \cup InLine
        BY <1>4
      <3>3. OpenTransaction(t)' \subseteq OpenTransaction(t)
        BY <1>6
      <3>4. Before(owner, Performed' \cup InJob' \cup InLine',
              OpenTransaction(t)')
        BY <3>1, <3>2, <3>3, BeforeUnion
      <3> QED
        BY <1>5, <2>1, <3>4 DEF OrderedBy
    <2> QED
      BY <1>1, <1>2, <1>3, <1>4, <2>1, <2>2, <2>3 DEF OrderedBy, Ordered
  <1>11. Accounted'
    BY <1>1, <1>2, <1>3 DEF Accounted
  <1> QED
    BY <1>7, <1>8, <1>9, <1>10, <1>11 DEF Rest

\* The loss of the connection keeps the invariant: what was staged is lost.
LEMMA LossKeeps ==
  ASSUME TypeOK, WorkerPlace, Rest, ConnectionLost
  PROVE  Rest'
  <1>1. /\ UNCHANGED <<owner, m_tranQueues, nMutex, waiting, queue, worker,
                       job, durable, phase, failed, delayed>>
        /\ staged' = <<>> /\ lost' = lost \cup ToSet(staged)
    BY DEF ConnectionLost, clientVars, threadVars
  <1>2. /\ Line' = Line /\ InLine' = InLine /\ InJob' = InJob
        /\ InTransactions' = InTransactions
        /\ \A t \in Thread : OpenTransaction(t)' = OpenTransaction(t)
    BY <1>1, LineKept, OpenKept DEF InJob, InTransactions
  <1>3. /\ ToSet(staged') = {} /\ Performed' \subseteq Performed
        /\ Dealt' = Dealt
    BY <1>1, ToSetEmpty DEF Performed, Dealt
  <1>4. LinePlace'
    <2>1. (\A i \in DOMAIN Line : Sound(Line[i]))'
      BY <1>1, <1>2 DEF Rest, LinePlace, Sound
    <2> QED
      BY <1>1, <1>2, <2>1 DEF Rest, LinePlace
  <1>5. Known'
    BY <1>1, <1>2, <1>3 DEF Rest, Known
  <1>6. Apart'
    BY <1>1, <1>2, <1>3 DEF Rest, Apart
  <1>7. Ordered'
    <2>1. OrderedBy(owner)
      BY DEF Rest, Ordered
    <2>2. /\ Ascending(owner, <<>>)
          /\ \A A : Before(owner, A, {}) /\ Before(owner, {}, A)
      BY DEF Ascending, Before
    <2>3. \A i \in DOMAIN Line :
            Before(owner, Performed' \cup InJob, Written(Line[i]))
      BY <1>3, <2>1, BeforeUnion DEF OrderedBy
    <2>4. ASSUME NEW t \in Thread
          PROVE  Before(owner, Performed' \cup InJob \cup InLine,
                        OpenTransaction(t))
      <3>1. Before(owner, Performed \cup InJob \cup InLine, OpenTransaction(t))
        BY <2>1 DEF OrderedBy
      <3>2. Performed' \cup InJob \cup InLine
              \subseteq Performed \cup InJob \cup InLine
        BY <1>3
      <3> QED
        BY <3>1, <3>2, BeforeUnion
    <2> QED
      BY <1>1, <1>2, <1>3, <2>1, <2>2, <2>3, <2>4 DEF OrderedBy, Ordered
  <1>8. Accounted'
    <2>1. phase' \notin {"halted", "crashed"} =>
            \A id \in DOMAIN owner' :
              \/ id \in Dealt' \cup InJob' \cup InLine'
              \/ \E t \in Thread : id \in OpenTransaction(t)'
      BY <1>1, <1>2, <1>3 DEF Rest, Accounted
    <2>2. job' # NULL /\ job'.kind = "query" => job'.ids \subseteq Dealt'
      BY <1>1, <1>3 DEF Rest, Accounted
    <2>3. \A i \in DOMAIN Line' : Line'[i].kind = "query" =>
              Line'[i].ids \subseteq
                 Dealt' \cup InJob'
                 \cup UNION {Written(Line'[j]) : j \in 1..(i - 1)}
      BY <1>2, <1>3 DEF Rest, Accounted
    <2> QED
      BY <2>1, <2>2, <2>3 DEF Accounted
  <1> QED
    BY <1>4, <1>5, <1>6, <1>7, <1>8 DEF Rest

\* Every step keeps what the invariant says of the statements.
LEMMA NextRest ==
  ASSUME TypeOK, WorkerPlace, Rest, [Next]_vars
  PROVE  Rest'
  <1>1. ASSUME NEW t \in Thread, Execute(t)
        PROVE  Rest'
    BY <1>1, EnlistKeeps, DelayKeeps
  <1>2. ASSUME NEW t \in Thread, BeginTransaction(t) \/ RollbackTransaction(t)
        PROVE  Rest'
    BY <1>2, CloseKeeps
  <1>3. ASSUME NEW t \in Thread, CommitTransaction(t)
        PROVE  Rest'
    BY <1>3, CommitKeeps
  <1>4. ASSUME NEW t \in Thread, DirectExecute(t)
        PROVE  Rest'
    BY <1>4, DirectKeeps
  <1>5. CASE AsyncQuery
    BY <1>5, AskKeeps
  <1>6. CASE Dequeue /\ active
    BY <1>6, DequeueKeeps
  <1>7. CASE Working
    BY <1>7, WorkKeeps
  <1>8. CASE Idle
    BY <1>8, IdleKeeps
  <1>9. CASE Halted \/ Crash
    BY <1>9, EndKeeps
  <1>10. CASE ConnectionLost
    BY <1>10, LossKeeps
  <1> QED
    BY <1>1, <1>2, <1>3, <1>4, <1>5, <1>6, <1>7, <1>8, <1>9, <1>10
    DEF Next, Clients, DelayThread, Working, Idle, Over

\* The program starts with no statement anywhere.
LEMMA InitRest == Init => WorkerPlace /\ Rest
  <1> SUFFICES ASSUME Init PROVE WorkerPlace /\ Rest
    OBVIOUS
  <1>1. WorkerPlace
    BY DEF Init, WorkerPlace, ItemKind
  <1>2. /\ Line = <<>> /\ InLine = {} /\ InJob = {} /\ InTransactions = {}
        /\ Performed = {} /\ DOMAIN Line = {}
        /\ \A t \in Thread : OpenTransaction(t) = {} /\ m_tranQueues[t] = NULL
    BY ToSetEmpty
       DEF Init, Line, InLine, InJob, InTransactions, Performed,
       OpenTransaction
  <1>3. LinePlace /\ Known
    BY <1>2 DEF Init, LinePlace, Known
  <1>4. Apart
    BY <1>2, ToSetEmpty DEF Init, Apart
  <1>5. Ordered
    BY <1>2, ToSetEmpty DEF Init, Ordered, OrderedBy, Ascending, Before
  <1>6. Accounted
    BY <1>2 DEF Init, Accounted
  <1> QED
    BY <1>1, <1>3, <1>4, <1>5, <1>6 DEF Rest

\* tran is in d, in one piece.
InPiece(tran, d) ==
    \E i \in 0..(Len(d) - Len(tran)) : SubSeq(d, i + 1, i + Len(tran)) = tran

----------------------------------------------------------------------------
(* The properties.                                                         *)

\* A transaction that is in the database in one piece stays so when more is
\* written after it.
LEMMA PieceKept ==
  ASSUME NEW S, NEW d \in Seq(S), NEW e \in Seq(S), NEW tran \in Seq(S),
         InPiece(tran, d)
  PROVE  InPiece(tran, d \o e)
  <1>1. PICK i \in 0..(Len(d) - Len(tran)) : SubSeq(d, i + 1, i + Len(tran)) =
                                               tran
    BY DEF InPiece
  <1>2. /\ Len(d) \in Nat /\ Len(e) \in Nat /\ Len(tran) \in Nat
        /\ d \o e \in Seq(S) /\ Len(d \o e) = Len(d) + Len(e)
        /\ \A k \in 1..Len(d) : (d \o e)[k] = d[k]
    BY ConcatProperties
  <1>3. i \in 0..(Len(d \o e) - Len(tran)) /\ i \in Nat
          /\ i + Len(tran) <= Len(d)
    BY <1>2
  <1>4. SubSeq(d \o e, i + 1, i + Len(tran)) = SubSeq(d, i + 1, i + Len(tran))
    BY <1>2, <1>3
  <1> QED
    BY <1>1, <1>3, <1>4 DEF InPiece

\* A transaction written as a whole is in one piece.
LEMMA PieceAdded ==
  ASSUME NEW S, NEW d \in Seq(S), NEW tran \in Seq(S)
  PROVE  InPiece(tran, d \o tran)
  <1>1. /\ Len(d) \in Nat /\ Len(tran) \in Nat
        /\ d \o tran \in Seq(S) /\ Len(d \o tran) = Len(d) + Len(tran)
        /\ \A k \in 1..Len(tran) : (d \o tran)[Len(d) + k] = tran[k]
    BY ConcatProperties
  <1>2. SubSeq(d \o tran, Len(d) + 1, Len(d) + Len(tran)) = tran
    BY <1>1
  <1>3. Len(d) \in 0..(Len(d \o tran) - Len(tran))
    BY <1>1
  <1> QED
    BY <1>2, <1>3 DEF InPiece

Grown(e) == durable' = durable \o e

\* The database only grows, by what belongs to no transaction or by a
\* transaction as a whole.
LEMMA DurableGrows ==
  ASSUME TypeOK, WorkerPlace, Rest, [Next]_vars
  PROVE  \E e \in Seq(Statements) :
            Grown(e) /\ (ToSet(e) \cap InTransactions = {} \/ e \in delayed)
  <1> USE DEF clientVars, threadVars, serverVars, workerFrame, endFrame
  <1>1. durable \in Seq(Statements) /\ staged \in Seq(Statements)
    BY DEF TypeOK
  <1>2. durable' = durable =>
           Grown(<<>>) /\ <<>> \in Seq(Statements)
           /\ ToSet(<<>>) \cap InTransactions = {}
    BY <1>1, ToSetEmpty, ConcatEmptySeq DEF Grown
  <1>3. ASSUME NEW id \in Statements, Perform(id), id \notin InTransactions
        PROVE  \E e \in Seq(Statements) :
                 Grown(e) /\ ToSet(e) \cap InTransactions = {}
    <2>1. CASE durable' = Append(durable, id)
      <3>1. <<id>> \in Seq(Statements) /\ ToSet(<<id>>) = {id}
        BY ToSetOne
      <3>2. Grown(<<id>>)
        BY <1>1, <2>1, AppendIsConcat DEF Grown
      <3> QED
        BY <1>3, <3>1, <3>2
    <2>2. CASE durable' = durable
      BY <1>2, <2>2
    <2> QED
      BY <1>3, <2>1, <2>2, PerformPlace
  <1>4. ASSUME NEW t \in Thread, DirectExecute(t)
        PROVE  \E e \in Seq(Statements) :
                 Grown(e) /\ ToSet(e) \cap InTransactions = {}
    <2>1. New \in Statements /\ New \notin InTransactions
      <3>1. NewStatement(NULL)
        BY <1>4 DEF DirectExecute
      <3> QED
        BY <3>1, NewTyped DEF Rest, Known
    <2>2. Perform(New) \/ durable' = durable
      BY <1>4 DEF DirectExecute, TryStatement
    <2> QED
      BY <1>2, <1>3, <2>1, <2>2
  <1>5. CASE ExecuteStatement
    <2>1. job.ids[1] \in Statements /\ job.ids[1] \notin InTransactions
      BY <1>5, JobPlace
         DEF ExecuteStatement, WorkerPlace, ItemKind, Rest, Apart
    <2>2. Perform(job.ids[1]) \/ durable' = durable
      BY <1>5 DEF ExecuteStatement, TryStatement
    <2> QED
      BY <1>2, <1>3, <2>1, <2>2
  <1>6. CASE StartTransaction
    <2>1. durable' = durable \/ Grown(staged)
      BY <1>6 DEF StartTransaction, Grown
    <2>2. ToSet(staged) \cap InTransactions = {}
      BY <1>6 DEF StartTransaction, Rest, Apart
    <2> QED
      BY <1>1, <1>2, <2>1, <2>2
  <1>7. CASE Commit
    <2>1. durable' = durable \/ Grown(staged)
      BY <1>7 DEF Commit, Grown
    <2>2. staged = job.ids /\ job.ids \in delayed
      BY <1>7, JobPlace, SubSeqFull DEF Commit, WorkerPlace, Sound
    <2> QED
      BY <1>1, <1>2, <2>1, <2>2
  <1>8. CASE Idle \/ AsyncQuery \/ Dequeue \/ ExecuteQuery
               \/ TransactionStatement \/ Halted \/ Crash \/ ConnectionLost
    <2>1. durable' = durable
      BY <1>8 DEF Idle, RoomMade, ResultUpdate, TestRunning, Dequeue,
         HaltDelayThread, Stop,
           StopDeactivate, vars, AsyncQuery, ExecuteQuery,
           TransactionStatement, Halted, Crash, ConnectionLost
    <2> QED
      BY <1>2, <2>1
  <1>9. ASSUME NEW t \in Thread,
               Execute(t) \/ BeginTransaction(t) \/ CommitTransaction(t)
               \/ RollbackTransaction(t)
        PROVE  durable' = durable
    BY <1>9 DEF Execute, BeginTransaction, CommitTransaction,
       RollbackTransaction
  <1> QED
    BY <1>2, <1>4, <1>5, <1>6, <1>7, <1>8, <1>9
       DEF Next, Clients, DelayThread, Idle, Over

\* A transaction that is delayed has nothing in the database yet.
LEMMA DelayedGrows ==
  ASSUME TypeOK, WorkerPlace, Rest, [Next]_vars
  PROVE  \A tran \in delayed' :
            tran \in delayed
            \/ (durable' = durable /\ ToSet(tran) \cap ToSet(durable) = {})
  <1> USE DEF clientVars, threadVars, serverVars, workerFrame, endFrame
  <1>1. ASSUME NEW t \in Thread, CommitTransaction(t)
        PROVE  /\ delayed' = delayed \cup {m_tranQueues[t]}
               /\ durable' = durable
               /\ ToSet(m_tranQueues[t]) \cap ToSet(durable) = {}
    <2>1. ToSet(m_tranQueues[t]) = OpenTransaction(t)
      BY <1>1 DEF CommitTransaction, OpenTransaction
    <2> QED
      BY <1>1, <2>1 DEF CommitTransaction, Rest, Apart, Performed
  <1>2. (\E t \in Thread : CommitTransaction(t)) \/ delayed' = delayed
    BY DEF Next, Clients, DelayThread, Execute, BeginTransaction,
       RollbackTransaction, DirectExecute,
       RoomMade, AsyncQuery, ResultUpdate, TestRunning, Dequeue,
       ExecuteStatement, ExecuteQuery,
       StartTransaction, TransactionStatement, Commit, HaltDelayThread, Stop,
       StopDeactivate,
       Halted, ConnectionLost, Crash, Over, vars
  <1> QED
    BY <1>1, <1>2

\* Every step keeps the transactions whole.
LEMMA NextAtomic ==
  ASSUME TypeOK, WorkerPlace, Rest, [Next]_vars, Atomic
  PROVE  Atomic'
  <1>1. PICK e \in Seq(Statements) :
            Grown(e) /\ (ToSet(e) \cap InTransactions = {} \/ e \in delayed)
    BY DurableGrows
  <1>2. SUFFICES ASSUME NEW tran \in delayed'
                 PROVE  ToSet(tran) \cap ToSet(durable') = {}
                          \/ InPiece(tran, durable')
    BY DEF Atomic, InPiece
  <1>3. CASE durable' = durable /\ ToSet(tran) \cap ToSet(durable) = {}
    BY <1>3
  <1>4. CASE tran \in delayed
    <2>1. /\ durable \in Seq(Statements) /\ tran \in Seq(Statements)
          /\ ToSet(durable') = ToSet(durable) \cup ToSet(e)
      BY <1>1, <1>4, ToSetConcat DEF TypeOK, Grown
    <2>2. CASE tran = e
      BY <1>1, <2>1, <2>2, PieceAdded DEF Grown
    <2>3. CASE tran # e
      <3>1. ToSet(tran) \cap ToSet(e) = {}
        BY <1>1, <1>4, <2>3 DEF InTransactions, Rest, Apart
      <3>2. CASE ToSet(tran) \cap ToSet(durable) = {}
        BY <2>1, <3>1, <3>2
      <3>3. CASE InPiece(tran, durable)
        BY <1>1, <2>1, <3>3, PieceKept DEF Grown
      <3> QED
        BY <1>4, <3>2, <3>3 DEF Atomic, InPiece
    <2> QED
      BY <2>2, <2>3
  <1> QED
    BY <1>2, <1>3, <1>4, DelayedGrows

\* Every step keeps the answers: the query that is executed finds what was
\* delayed before it done, and statements that failed stay failed.
LEMMA NextReads ==
  ASSUME TypeOK, WorkerPlace, Rest, [Next]_vars, ReadsOwnWrites
  PROVE  ReadsOwnWrites'
  <1> USE DEF clientVars, threadVars, serverVars, workerFrame, endFrame
  <1>1. results \in Seq([asked : SUBSET Statements, seen : SUBSET Statements])
    BY DEF TypeOK
  <1>2. CASE ExecuteQuery
    <2>1. job # NULL /\ job.kind = "query" /\ job.ids \subseteq Dealt
      BY <1>2, JobPlace DEF ExecuteQuery, Rest, Accounted
    <2>2. ToSet(durable \o staged) = Performed
      BY ToSetConcat DEF TypeOK, Performed
    <2>3. PICK answer \in {[asked |-> job.ids, seen |-> job.ids \cap Performed],
                           [asked |-> {}, seen |-> {}]} :
            /\ results' = Append(results, answer)
            /\ failed' = failed /\ lost' = lost
      BY <1>2, <2>2 DEF ExecuteQuery
    <2>4. answer.asked \subseteq answer.seen \cup failed \cup lost
      BY <2>1, <2>3 DEF Dealt
    <2>5. /\ DOMAIN results' = 1..(Len(results) + 1)
          /\ results'[Len(results) + 1] = answer
          /\ DOMAIN results = 1..Len(results) /\ Len(results) \in Nat
          /\ \A i \in 1..Len(results) : results'[i] = results[i]
      BY <1>1, <2>3
    <2> QED
      BY <2>3, <2>4, <2>5 DEF ReadsOwnWrites
  <1>3. CASE ResultUpdate
    <2>1. /\ results # <<>> /\ results' = Tail(results)
          /\ failed' = failed /\ lost' = lost
      BY <1>3 DEF ResultUpdate
    <2>2. \A i \in DOMAIN results' :
            i + 1 \in DOMAIN results /\ results'[i] = results[i + 1]
      BY <1>1, <2>1
    <2> QED
      BY <2>1, <2>2 DEF ReadsOwnWrites
  <1>4. CASE Crash
    BY <1>4 DEF Crash, ReadsOwnWrites
  <1>5. CASE ~ExecuteQuery /\ ~ResultUpdate /\ ~Crash
    <2>1. results' = results
      BY <1>5 DEF Next, Clients, DelayThread, Execute, BeginTransaction,
         CommitTransaction,
         RollbackTransaction, DirectExecute, RoomMade, AsyncQuery,
         TestRunning, Dequeue,
         ExecuteStatement, StartTransaction, TransactionStatement, Commit,
         HaltDelayThread, Stop,
         StopDeactivate, Halted, ConnectionLost, Over, vars
    <2>2. failed \subseteq failed' /\ lost \subseteq lost'
      BY <1>5 DEF Next, Clients, DelayThread, Execute, BeginTransaction,
         CommitTransaction,
         RollbackTransaction, DirectExecute, RoomMade, AsyncQuery,
         TestRunning, Dequeue, GiveUp, TryStatement,
         ExecuteStatement, StartTransaction, TransactionStatement, Commit,
         HaltDelayThread, Stop,
         StopDeactivate, Halted, ConnectionLost, Over, vars
    <2> QED
      BY <2>1, <2>2 DEF ReadsOwnWrites
  <1> QED
    BY <1>2, <1>3, <1>4, <1>5

\* When the program is over the delay thread has ended, and nothing moves.
LEMMA NextEnded ==
  ASSUME TypeOK, WorkerPlace, Rest, Ended, [Next]_vars
  PROVE  /\ Ended'
         /\ phase = "halted" => UNCHANGED vars
         /\ phase' = "halted" => Halted \/ phase = "halted"
  <1> USE DEF clientVars, threadVars, serverVars, workerFrame, endFrame
  <1>1. CASE Clients
    <2>1. nMutex # NULL => phase = "running"
      BY DEF TypeOK, Rest, LinePlace
    <2>2. phase = "running" /\ phase' = phase
      BY <1>1, <2>1
         DEF Clients, Execute, BeginTransaction, CommitTransaction,
         RollbackTransaction,
         DirectExecute, RoomMade, AsyncQuery, ResultUpdate, Running
    <2> QED
      BY <2>2 DEF Ended
  <1>2. CASE DelayThread
    <2>1. worker # "ended" /\ phase' = phase
      BY <1>2 DEF DelayThread, TestRunning, Dequeue, ExecuteStatement,
         ExecuteQuery,
         StartTransaction, TransactionStatement, Commit
    <2> QED
      BY <2>1 DEF Ended
  <1>3. CASE \/ HaltDelayThread \/ Stop \/ StopDeactivate \/ Halted \/ Crash
             \/ ConnectionLost
    BY <1>3 DEF HaltDelayThread, Stop, StopDeactivate, Halted, Crash,
                ConnectionLost, Ended
  <1>4. CASE UNCHANGED vars
    BY <1>4 DEF Ended, vars
  <1> QED
    BY <1>1, <1>2, <1>3, <1>4 DEF Next, Over

\* At the end nothing is in the job, in the queue, or waiting, and what is
\* staged goes with the connection: what was called is durable, has failed, is
\* lost or is in a transaction that nobody committed.
LEMMA NextNoneMissed ==
  ASSUME TypeOK, WorkerPlace, WorkerPlace', Rest, Ended, [Next]_vars,
         NoneMissedButLost
  PROVE  NoneMissedButLost'
  <1> USE DEF clientVars, threadVars, serverVars, workerFrame, endFrame
  <1>1. (autocommit => staged = <<>>)'
    BY DEF WorkerPlace
  <1>2. CASE Halted
    <2> SUFFICES ASSUME NEW id \in DOMAIN owner', Missed(id)'
                 PROVE  id \in lost'
      BY <1>1 DEF NoneMissedButLost
    <2>1. /\ UNCHANGED <<owner, durable, failed, m_tranQueues>>
          /\ worker = "ended" /\ phase = "wait"
          /\ lost' = lost \cup ToSet(staged)
      BY <1>2 DEF Halted
    <2>2. InJob = {} /\ InLine = {}
      <3>1. Line = <<>> /\ DOMAIN <<>> = {}
        BY <2>1 DEF Rest, LinePlace
      <3>2. InLine = {}
        BY <3>1 DEF InLine
      <3> QED
        BY <2>1, <3>2, JobPlace
    <2>3. id \notin ToSet(durable) \cup failed /\ \A t \in Thread :
            id \notin OpenTransaction(t)
      BY <2>1, OpenKept DEF Missed
    <2> QED
      BY <2>1, <2>2, <2>3 DEF Rest, Accounted, Dealt, Performed
  <1>3. CASE phase' # "halted"
    BY <1>1, <1>3 DEF NoneMissedButLost
  <1>4. CASE ~Halted /\ phase' = "halted"
    <2>1. UNCHANGED vars
      BY <1>4, NextEnded
    <2> QED
      BY <1>1, <2>1 DEF NoneMissedButLost, Missed, OpenTransaction, vars
  <1> QED
    BY <1>2, <1>3, <1>4

----------------------------------------------------------------------------
(* The theorems.                                                           *)

\* The invariant holds of every behaviour of a Database and its delay thread,
\* for any threads, any number of calls and any size of the queue.
THEOREM InvariantAll == Spec => []SqlDelayInv
  <1>1. Init => SqlDelayInv
    <2>1. Init => Ended
      BY DEF Init, Ended
    <2> QED
      BY <2>1, InitTypeOK, InitRest DEF SqlDelayInv
  <1>2. SqlDelayInv /\ [Next]_vars => SqlDelayInv'
    <2> SUFFICES ASSUME SqlDelayInv, [Next]_vars PROVE SqlDelayInv'
      OBVIOUS
    <2>1. TypeOK /\ WorkerPlace /\ Rest /\ Ended
      BY DEF SqlDelayInv
    <2>2. Rest' /\ Ended'
      BY <2>1, NextRest, NextEnded
    <2>3. CASE Next
      <3>1. TypeOK'
        BY <2>1, <2>3, NextTypeOK
      <3>2. WorkerPlace'
        BY <2>1, <2>3, NextWorkerPlace DEF Rest
      <3> QED
        BY <2>2, <3>1, <3>2 DEF SqlDelayInv
    <2>4. CASE UNCHANGED vars
      <3>1. TypeOK' /\ WorkerPlace'
        BY <2>1, <2>4 DEF TypeOK, WorkerPlace, Sound, vars, clientVars,
           threadVars, serverVars
      <3> QED
        BY <2>2, <3>1 DEF SqlDelayInv
    <2> QED
      BY <2>3, <2>4
  <1> QED
    BY <1>1, <1>2, PTL DEF Spec

\* Atomic: a transaction that CommitTransaction delayed is in the database in
\* one piece or not at all, whichever statement, START TRANSACTION or COMMIT
\* fails, whoever else uses the connection and whenever the program crashes.
THEOREM TransactionsAtomic == Spec => []Atomic
  <1>1. Init => Atomic
    BY DEF Init, Atomic
  <1>2. SqlDelayInv /\ Atomic /\ [Next]_vars => Atomic'
    BY NextAtomic DEF SqlDelayInv
  <1> QED
    BY <1>1, <1>2, InvariantAll, PTL DEF Spec

\* InOrder: what one thread delays by PExecute and CommitTransaction reaches
\* the database in the order of its calls.
THEOREM CallsInOrder == Spec => []InOrder
  <1>1. SqlDelayInv => InOrder
    BY DEF SqlDelayInv, Rest, InOrder, Ordered, OrderedBy, Ascending
  <1> QED
    BY <1>1, InvariantAll, PTL

\* ReadsOwnWrites: an AsyncQuery or DelayQueryHolder of the main thread sees
\* all it delayed before, but for what failed or was lost with a connection.
THEOREM WritesRead == Spec => []ReadsOwnWrites
  <1>1. Init => ReadsOwnWrites
    BY DEF Init, ReadsOwnWrites
  <1>2. SqlDelayInv /\ ReadsOwnWrites /\ [Next]_vars => ReadsOwnWrites'
    BY NextReads DEF SqlDelayInv
  <1> QED
    BY <1>1, <1>2, InvariantAll, PTL DEF Spec

\* NoneMissedButLost: after HaltDelayThread no statement is missing from the
\* database but those that failed, were rolled back or were never committed,
\* and those executed after a failed START TRANSACTION or COMMIT, while
\* autocommit was off, that went with their connection.
THEOREM NothingMissed == Spec => []NoneMissedButLost
  <1>1. Init => NoneMissedButLost
    BY DEF Init, NoneMissedButLost
  <1>2. SqlDelayInv /\ SqlDelayInv' /\ NoneMissedButLost /\ [Next]_vars =>
          NoneMissedButLost'
    BY NextNoneMissed DEF SqlDelayInv
  <1> QED
    BY <1>1, <1>2, InvariantAll, PTL DEF Spec
=============================================================================

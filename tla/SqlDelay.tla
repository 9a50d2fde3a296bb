------------------------------ MODULE SqlDelay ------------------------------
(***************************************************************************)
(* A Database: one connection to the MySQL server, shared by the threads   *)
(* of the program under mMutex, and a SqlDelayThread that executes what    *)
(* they delay, one item after another.  nMutex guards the transactions     *)
(* under construction, one per thread, and is kept while Delay waits for   *)
(* room in the bounded queue.                                              *)
(*                                                                         *)
(* The server is modelled as the program sees it: a connection is in       *)
(* autocommit mode or not, what it has executed outside that mode is       *)
(* staged, and what is committed is durable, in order.  A transaction      *)
(* holds mMutex from its start to its end; any other use of the connection *)
(* is one step.  The connection may be lost at any moment, and the client  *)
(* library opens another (MYSQL_OPT_RECONNECT).  ROLLBACK and              *)
(* SET autocommit = 1 fail only for that reason.                           *)
(*                                                                         *)
(* A statement is its number in the order of the calls.  Prepared          *)
(* statements go the same ways as plain ones and are not told apart.  The  *)
(* program ends by HaltDelayThread, when the other threads are gone        *)
(* (Master::Run joins them first), or by a crash at any moment.            *)
(***************************************************************************)
EXTENDS Naturals, Sequences, SequencesExt, FiniteSets

CONSTANTS
    Thread,         \* the threads that use this database
    Main,           \* the one that has a SqlResultQueue
    MaxCalls,       \* bound on statements, with the queries under way
    QueueMax,       \* items the delay queue holds
    ServerErrors,   \* can START TRANSACTION, COMMIT, queries and the
                    \* connection fail?
    NULL

Statements == 1..MaxCalls
ItemKind == {"statement", "transaction", "query"}

\* Of a query, what was delayed before it is kept instead of what it asks.
Item == [kind : {"statement", "transaction"}, ids : Seq(Statements)]
            \cup [kind : {"query"}, ids : SUBSET Statements]

\* NULL is none of the objects that a pointer points to.
ASSUME SqlDelayAssumption ==
    /\ Main \in Thread /\ NULL \notin Thread \cup Item \cup Seq(Statements)
    /\ MaxCalls \in Nat /\ QueueMax \in Nat \ {0}
    /\ ServerErrors \in BOOLEAN

VARIABLES
    owner,              \* the thread of each delayed statement, NULL: direct
    m_tranQueues,       \* per thread, its open transaction or NULL
    nMutex, waiting,    \* its owner or NULL, and what it waits to enqueue
    queue, m_running, active,       \* of the SqlDelayThread
    worker, job,        \* where the delay thread is, and with what
    autocommit, staged, durable,    \* of the connection and the server
    results,            \* the SqlResultQueue
    phase,              \* of the program
    failed,             \* history: statements that failed or were given up
    lost,               \* history: statements dropped with the connection
    delayed             \* history: the transactions that were delayed

clientVars == <<owner, m_tranQueues, nMutex, waiting, results>>
threadVars == <<m_running, active, worker, job>>
serverVars == <<autocommit, staged, durable>>
vars == <<clientVars, queue, threadVars, serverVars, phase, failed, lost, delayed>>

Init ==
    /\ owner = <<>> /\ m_tranQueues = [t \in Thread |-> NULL]
    /\ nMutex = NULL /\ waiting = NULL
    /\ queue = <<>> /\ m_running = TRUE /\ active = TRUE
    /\ worker = "test" /\ job = NULL
    /\ autocommit = TRUE /\ staged = <<>> /\ durable = <<>>
    /\ results = <<>> /\ phase = "running"
    /\ failed = {} /\ lost = {} /\ delayed = {}

----------------------------------------------------------------------------
(* The threads of the program.                                             *)

Running(t) == phase = "running" /\ nMutex # t

QueriesUnderWay ==
    Len(results) + Cardinality({i \in DOMAIN queue : queue[i].kind = "query"})
        + (IF worker = "query" THEN 1 ELSE 0)

NewStatement(o) ==
    /\ Len(owner) + QueriesUnderWay < MaxCalls
    /\ owner' = Append(owner, o)
New == Len(owner) + 1

HasRoom == Len(queue) < QueueMax

\* SqlDelayThread::Delay, called with nMutex held.
Delay(t, item) ==
    IF HasRoom
    THEN queue' = Append(queue, item) /\ UNCHANGED <<nMutex, waiting>>
    ELSE nMutex' = t /\ waiting' = item /\ UNCHANGED queue

\* The rest of Delay, when the queue has been full.
RoomMade ==
    /\ nMutex # NULL /\ HasRoom
    /\ queue' = Append(queue, waiting)
    /\ nMutex' = NULL /\ waiting' = NULL
    /\ UNCHANGED <<owner, m_tranQueues, results, threadVars, serverVars, phase,
                   failed, lost, delayed>>

\* Mutant: tranThread is not that of the caller.
ExecuteStaleThread(t) ==
    /\ Running(t) /\ nMutex = NULL
    /\ NewStatement(t)
    /\ \E u \in Thread :
         IF m_tranQueues[u] # NULL
         THEN /\ m_tranQueues' = [m_tranQueues EXCEPT ![u] = Append(@, New)]
              /\ UNCHANGED <<queue, nMutex, waiting>>
         ELSE /\ Delay(t, [kind |-> "statement", ids |-> <<New>>])
              /\ UNCHANGED m_tranQueues
    /\ UNCHANGED <<results, threadVars, serverVars, phase, failed, lost, delayed>>

Execute(t) ==
    /\ Running(t) /\ nMutex = NULL
    /\ NewStatement(t)
    /\ IF m_tranQueues[t] # NULL
       THEN /\ m_tranQueues' = [m_tranQueues EXCEPT ![t] = Append(@, New)]
            /\ UNCHANGED <<queue, nMutex, waiting>>
       ELSE /\ Delay(t, [kind |-> "statement", ids |-> <<New>>])
            /\ UNCHANGED m_tranQueues
    /\ UNCHANGED <<results, threadVars, serverVars, phase, failed, lost, delayed>>

OpenTransaction(t) ==
    IF m_tranQueues[t] = NULL THEN {} ELSE ToSet(m_tranQueues[t])

\* A transaction that is open already is thrown away.
BeginTransaction(t) ==
    /\ Running(t) /\ nMutex = NULL
    /\ failed' = failed \cup OpenTransaction(t)
    /\ m_tranQueues' = [m_tranQueues EXCEPT ![t] = <<>>]
    /\ UNCHANGED <<owner, nMutex, waiting, results, queue, threadVars,
                   serverVars, phase, lost, delayed>>

CommitTransaction(t) ==
    /\ Running(t) /\ nMutex = NULL /\ m_tranQueues[t] # NULL
    /\ Delay(t, [kind |-> "transaction", ids |-> m_tranQueues[t]])
    /\ delayed' = delayed \cup {m_tranQueues[t]}
    /\ m_tranQueues' = [m_tranQueues EXCEPT ![t] = NULL]
    /\ UNCHANGED <<owner, results, threadVars, serverVars, phase, failed, lost>>

RollbackTransaction(t) ==
    /\ Running(t) /\ nMutex = NULL /\ m_tranQueues[t] # NULL
    /\ failed' = failed \cup OpenTransaction(t)
    /\ m_tranQueues' = [m_tranQueues EXCEPT ![t] = NULL]
    /\ UNCHANGED <<owner, nMutex, waiting, results, queue, threadVars,
                   serverVars, phase, lost, delayed>>

\* What the main thread has delayed up to now.
MainDelayed == {i \in DOMAIN owner : owner[i] = Main} \ OpenTransaction(Main)

\* AsyncQuery and DelayQueryHolder; they do without nMutex.
\* (Mutant AsyncQueryFirst: queries overtake what is in the queue.)
AsyncQueryFirst ==
    /\ Running(Main) /\ HasRoom /\ Len(owner) + QueriesUnderWay < MaxCalls
    /\ queue' = <<[kind |-> "query", ids |-> MainDelayed]>> \o queue
    /\ UNCHANGED <<clientVars, threadVars, serverVars, phase, failed, lost, delayed>>
AsyncQuery ==
    /\ Running(Main) /\ HasRoom /\ Len(owner) + QueriesUnderWay < MaxCalls
    /\ queue' = Append(queue, [kind |-> "query", ids |-> MainDelayed])
    /\ UNCHANGED <<clientVars, threadVars, serverVars, phase, failed, lost, delayed>>

\* SqlResultQueue::Update, for one answer.
ResultUpdate ==
    /\ Running(Main) /\ results # <<>>
    /\ results' = Tail(results)
    /\ UNCHANGED <<owner, m_tranQueues, nMutex, waiting, queue, threadVars,
                   serverVars, phase, failed, lost, delayed>>

----------------------------------------------------------------------------
(* The connection and the server.                                          *)

\* mMutex is free, or this thread has it.
InTransaction == worker = "statements"

Perform(id) ==
    IF autocommit
    THEN durable' = Append(durable, id) /\ UNCHANGED <<staged, autocommit>>
    ELSE staged' = Append(staged, id) /\ UNCHANGED <<durable, autocommit>>

\* A statement is executed, though the answer may be lost, or it fails.
TryStatement(id) ==
    \/ Perform(id) /\ UNCHANGED failed
    \/ failed' = failed \cup {id} /\ UNCHANGED serverVars

DirectExecute(t) ==
    /\ Running(t) /\ ~InTransaction
    /\ NewStatement(NULL)
    /\ TryStatement(New)
    /\ UNCHANGED <<m_tranQueues, nMutex, waiting, results, queue, threadVars,
                   phase, lost, delayed>>

\* The connection is lost: the server rolls back what is staged, and the next
\* call, which may fail, finds a new connection in autocommit mode.  Within a
\* transaction it does fail, see TransactionStatement and Commit.
ConnectionLost ==
    /\ ServerErrors /\ ~InTransaction /\ phase \notin {"halted", "crashed"}
    /\ lost' = lost \cup ToSet(staged)
    /\ staged' = <<>> /\ autocommit' = TRUE
    /\ UNCHANGED <<clientVars, queue, threadVars, durable, phase, failed, delayed>>

----------------------------------------------------------------------------
(* The delay thread.                                                       *)

workerFrame == <<clientVars, queue, m_running, active, phase, lost, delayed>>

TestRunning ==
    /\ worker = "test"
    /\ worker' = IF m_running THEN "dequeue" ELSE "ended"
    /\ UNCHANGED <<workerFrame, job, serverVars, failed>>

\* A closed queue gives nothing, whatever it holds.
Dequeue ==
    /\ worker = "dequeue"
    /\ IF active
       THEN /\ queue # <<>>
            /\ queue' = Tail(queue) /\ job' = Head(queue)
            /\ worker' = Head(queue).kind
       ELSE worker' = "test" /\ UNCHANGED <<queue, job>>
    /\ UNCHANGED <<clientVars, m_running, active, phase, lost, delayed,
                   serverVars, failed>>

Done == worker' = "test" /\ job' = NULL
GiveUp == failed' = failed \cup ToSet(job.ids)

ExecuteStatement ==
    /\ worker = "statement" /\ Done
    /\ TryStatement(job.ids[1])
    /\ UNCHANGED workerFrame

\* The queries of a SqlQuery or a SqlQueryHolder see what the connection has
\* committed or staged of what they ask about; the answer goes to the result
\* queue.  A query that fails is answered too, by a null result: it answers
\* nothing.
ExecuteQuery ==
    /\ worker = "query" /\ Done
    /\ \/ results' = Append(results, [asked |-> job.ids,
                                      seen |-> job.ids \cap ToSet(durable \o staged)])
       \/ /\ ServerErrors
          /\ results' = Append(results, [asked |-> {}, seen |-> {}])
    /\ UNCHANGED <<owner, m_tranQueues, nMutex, waiting, queue, m_running,
                   active, phase, lost, delayed, serverVars, failed>>

\* Database::ExecuteTransaction.  An empty transaction is done at once.
\* START TRANSACTION commits what is staged.
StartTransaction ==
    /\ worker = "transaction"
    /\ \/ job.ids = <<>> /\ Done /\ UNCHANGED <<serverVars, failed>>
       \/ /\ job.ids # <<>>
          /\ autocommit' = FALSE /\ durable' = durable \o staged /\ staged' = <<>>
          /\ worker' = "statements" /\ UNCHANGED <<job, failed>>
       \/ /\ job.ids # <<>> /\ ServerErrors /\ Done /\ GiveUp
          /\ autocommit' \in {FALSE, autocommit}
          /\ UNCHANGED <<staged, durable>>
    /\ UNCHANGED workerFrame

\* Mutant: no mysql_rollback before autocommit is set again, which commits.
TransactionStatementNoRollback ==
    /\ worker = "statements" /\ Len(staged) < Len(job.ids)
    /\ \/ /\ staged' = Append(staged, job.ids[Len(staged) + 1])
          /\ UNCHANGED <<autocommit, durable, worker, job, failed>>
       \/ /\ durable' = durable \o staged /\ staged' = <<>>
          /\ autocommit' = TRUE
          /\ Done /\ GiveUp
    /\ UNCHANGED workerFrame

\* The first statement that fails rolls the transaction back; when the
\* connection is lost the server has done so, and the new one is in autocommit
\* mode.
TransactionStatement ==
    /\ worker = "statements" /\ Len(staged) < Len(job.ids)
    /\ \/ /\ staged' = Append(staged, job.ids[Len(staged) + 1])
          /\ UNCHANGED <<autocommit, durable, worker, job, failed>>
       \/ /\ staged' = <<>> /\ autocommit' = TRUE
          /\ Done /\ GiveUp /\ UNCHANGED durable
    /\ UNCHANGED workerFrame

\* A failed COMMIT: the server may have rolled back, and autocommit is not set
\* again; or the connection was lost, and a new one is in autocommit mode,
\* before or after the server did commit.
Commit ==
    /\ worker = "statements" /\ Len(staged) = Len(job.ids)
    /\ staged' = <<>> /\ Done
    /\ \/ durable' = durable \o staged /\ autocommit' = TRUE /\ UNCHANGED failed
       \/ /\ ServerErrors /\ GiveUp
          /\ \/ durable' = durable /\ autocommit' \in BOOLEAN
             \/ durable' = durable \o staged /\ autocommit' = TRUE
    /\ UNCHANGED workerFrame

----------------------------------------------------------------------------
(* The end of the program.                                                 *)

Quiet == nMutex = NULL
endFrame == <<clientVars, queue, worker, job, failed, delayed>>

\* HaltDelayThread, called by the main thread when it is the last.
HaltDelayThread ==
    /\ phase = "running" /\ Quiet
    /\ phase' = "stop"
    /\ UNCHANGED <<endFrame, lost, m_running, active, serverVars>>

\* Mutant: Stop does not wait for the queue.
StopAtOnce ==
    /\ phase = "stop"
    /\ m_running' = FALSE /\ phase' = "deactivate"
    /\ UNCHANGED <<endFrame, lost, active, serverVars>>

\* SqlDelayThread::Stop.
Stop ==
    /\ phase = "stop" /\ queue = <<>>
    /\ m_running' = FALSE /\ phase' = "deactivate"
    /\ UNCHANGED <<endFrame, lost, active, serverVars>>

\* Mutant: the queue is left open.
StopDeactivateNot ==
    /\ phase = "deactivate" /\ phase' = "wait"
    /\ UNCHANGED <<endFrame, lost, m_running, active, serverVars>>

StopDeactivate ==
    /\ phase = "deactivate"
    /\ active' = FALSE /\ phase' = "wait"
    /\ UNCHANGED <<endFrame, lost, m_running, serverVars>>

\* The thread is joined, and the destructor closes the connection.
Halted ==
    /\ phase = "wait" /\ worker = "ended"
    /\ phase' = "halted" /\ staged' = <<>> /\ lost' = lost \cup ToSet(staged)
    /\ UNCHANGED <<endFrame, m_running, active, autocommit, durable>>

\* A crash at any moment: the server rolls back what is not committed.
Crash ==
    /\ phase \notin {"halted", "crashed"}
    /\ phase' = "crashed" /\ worker' = "ended" /\ staged' = <<>>
    /\ queue' = <<>> /\ job' = NULL /\ m_running' = FALSE /\ active' = FALSE
    /\ m_tranQueues' = [t \in Thread |-> NULL] /\ nMutex' = NULL /\ waiting' = NULL
    /\ results' = <<>> /\ failed' = {} /\ lost' = {} /\ autocommit' = TRUE
    /\ UNCHANGED <<owner, delayed, durable>>

Over == phase \in {"halted", "crashed"} /\ UNCHANGED vars

----------------------------------------------------------------------------
Clients ==
    \/ \E t \in Thread : \/ Execute(t) \/ BeginTransaction(t)
                         \/ CommitTransaction(t) \/ RollbackTransaction(t)
                         \/ DirectExecute(t)
    \/ RoomMade \/ AsyncQuery \/ ResultUpdate

DelayThread ==
    \/ TestRunning \/ Dequeue \/ ExecuteStatement \/ ExecuteQuery
    \/ StartTransaction \/ TransactionStatement \/ Commit

Next == \/ Clients \/ DelayThread \/ HaltDelayThread \/ Stop \/ StopDeactivate
        \/ Halted \/ ConnectionLost \/ Crash \/ Over

Spec == Init /\ [][Next]_vars

\* The threads run on, and the server answers.  Room in the queue is given to
\* the waiting thread in the end, though an AsyncQuery may take it first.
Fairness ==
    /\ WF_vars(DelayThread) /\ SF_vars(RoomMade)
    /\ WF_vars(Stop) /\ WF_vars(StopDeactivate) /\ WF_vars(Halted)

FairSpec == Spec /\ Fairness

----------------------------------------------------------------------------
(* Properties.                                                             *)

TypeOK ==
    /\ owner \in Seq(Thread \cup {NULL}) /\ Len(owner) <= MaxCalls
    /\ m_tranQueues \in [Thread -> Seq(Statements) \cup {NULL}]
    /\ nMutex \in Thread \cup {NULL} /\ waiting \in Item \cup {NULL}
    /\ nMutex = NULL <=> waiting = NULL
    /\ queue \in Seq(Item) /\ Len(queue) <= QueueMax
    /\ m_running \in BOOLEAN /\ active \in BOOLEAN
    /\ worker \in {"test", "dequeue", "statements", "ended"} \cup ItemKind
    /\ job \in Item \cup {NULL}
    /\ autocommit \in BOOLEAN
    /\ staged \in Seq(Statements) /\ durable \in Seq(Statements)
    /\ results \in Seq([asked : SUBSET Statements, seen : SUBSET Statements])
    /\ phase \in {"running", "stop", "deactivate", "wait", "halted", "crashed"}
    /\ failed \subseteq Statements /\ lost \subseteq Statements
    /\ delayed \subseteq Seq(Statements)

\* A transaction is in the database as a whole and in one piece, or not at
\* all, whichever of its statements fails, whoever else uses the connection,
\* and whenever the program crashes.
Atomic ==
    \A tran \in delayed :
        \/ ToSet(tran) \cap ToSet(durable) = {}
        \/ \E i \in 0..(Len(durable) - Len(tran)) :
                SubSeq(durable, i + 1, i + Len(tran)) = tran

\* What a thread delays reaches the database in the order of its calls,
\* statements and transactions alike.
InOrder ==
    /\ TypeOK
    /\ \A i, j \in DOMAIN durable :
        (i < j /\ owner[durable[i]] = owner[durable[j]] /\ owner[durable[i]] # NULL)
            => durable[i] < durable[j]

\* An asynchronous query sees all the main thread delayed before it, as when a
\* character is saved at logout and loaded at the next login, but for what
\* failed or was lost with a connection.
ReadsOwnWrites ==
    \A i \in DOMAIN results :
        results[i].asked \subseteq results[i].seen \cup failed \cup lost

\* After an orderly end every statement is durable, but those that failed,
\* were rolled back, or belong to a transaction nobody committed.  Stop is to
\* wait for the queue "so no query will be missed".
Missed(id) ==
    /\ id \notin ToSet(durable) \cup failed
    /\ \A t \in Thread : id \notin OpenTransaction(t)
NoneMissed == phase = "halted" => \A id \in DOMAIN owner : ~Missed(id)

\* That holds but for what was executed while autocommit was off, where only a
\* START TRANSACTION or COMMIT that failed leaves it, and went with the
\* connection, lost or closed at the end, before a transaction committed it.
NoneMissedButLost ==
    /\ phase = "halted" => \A id \in DOMAIN owner : Missed(id) => id \in lost
    /\ autocommit => staged = <<>>

\* A thread that waits for room with nMutex held gets it, and HaltDelayThread
\* returns, whatever is in the queue.
CallsReturn ==
    /\ nMutex # NULL ~> (nMutex = NULL \/ phase = "crashed")
    /\ phase = "stop" ~> phase \in {"halted", "crashed"}
=============================================================================

----------------------------- MODULE MapUpdater -----------------------------
(***************************************************************************)
(* MapManager::Update with its pool of worker threads: MapUpdater counts   *)
(* the requests it was given and the main thread waits for the count to    *)
(* fall to zero; DelayExecutor's threads take requests from a bounded      *)
(* queue.  A MapInstanced updated by a worker schedules its instances from *)
(* that worker, or destroys them, while the main thread is waiting.        *)
(*                                                                         *)
(* The calls of MapUpdater are critical sections of m_mutex and one step   *)
(* each; wait gives the mutex up while it blocks.  A Map::Update takes     *)
(* time and is two steps, begin and end.  Maps are iterated in any order.  *)
(***************************************************************************)
EXTENDS Naturals, Sequences, SequencesExt, FiniteSets

CONSTANTS
    Base,           \* maps in MapManager::i_maps
    Instance,       \* maps in MapInstanced::m_InstancedMaps
    Parent,         \* the MapInstanced an instance belongs to
    Worker,         \* threads of the DelayExecutor, if it is activated
    QueueMax,       \* requests the queue holds before enqueue fails
    NULL

Map == Base \cup Instance

ASSUME MapUpdaterAssumption ==
    /\ Base \cap Instance = {}
    /\ Parent \in [Instance -> Base]
    /\ IsFiniteSet(Worker)
    /\ QueueMax \in Nat
    /\ NULL \notin Map

VARIABLES
    alive,              \* the maps there are
    main,               \* the main thread
    toSchedule,         \* what is left of its iteration over i_maps
    pending_requests,
    queue,              \* DelayExecutor::queue_
    activated,          \* the executor's queue is open
    step, job, todo,    \* per worker: what it does, for which map, and the
                        \* instances it has still to look at
    updated, skipped    \* history: maps begun, and left out, in this tick

mainVars == <<main, toSchedule>>
workerVars == <<step, job, todo>>
vars == <<alive, main, toSchedule, pending_requests, queue, activated, step,
          job, todo, updated, skipped>>

Children(m) == {i \in Instance \cap alive : Parent[i] = m}

\* MapUpdate.Threads is zero, and the executor is not activated, or positive.
Init ==
    /\ alive = {} /\ main = "idle" /\ toSchedule = {}
    /\ pending_requests = 0 /\ queue = <<>>
    /\ activated \in BOOLEAN
    /\ step = [w \in Worker |-> IF activated THEN "free" ELSE "exit"]
    /\ job = [w \in Worker |-> NULL]
    /\ todo = [w \in Worker |-> {}]
    /\ updated = {} /\ skipped = {}

----------------------------------------------------------------------------
(* The main thread between two map updates: maps come into being.          *)

Create(m) ==
    /\ main = "idle" /\ m \notin alive
    /\ m \in Instance => Parent[m] \in alive
    /\ alive' = alive \cup {m}
    /\ UNCHANGED <<mainVars, pending_requests, queue, activated, workerVars,
                   updated, skipped>>

(* MapManager::Update.                                                     *)

Tick ==
    /\ main = "idle"
    /\ main' = "schedule"
    /\ toSchedule' = Base \cap alive
    /\ updated' = {} /\ skipped' = {}
    /\ UNCHANGED <<alive, pending_requests, queue, activated, workerVars>>

\* Mutant: the count is not taken back when the queue is full.
schedule_updateCountKept(m) ==
    /\ pending_requests' = pending_requests + 1
    /\ IF Len(queue) < QueueMax
       THEN queue' = Append(queue, m) /\ UNCHANGED skipped
       ELSE skipped' = skipped \cup {m} \cup Children(m) /\ UNCHANGED queue

\* MapUpdater::schedule_update; its callers ignore that it may fail.  A map
\* left out has its instances left out with it.
schedule_update(m) ==
    IF Len(queue) < QueueMax
    THEN /\ queue' = Append(queue, m)
         /\ pending_requests' = pending_requests + 1
         /\ UNCHANGED skipped
    ELSE /\ skipped' = skipped \cup {m} \cup Children(m)
         /\ UNCHANGED <<queue, pending_requests>>

\* Mutant: the iterator is not advanced.
ScheduleAgain(m) ==
    /\ main = "schedule" /\ activated /\ m \in toSchedule
    /\ schedule_update(m)
    /\ UNCHANGED <<alive, mainVars, activated, workerVars, updated>>

Schedule(m) ==
    /\ main = "schedule" /\ activated /\ m \in toSchedule
    /\ toSchedule' = toSchedule \ {m}
    /\ schedule_update(m)
    /\ UNCHANGED <<alive, main, activated, workerVars, updated>>

\* Without threads the main thread updates the map and its instances itself.
\* Of the instances D are destroyed, and K could be but for their players.
UpdateInline(m) ==
    /\ main = "schedule" /\ ~activated /\ m \in toSchedule
    /\ toSchedule' = toSchedule \ {m}
    /\ \E D \in SUBSET Children(m), K \in SUBSET Children(m) :
         /\ D \cap K = {}
         /\ alive' = alive \ D
         /\ updated' = updated \cup {m} \cup (Children(m) \ (D \cup K))
         /\ skipped' = skipped \cup K
    /\ UNCHANGED <<main, pending_requests, queue, activated, workerVars>>

AllScheduled ==
    /\ main = "schedule" /\ toSchedule = {}
    /\ main' = IF activated THEN "check" ELSE "delayed"
    /\ UNCHANGED <<alive, toSchedule, pending_requests, queue, activated,
                   workerVars, updated, skipped>>

\* MapUpdater::wait: the test of the loop, with the mutex held.
Wait ==
    /\ main = "check"
    /\ main' = IF pending_requests > 0 THEN "blocked" ELSE "delayed"
    /\ UNCHANGED <<alive, toSchedule, pending_requests, queue, activated,
                   workerVars, updated, skipped>>

\* DelayedUpdate of every map, and the end of MapManager::Update.
DelayedUpdate ==
    /\ main = "delayed"
    /\ main' = "idle"
    /\ UNCHANGED <<alive, toSchedule, pending_requests, queue, activated,
                   workerVars, updated, skipped>>

\* MapManager::UnloadAll: the maps are deleted first, then the pool is stopped.
UnloadAll ==
    /\ main = "idle"
    /\ alive' = {}
    /\ main' = IF activated THEN "deactivate" ELSE "stopped"
    /\ UNCHANGED <<toSchedule, pending_requests, queue, activated, workerVars,
                   updated, skipped>>

\* MapUpdater::deactivate waits, then closes the queue, then joins.
Deactivate ==
    /\ main = "deactivate" /\ pending_requests = 0
    /\ activated' = FALSE /\ main' = "join"
    /\ UNCHANGED <<alive, toSchedule, pending_requests, queue, workerVars,
                   updated, skipped>>

Join ==
    /\ main = "join" /\ \A w \in Worker : step[w] = "exit"
    /\ main' = "stopped"
    /\ UNCHANGED <<alive, toSchedule, pending_requests, queue, activated,
                   workerVars, updated, skipped>>

Stopped == main = "stopped" /\ UNCHANGED vars

----------------------------------------------------------------------------
(* DelayExecutor::svc and MapUpdateRequest::call in a worker.              *)

Dequeue(w) ==
    /\ activated /\ step[w] = "free" /\ queue # <<>>
    /\ queue' = Tail(queue)
    /\ step' = [step EXCEPT ![w] = "update"]
    /\ job' = [job EXCEPT ![w] = Head(queue)]
    /\ updated' = updated \cup {Head(queue)}
    /\ UNCHANGED <<alive, mainVars, pending_requests, activated, todo, skipped>>

\* Map::Update is over; a MapInstanced goes on with its instances.
Updated(w) ==
    /\ step[w] = "update"
    /\ step' = [step EXCEPT ![w] = "children"]
    /\ todo' = [todo EXCEPT ![w] = Children(job[w])]
    /\ UNCHANGED <<alive, mainVars, pending_requests, queue, activated, job,
                   updated, skipped>>

\* Mutants: an instance is passed over; it is scheduled first and destroyed then.
VisitForgets(w, i) ==
    /\ step[w] = "children" /\ i \in todo[w]
    /\ todo' = [todo EXCEPT ![w] = @ \ {i}]
    /\ \/ schedule_update(i)
       \/ UNCHANGED <<queue, pending_requests, skipped>>
    /\ UNCHANGED <<alive, mainVars, activated, step, job, updated>>
VisitScheduleFirst(w, i) ==
    /\ step[w] = "children" /\ i \in todo[w]
    /\ todo' = [todo EXCEPT ![w] = @ \ {i}]
    /\ schedule_update(i)
    /\ alive' \in {alive, alive \ {i}}
    /\ UNCHANGED <<mainVars, activated, step, job, updated>>

\* One round of MapInstanced::Update: an instance that can be unloaded is
\* destroyed, unless its players stay; any other is scheduled.
Visit(w, i) ==
    /\ step[w] = "children" /\ i \in todo[w]
    /\ todo' = [todo EXCEPT ![w] = @ \ {i}]
    /\ \/ schedule_update(i) /\ UNCHANGED alive
       \/ /\ alive' = alive \ {i}
          /\ UNCHANGED <<queue, pending_requests, skipped>>
       \/ /\ skipped' = skipped \cup {i}
          /\ UNCHANGED <<alive, queue, pending_requests>>
    /\ UNCHANGED <<mainVars, activated, step, job, updated>>

\* Mutants: the waiting thread does not look again; it is not woken up.
update_finishedNoLoop ==
    /\ pending_requests' = pending_requests - 1
    /\ main' = IF main = "blocked" THEN "delayed" ELSE main
update_finishedSilent ==
    /\ pending_requests' = pending_requests - 1
    /\ main' = main

\* MapUpdater::update_finished.  With nothing pending it would report a bug
\* and return; it wakes the main thread up every time.
update_finished ==
    IF pending_requests = 0 THEN UNCHANGED <<pending_requests, main>>
    ELSE /\ pending_requests' = pending_requests - 1
         /\ main' = IF main = "blocked" THEN "check" ELSE main

Finish(w) ==
    /\ step[w] = "children" /\ todo[w] = {}
    /\ step' = [step EXCEPT ![w] = "free"]
    /\ job' = [job EXCEPT ![w] = NULL]
    /\ update_finished
    /\ UNCHANGED <<alive, toSchedule, queue, activated, todo, updated, skipped>>

\* The closed queue gives NULL.
Exit(w) ==
    /\ ~activated /\ step[w] = "free"
    /\ step' = [step EXCEPT ![w] = "exit"]
    /\ UNCHANGED <<alive, mainVars, pending_requests, queue, activated, job,
                   todo, updated, skipped>>

----------------------------------------------------------------------------
Main ==
    \/ \E m \in Map : Create(m)
    \/ Tick
    \/ \E m \in Base : Schedule(m) \/ UpdateInline(m)
    \/ AllScheduled \/ Wait \/ DelayedUpdate
    \/ UnloadAll \/ Deactivate \/ Join \/ Stopped

Work(w) ==
    \/ Dequeue(w) \/ Updated(w) \/ Finish(w) \/ Exit(w)
    \/ \E i \in Instance : Visit(w, i)

Next == Main \/ \E w \in Worker : Work(w)

Spec == Init /\ [][Next]_vars

\* The threads run on; nothing is assumed of the creation of maps and of when
\* the server is stopped.
Fairness ==
    /\ \A m \in Base : WF_vars(Schedule(m)) /\ WF_vars(UpdateInline(m))
    /\ WF_vars(AllScheduled) /\ WF_vars(Wait) /\ WF_vars(DelayedUpdate)
    /\ WF_vars(Deactivate) /\ WF_vars(Join)
    /\ \A w \in Worker : WF_vars(Work(w))

FairSpec == Spec /\ Fairness

----------------------------------------------------------------------------
(* Properties.                                                             *)

Busy == {w \in Worker : step[w] \in {"update", "children"}}

TypeOK ==
    /\ alive \subseteq Map
    /\ main \in {"idle", "schedule", "check", "blocked", "delayed",
                 "deactivate", "join", "stopped"}
    /\ toSchedule \subseteq Base
    /\ pending_requests \in Nat
    /\ queue \in Seq(Map)
    /\ activated \in BOOLEAN
    /\ step \in [Worker -> {"free", "update", "children", "exit"}]
    /\ job \in [Worker -> Map \cup {NULL}]
    /\ todo \in [Worker -> SUBSET Instance]
    /\ updated \subseteq Map /\ skipped \subseteq Map

\* pending_requests counts the requests that wait or are worked on, so
\* update_finished never meets the count of zero it calls a bug.
PendingExact == pending_requests = Len(queue) + Cardinality(Busy)

\* The main thread touches the maps by itself (sessions, DelayedUpdate,
\* UnloadAll) only when no worker is in a map and none will be.
MainAlone ==
    main \notin {"schedule", "check", "blocked"} => Busy = {} /\ queue = <<>>

\* No map is updated by two threads at once, or scheduled again while it is
\* updated or scheduled.
NoTwoUpdates ==
    /\ \A v, w \in Busy : v # w => job[v] # job[w]
    /\ IsInjective(queue)
    /\ \A w \in Busy : job[w] \notin ToSet(queue)

\* A map that is updated, or will be, has not been deleted.
NoDeadMap ==
    /\ ToSet(queue) \cup toSchedule \subseteq alive
    /\ \A w \in Busy : job[w] \in alive /\ todo[w] \subseteq alive

\* MapManager::Update keeps what MapTick promises.
Ticking == main \in {"schedule", "check", "blocked"}
Abstract == INSTANCE MapTick WITH exists <- alive, ticking <- Ticking
ImplementsMapTick == Abstract!Spec

\* The main thread always gets out of the map update, and shutting down does not
\* hang.
MainGoesOn ==
    /\ Ticking ~> main = "idle"
    /\ main = "deactivate" ~> main = "stopped"

=============================================================================

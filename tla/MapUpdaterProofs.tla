-------------------------- MODULE MapUpdaterProofs --------------------------
(***************************************************************************)
(* What holds of MapUpdater for any maps, any finite number of worker      *)
(* threads and any size of the queue: the count of pending requests is     *)
(* exact and the main thread is alone when it deletes maps; no map is      *)
(* updated by two threads at once, and none after it was deleted; and the  *)
(* threads that share the work of MapManager::Update leave out no map      *)
(* without a reason and update none twice, as MapTick says.                *)
(***************************************************************************)
EXTENDS MapUpdater, FiniteSetTheorems, TLAPS

USE MapUpdaterAssumption DEF MapUpdaterAssumption

----------------------------------------------------------------------------
(* Type correctness.                                                       *)

\* The variables have their types at the start of the program.
LEMMA InitTypeOK == Init => TypeOK
  BY DEF Init, TypeOK

\* schedule_update leaves a queue of maps and a natural count, whether the
\* executor takes the request or refuses it.
LEMMA ScheduleUpdateTyped ==
  ASSUME TypeOK, NEW m \in Map, schedule_update(m)
  PROVE  /\ queue' \in Seq(Map) /\ pending_requests' \in Nat
         /\ skipped' \subseteq Map
  <1>1. CASE Len(queue) < QueueMax
    BY <1>1 DEF TypeOK, schedule_update
  <1>2. CASE ~(Len(queue) < QueueMax)
    <2>1. Children(m) \subseteq Map
      BY DEF Children, Map
    <2> QED
      BY <1>2, <2>1 DEF TypeOK, schedule_update
  <1> QED
    BY <1>1, <1>2

\* Every step of the main thread or of a worker keeps the types.
LEMMA NextTypeOK == TypeOK /\ [Next]_vars => TypeOK'
  <1> SUFFICES ASSUME TypeOK, [Next]_vars PROVE TypeOK'
    OBVIOUS
  <1>1. CASE Main
    <2>1. ASSUME NEW m \in Map, Create(m) PROVE TypeOK'
      BY <2>1 DEF TypeOK, Create, mainVars, workerVars
    <2>2. CASE Tick
      BY <2>2 DEF TypeOK, Tick, workerVars
    <2>3. ASSUME NEW m \in Base, Schedule(m) PROVE TypeOK'
      BY <2>3, ScheduleUpdateTyped DEF TypeOK, Schedule, workerVars, Map
    <2>4. ASSUME NEW m \in Base, UpdateInline(m) PROVE TypeOK'
      BY <2>4 DEF TypeOK, UpdateInline, workerVars, Children, Map
    <2>5. CASE AllScheduled
      BY <2>5 DEF TypeOK, AllScheduled, workerVars
    <2>6. CASE Wait
      BY <2>6 DEF TypeOK, Wait, workerVars
    <2>7. CASE DelayedUpdate
      BY <2>7 DEF TypeOK, DelayedUpdate, workerVars
    <2>8. CASE UnloadAll
      BY <2>8 DEF TypeOK, UnloadAll, workerVars
    <2>9. CASE Deactivate
      BY <2>9 DEF TypeOK, Deactivate, workerVars
    <2>10. CASE Join
      BY <2>10 DEF TypeOK, Join, workerVars
    <2>11. CASE Stopped
      BY <2>11 DEF TypeOK, Stopped, vars, mainVars, workerVars
    <2> QED
      BY <1>1, <2>1, <2>2, <2>3, <2>4, <2>5, <2>6, <2>7, <2>8, <2>9, <2>10,
         <2>11 DEF Main
  <1>2. ASSUME NEW w \in Worker, Work(w) PROVE TypeOK'
    <2>1. CASE Dequeue(w)
      BY <2>1 DEF TypeOK, Dequeue, mainVars
    <2>2. CASE Updated(w)
      BY <2>2 DEF TypeOK, Updated, mainVars, Children
    <2>3. ASSUME NEW i \in Instance, Visit(w, i) PROVE TypeOK'
      <3>1. i \in Map
        BY DEF Map
      <3>2. /\ queue' \in Seq(Map) /\ pending_requests' \in Nat
            /\ skipped' \subseteq Map /\ alive' \subseteq Map
        BY <2>3, <3>1, ScheduleUpdateTyped DEF TypeOK, Visit
      <3> QED
        BY <2>3, <3>2 DEF TypeOK, Visit, mainVars
    <2>4. CASE Finish(w)
      BY <2>4 DEF TypeOK, Finish, update_finished
    <2>5. CASE Exit(w)
      BY <2>5 DEF TypeOK, Exit, mainVars
    <2> QED
      BY <1>2, <2>1, <2>2, <2>3, <2>4, <2>5 DEF Work
  <1>3. CASE UNCHANGED vars
    BY <1>3 DEF TypeOK, vars, mainVars, workerVars
  <1> QED
    BY <1>1, <1>2, <1>3 DEF Next

\* The variables of MapUpdater have their types in every reachable state.
THEOREM TypeCorrect == Spec => []TypeOK
  BY InitTypeOK, NextTypeOK, PTL DEF Spec

----------------------------------------------------------------------------
(* The count of requests, and what the main thread may conclude from it.   *)

\* A closed or never opened queue is empty and nobody works for it.
Inactive == ~activated => Busy = {} /\ queue = <<>>

\* PendingExact alone is inductive; that the main thread is alone needs what
\* it concluded from the count when it looked, and that without a pool there
\* was nothing to wait for.
CountInv == TypeOK /\ PendingExact /\ MainAlone /\ Inactive

\* Finitely many workers are busy, so they can be counted.
LEMMA BusyFinite == IsFiniteSet(Busy) /\ Cardinality(Busy) \in Nat
  <1>1. Busy \in SUBSET Worker
    BY DEF Busy
  <1> QED
    BY <1>1, FS_Subset, FS_CardinalityType

\* schedule_update keeps the count exact: it is raised and then taken back when
\* the executor refuses the request.
LEMMA ScheduleUpdateCounts ==
  ASSUME TypeOK, PendingExact, NEW m \in Map, schedule_update(m), step' = step
  PROVE  PendingExact'
  <1>1. Busy' = Busy
    BY DEF Busy
  <1>2. CASE Len(queue) < QueueMax
    <2>1. Len(queue') = Len(queue) + 1
      BY <1>2 DEF TypeOK, schedule_update
    <2> QED
      BY <1>1, <1>2, <2>1, BusyFinite DEF TypeOK, PendingExact, schedule_update
  <1>3. CASE ~(Len(queue) < QueueMax)
    BY <1>1, <1>3 DEF PendingExact, schedule_update
  <1> QED
    BY <1>2, <1>3

\* With a count of zero there is no request in the queue or in a worker.
LEMMA NothingPending ==
  ASSUME TypeOK, PendingExact, pending_requests = 0
  PROVE  Busy = {} /\ queue = <<>>
  <1>1. Len(queue) = 0 /\ Cardinality(Busy) = 0
    BY BusyFinite DEF TypeOK, PendingExact
  <1> QED
    BY <1>1, BusyFinite, FS_EmptySet DEF TypeOK

\* At the start nothing is pending and nobody is busy.
LEMMA InitCount == Init => CountInv
  <1> SUFFICES ASSUME Init PROVE CountInv
    OBVIOUS
  <1>1. Busy = {}
    BY DEF Init, Busy
  <1> QED
    BY <1>1, InitTypeOK, FS_EmptySet
       DEF Init, CountInv, PendingExact, MainAlone, Inactive

\* The steps of the main thread, which do not change who is busy.
LEMMA MainCount ==
  ASSUME CountInv, Main
  PROVE  PendingExact' /\ MainAlone' /\ Inactive'
  <1> USE DEF CountInv
  <1>1. CASE step' = step /\ queue' = queue /\ pending_requests' = pending_requests
    <2>1. Busy' = Busy /\ PendingExact'
      BY <1>1 DEF Busy, PendingExact
    <2>2. ASSUME NEW m \in Map, Create(m) PROVE MainAlone' /\ Inactive'
      BY <1>1, <2>1, <2>2 DEF MainAlone, Inactive, Create, mainVars
    <2>3. CASE Tick
      BY <1>1, <2>1, <2>3 DEF MainAlone, Inactive, Tick
    <2>4. ASSUME NEW m \in Base, Schedule(m) PROVE MainAlone' /\ Inactive'
      BY <1>1, <2>1, <2>4 DEF MainAlone, Inactive, Schedule
    <2>5. ASSUME NEW m \in Base, UpdateInline(m) PROVE MainAlone' /\ Inactive'
      BY <1>1, <2>1, <2>5 DEF MainAlone, Inactive, UpdateInline
    <2>6. CASE AllScheduled
      BY <1>1, <2>1, <2>6 DEF MainAlone, Inactive, AllScheduled
    <2>7. CASE Wait
      <3>1. pending_requests = 0 => Busy = {} /\ queue = <<>>
        BY NothingPending
      <3>2. pending_requests \in Nat
        BY DEF TypeOK
      <3> QED
        BY <1>1, <2>1, <2>7, <3>1, <3>2 DEF MainAlone, Inactive, Wait
    <2>8. CASE DelayedUpdate
      BY <1>1, <2>1, <2>8 DEF MainAlone, Inactive, DelayedUpdate
    <2>9. CASE UnloadAll
      BY <1>1, <2>1, <2>9 DEF MainAlone, Inactive, UnloadAll
    <2>10. CASE Deactivate
      BY <1>1, <2>1, <2>10, NothingPending DEF MainAlone, Inactive, Deactivate
    <2>11. CASE Join
      BY <1>1, <2>1, <2>11 DEF MainAlone, Inactive, Join
    <2>12. CASE Stopped
      BY <1>1, <2>1, <2>12 DEF MainAlone, Inactive, Stopped, vars, mainVars
    <2> QED
      BY <2>1, <2>2, <2>3, <2>4, <2>5, <2>6, <2>7, <2>8, <2>9, <2>10, <2>11,
         <2>12 DEF Main
  <1>2. ASSUME NEW m \in Base, Schedule(m)
        PROVE  PendingExact' /\ MainAlone' /\ Inactive'
    <2>1. m \in Map
      BY DEF Map
    <2>2. PendingExact'
      BY <1>2, <2>1, ScheduleUpdateCounts DEF Schedule, workerVars
    <2> QED
      BY <1>2, <2>2 DEF MainAlone, Inactive, Schedule
  <1>3. \/ \E m \in Base : Schedule(m)
        \/ step' = step /\ queue' = queue /\ pending_requests' = pending_requests
    BY DEF Main, Create, Tick, UpdateInline, AllScheduled, Wait, DelayedUpdate,
           UnloadAll, Deactivate, Join, Stopped, vars, workerVars
  <1> QED
    BY <1>1, <1>2, <1>3

\* The steps of a worker: it takes a request over, schedules instances before it
\* reports that it has finished, and only then is its request off the count.
LEMMA WorkerCount ==
  ASSUME CountInv, NEW w \in Worker, Work(w)
  PROVE  PendingExact' /\ MainAlone' /\ Inactive'
  <1> USE DEF CountInv
  <1>1. CASE Dequeue(w)
    <2>1. step[w] = "free" /\ queue # <<>> /\ activated /\ w \notin Busy
      BY <1>1 DEF Dequeue, Busy
    <2>2. Busy' = Busy \cup {w}
      BY <1>1, <2>1 DEF Dequeue, Busy, TypeOK
    <2>3. Cardinality(Busy') = Cardinality(Busy) + 1
      BY <2>1, <2>2, BusyFinite, FS_AddElement
    <2>4. Len(queue') = Len(queue) - 1 /\ Len(queue) \in Nat
      BY <1>1, <2>1 DEF Dequeue, TypeOK
    <2>5. PendingExact'
      BY <1>1, <2>3, <2>4, BusyFinite DEF Dequeue, PendingExact
    <2> QED
      BY <1>1, <2>1, <2>5 DEF Dequeue, MainAlone, Inactive, mainVars
  <1>2. CASE Updated(w)
    <2>1. Busy' = Busy
      BY <1>2 DEF Updated, Busy, TypeOK
    <2> QED
      BY <1>2, <2>1 DEF Updated, PendingExact, MainAlone, Inactive, mainVars
  <1>3. ASSUME NEW i \in Instance, Visit(w, i)
        PROVE  PendingExact' /\ MainAlone' /\ Inactive'
    <2>1. i \in Map /\ step' = step
      BY <1>3 DEF Map, Visit
    <2>2. w \in Busy /\ Busy' = Busy
      BY <1>3, <2>1 DEF Visit, Busy
    <2>3. schedule_update(i) => PendingExact'
      BY <2>1, ScheduleUpdateCounts
    <2>4. UNCHANGED <<queue, pending_requests>> => PendingExact'
      BY <2>2 DEF PendingExact
    <2>5. PendingExact'
      BY <1>3, <2>3, <2>4 DEF Visit
    <2> QED
      BY <1>3, <2>2, <2>5 DEF Visit, MainAlone, Inactive, mainVars
  <1>4. CASE Finish(w)
    <2>1. w \in Busy /\ Busy' = Busy \ {w}
      BY <1>4 DEF Finish, Busy, TypeOK
    <2>2. Cardinality(Busy') = Cardinality(Busy) - 1
      BY <2>1, BusyFinite, FS_RemoveElement
    <2>3. Cardinality(Busy) > 0
      BY <2>1, BusyFinite, FS_EmptySet
    <2>4. pending_requests # 0 /\ pending_requests \in Nat
      BY <2>3, BusyFinite DEF TypeOK, PendingExact
    <2>5. PendingExact'
      BY <1>4, <2>2, <2>4, BusyFinite DEF Finish, update_finished, PendingExact, TypeOK
    <2> QED
      BY <1>4, <2>1, <2>4, <2>5
         DEF Finish, update_finished, MainAlone, Inactive
  <1>5. CASE Exit(w)
    <2>1. Busy' = Busy
      BY <1>5 DEF Exit, Busy, TypeOK
    <2> QED
      BY <1>5, <2>1 DEF Exit, PendingExact, MainAlone, Inactive, mainVars
  <1> QED
    BY <1>1, <1>2, <1>3, <1>4, <1>5 DEF Work

\* Every step keeps the inductive invariant.
LEMMA NextCount == CountInv /\ [Next]_vars => CountInv'
  <1> SUFFICES ASSUME CountInv, [Next]_vars PROVE CountInv'
    OBVIOUS
  <1>1. TypeOK'
    BY NextTypeOK DEF CountInv
  <1>2. CASE UNCHANGED vars
    <2>1. Busy' = Busy
      BY <1>2 DEF vars, workerVars, Busy
    <2> QED
      BY <1>1, <1>2, <2>1
         DEF CountInv, PendingExact, MainAlone, Inactive, vars, mainVars
  <1> QED
    BY <1>1, <1>2, MainCount, WorkerCount DEF CountInv, Next

\* The inductive invariant holds in every reachable state.
LEMMA CountInvariant == Spec => []CountInv
  BY InitCount, NextCount, PTL DEF Spec

\* pending_requests is the number of requests in the queue or in a worker, so
\* update_finished never finds it zero.
THEOREM PendingIsExact == Spec => []PendingExact
  BY CountInvariant, PTL DEF CountInv

\* The main thread works on the maps, deletes them and stops the pool only
\* when no worker is in one of them and none waits in the queue.
THEOREM MainIsAlone == Spec => []MainAlone
  BY CountInvariant, PTL DEF CountInv

----------------------------------------------------------------------------
(* No map is updated by two threads at once, and none after it was         *)
(* deleted.                                                                *)

(* The queue as a set of requests.                                         *)

\* enqueue adds one request, and no second one for a map that has none.
LEMMA AppendRequest ==
  ASSUME NEW q \in Seq(Map), NEW m \in Map
  PROVE  /\ ToSet(Append(q, m)) = ToSet(q) \cup {m}
         /\ IsInjective(q) /\ m \notin ToSet(q) => IsInjective(Append(q, m))
  <1> DEFINE r == Append(q, m)
  <1>1. /\ Len(q) \in Nat /\ Len(r) = Len(q) + 1
        /\ DOMAIN q = 1..Len(q) /\ DOMAIN r = 1..(Len(q) + 1)
    OBVIOUS
  <1>2. r[Len(q) + 1] = m /\ \A i \in 1..Len(q) : r[i] = q[i]
    OBVIOUS
  <1> HIDE DEF r
  <1>3. ToSet(r) \subseteq ToSet(q) \cup {m}
    BY <1>1, <1>2 DEF ToSet
  <1>4. ToSet(q) \cup {m} \subseteq ToSet(r)
    BY <1>1, <1>2 DEF ToSet
  <1>5. IsInjective(q) /\ m \notin ToSet(q) => IsInjective(r)
    BY <1>1, <1>2 DEF ToSet, IsInjective
  <1> QED
    BY <1>3, <1>4, <1>5 DEF r

\* dequeue takes the first request, the only one for its map.
LEMMA TailRequest ==
  ASSUME NEW q \in Seq(Map), q # <<>>, IsInjective(q)
  PROVE  /\ Head(q) \in ToSet(q)
         /\ ToSet(Tail(q)) = ToSet(q) \ {Head(q)}
         /\ IsInjective(Tail(q))
  <1>1. Len(q) \in Nat \ {0} /\ Len(Tail(q)) = Len(q) - 1 /\ Tail(q) \in Seq(Map)
    OBVIOUS
  <1>2. \A i \in 1..Len(Tail(q)) : Tail(q)[i] = q[i + 1] /\ i + 1 \in 1..Len(q)
    BY <1>1
  <1>3. DOMAIN q = 1..Len(q) /\ DOMAIN Tail(q) = 1..Len(Tail(q)) /\ Head(q) = q[1]
    BY <1>1
  <1>4. ToSet(Tail(q)) \subseteq ToSet(q) \ {Head(q)}
    BY <1>1, <1>2, <1>3 DEF ToSet, IsInjective
  <1>5. ASSUME NEW i \in 2..Len(q) PROVE q[i] \in ToSet(Tail(q))
    <2>1. i - 1 \in 1..Len(Tail(q)) /\ Tail(q)[i - 1] = q[i]
      BY <1>1, <1>2
    <2> QED
      BY <2>1, <1>3 DEF ToSet
  <1>6. ToSet(q) \ {Head(q)} \subseteq ToSet(Tail(q))
    BY <1>1, <1>3, <1>5 DEF ToSet
  <1>7. IsInjective(Tail(q))
    BY <1>1, <1>2, <1>3 DEF IsInjective
  <1>8. Head(q) \in ToSet(q)
    <2>1. 1 \in DOMAIN q
      BY <1>1, <1>3
    <2> QED
      BY <2>1, <1>3 DEF ToSet
  <1> QED
    BY <1>4, <1>6, <1>7, <1>8

----------------------------------------------------------------------------
(* The inductive invariant.                                                *)

\* The maps that have a request, in the queue or with a worker.
Taken == ToSet(queue) \cup {job[w] : w \in Busy}

\* The maps whose instances are still to be looked at by a worker to come.
Updating == {w \in Worker : step[w] = "update"}
Ahead == toSchedule \cup ToSet(queue) \cup {job[w] : w \in Updating}

\* What is yet to be scheduled has no request: the rest of the iteration of
\* the main thread, the rest of the iteration of each worker over the
\* instances of its map, and the instances of the maps ahead.  NoTwoUpdates
\* needs this to be inductive, since neither iteration asks whether a map has
\* been scheduled already.
Apart ==
    /\ main # "schedule" => toSchedule = {}
    /\ toSchedule \cap Taken = {}
    /\ \A i \in Instance : Parent[i] \in Ahead => i \notin Taken
    /\ \A w \in Worker : todo[w] # {} => step[w] = "children"
    /\ \A w \in Worker : \A i \in todo[w] : Parent[i] = job[w] /\ i \notin Taken

ExclusionInv == CountInv /\ Apart /\ NoTwoUpdates /\ NoDeadMap

\* At the start there is nothing to do.
LEMMA InitExclusion == Init => ExclusionInv
  <1> SUFFICES ASSUME Init PROVE ExclusionInv
    OBVIOUS
  <1>1. Busy = {} /\ Updating = {} /\ ToSet(queue) = {}
    BY DEF Init, Busy, Updating, ToSet
  <1>2. Taken = {} /\ Ahead = {}
    BY <1>1 DEF Taken, Ahead, Init
  <1>3. IsInjective(queue)
    BY DEF Init, IsInjective
  <1> QED
    BY <1>1, <1>2, <1>3, InitCount
       DEF ExclusionInv, Apart, NoTwoUpdates, NoDeadMap, Init

\* Between two ticks no map has a request and no iteration is under way.
LEMMA Quiet ==
  ASSUME ExclusionInv, main \notin {"schedule", "check", "blocked"}
  PROVE  /\ Busy = {} /\ queue = <<>> /\ toSchedule = {}
         /\ Taken = {} /\ Ahead = {} /\ \A w \in Worker : todo[w] = {}
  <1>1. Busy = {} /\ queue = <<>>
    BY DEF ExclusionInv, CountInv, MainAlone
  <1>2. ToSet(queue) = {} /\ Updating = {}
    BY <1>1 DEF ToSet, Busy, Updating
  <1>3. toSchedule = {}
    BY DEF ExclusionInv, Apart
  <1>4. \A w \in Worker : todo[w] = {}
    BY <1>1 DEF ExclusionInv, Apart, Busy
  <1> QED
    BY <1>1, <1>2, <1>3, <1>4 DEF Taken, Ahead

\* A step that leaves the requests and the iterations alone, and deletes no map
\* they are about.
LEMMA UnchangedExclusion ==
  ASSUME Apart, NoTwoUpdates, NoDeadMap,
         UNCHANGED <<queue, step, job, todo, toSchedule>>,
         alive \subseteq alive',
         main' # "schedule" => toSchedule = {}
  PROVE  Apart' /\ NoTwoUpdates' /\ NoDeadMap'
  <1>1. Busy' = Busy /\ Updating' = Updating
    BY DEF Busy, Updating
  <1>2. Taken' = Taken /\ Ahead' = Ahead
    BY <1>1 DEF Taken, Ahead
  <1> QED
    BY <1>1, <1>2 DEF Apart, NoTwoUpdates, NoDeadMap

\* A map that has no request gets one, or is refused.
LEMMA ScheduleUpdateExclusion ==
  ASSUME TypeOK, NoTwoUpdates, NEW m \in Map, m \notin Taken,
         schedule_update(m), UNCHANGED <<step, job>>
  PROVE  /\ NoTwoUpdates'
         /\ ToSet(queue') \subseteq ToSet(queue) \cup {m}
         /\ Taken' \subseteq Taken \cup {m}
  <1>1. Busy' = Busy
    BY DEF Busy
  <1>2. m \notin ToSet(queue) /\ \A w \in Busy : job[w] # m
    BY DEF Taken
  <1>3. queue \in Seq(Map)
    BY DEF TypeOK
  <1>4. queue' \in {queue, Append(queue, m)}
    BY DEF schedule_update
  <1>5. IsInjective(queue') /\ ToSet(queue') \subseteq ToSet(queue) \cup {m}
    BY <1>2, <1>3, <1>4, AppendRequest DEF NoTwoUpdates
  <1>6. NoTwoUpdates'
    BY <1>1, <1>2, <1>5 DEF NoTwoUpdates
  <1> QED
    BY <1>1, <1>5, <1>6 DEF Taken

\* The steps of the main thread.
LEMMA MainExclusion ==
  ASSUME ExclusionInv, Main
  PROVE  Apart' /\ NoTwoUpdates' /\ NoDeadMap'
  <1> USE DEF ExclusionInv, CountInv
  <1>1. ASSUME NEW m \in Map, Create(m) PROVE Apart' /\ NoTwoUpdates' /\ NoDeadMap'
    <2>1. toSchedule = {}
      BY <1>1 DEF Create, Apart
    <2> QED
      BY <1>1, <2>1, UnchangedExclusion DEF Create, mainVars, workerVars
  <1>2. CASE Tick
    <2>1. /\ Busy = {} /\ queue = <<>> /\ Taken = {}
          /\ \A w \in Worker : todo[w] = {}
      BY <1>2, Quiet DEF Tick
    <2>2. Busy' = {} /\ Taken' = {}
      BY <1>2, <2>1 DEF Tick, workerVars, Busy, Taken
    <2>3. toSchedule' \subseteq alive' /\ main' = "schedule"
      BY <1>2 DEF Tick
    <2>4. ToSet(queue') = {} /\ IsInjective(queue')
      BY <1>2, <2>1 DEF Tick, ToSet, IsInjective
    <2> QED
      BY <1>2, <2>1, <2>2, <2>3, <2>4
         DEF Tick, workerVars, Apart, NoTwoUpdates, NoDeadMap
  <1>3. ASSUME NEW m \in Base, Schedule(m) PROVE Apart' /\ NoTwoUpdates' /\ NoDeadMap'
    <2>1. m \in Map /\ m \in toSchedule /\ m \notin Taken /\ m \notin Instance
      BY <1>3 DEF Schedule, Apart, Map
    <2>2. /\ NoTwoUpdates' /\ Taken' \subseteq Taken \cup {m}
          /\ ToSet(queue') \subseteq ToSet(queue) \cup {m}
      BY <1>3, <2>1, ScheduleUpdateExclusion DEF Schedule, workerVars
    <2>3. Busy' = Busy /\ Updating' = Updating
      BY <1>3 DEF Schedule, workerVars, Busy, Updating
    <2>4. Ahead' \subseteq Ahead
      BY <1>3, <2>1, <2>2, <2>3 DEF Schedule, workerVars, Ahead
    <2>5. NoDeadMap'
      BY <1>3, <2>1, <2>2, <2>3 DEF Schedule, workerVars, NoDeadMap
    <2>6. /\ toSchedule' = toSchedule \ {m} /\ main' = "schedule"
          /\ todo' = todo /\ step' = step /\ job' = job
      BY <1>3 DEF Schedule, workerVars
    <2>7. \A i \in Instance : i \in Taken' => i \in Taken
      BY <2>1, <2>2
    <2>8. toSchedule' \cap Taken' = {}
      BY <2>2, <2>6 DEF Apart
    <2>9. \A w \in Worker : todo[w] \subseteq Instance
      BY DEF TypeOK
    <2>10. Apart'
      BY <2>4, <2>6, <2>7, <2>8, <2>9 DEF Apart
    <2> QED
      BY <2>2, <2>5, <2>10
  <1>4. ASSUME NEW m \in Base, UpdateInline(m)
        PROVE  Apart' /\ NoTwoUpdates' /\ NoDeadMap'
    <2>1. Busy = {} /\ queue = <<>> /\ Busy' = {} /\ queue' = <<>>
      BY <1>4 DEF UpdateInline, workerVars, Inactive, Busy
    <2>2. ToSet(queue') = {} /\ IsInjective(queue') /\ Taken' = {}
      BY <2>1 DEF ToSet, IsInjective, Taken
    <2>3. \A w \in Worker : todo[w] = {}
      BY <2>1 DEF Apart, Busy
    <2>4. toSchedule' \subseteq alive' /\ main' = "schedule"
      <3>1. toSchedule \subseteq alive /\ toSchedule \subseteq Base
        BY DEF NoDeadMap, TypeOK
      <3> QED
        BY <1>4, <3>1 DEF UpdateInline, Children
    <2> QED
      BY <1>4, <2>1, <2>2, <2>3, <2>4
         DEF UpdateInline, workerVars, Apart, NoTwoUpdates, NoDeadMap
  <1>5. CASE AllScheduled
    BY <1>5, UnchangedExclusion DEF AllScheduled, workerVars
  <1>6. CASE Wait \/ DelayedUpdate \/ Deactivate \/ Join \/ Stopped
    <2>1. main # "schedule" /\ toSchedule = {}
      BY <1>6 DEF Wait, DelayedUpdate, Deactivate, Join, Stopped, Apart
    <2> QED
      BY <1>6, <2>1, UnchangedExclusion
         DEF Wait, DelayedUpdate, Deactivate, Join, Stopped, workerVars, vars, mainVars
  <1>7. CASE UnloadAll
    <2>1. /\ Busy = {} /\ queue = <<>> /\ toSchedule = {} /\ Taken = {}
          /\ \A w \in Worker : todo[w] = {}
      BY <1>7, Quiet DEF UnloadAll
    <2>2. Busy' = {} /\ Taken' = {} /\ queue' = <<>> /\ toSchedule' = {}
      BY <1>7, <2>1 DEF UnloadAll, workerVars, Busy, Taken
    <2>3. ToSet(queue') = {} /\ IsInjective(queue')
      BY <2>2 DEF ToSet, IsInjective
    <2> QED
      BY <1>7, <2>1, <2>2, <2>3
         DEF UnloadAll, workerVars, Apart, NoTwoUpdates, NoDeadMap
  <1> QED
    BY <1>1, <1>2, <1>3, <1>4, <1>5, <1>6, <1>7 DEF Main


\* The steps of a worker.
LEMMA WorkerExclusion ==
  ASSUME ExclusionInv, NEW w \in Worker, Work(w)
  PROVE  Apart' /\ NoTwoUpdates' /\ NoDeadMap'
  <1> USE DEF ExclusionInv, CountInv
  <1>1. CASE Dequeue(w)
    <2> DEFINE m == Head(queue)
    <2>1. /\ queue # <<>> /\ queue \in Seq(Map) /\ IsInjective(queue)
          /\ step[w] = "free" /\ w \notin Busy
      BY <1>1 DEF Dequeue, TypeOK, NoTwoUpdates, Busy
    <2>2. /\ m \in ToSet(queue) /\ ToSet(queue') = ToSet(queue) \ {m}
          /\ IsInjective(queue')
      BY <1>1, <2>1, TailRequest DEF Dequeue
    <2>3. /\ step' = [step EXCEPT ![w] = "update"]
          /\ job' = [job EXCEPT ![w] = m]
          /\ UNCHANGED <<alive, main, toSchedule, todo>>
      BY <1>1 DEF Dequeue, mainVars
    <2> HIDE DEF m
    <2>4. Busy' = Busy \cup {w} /\ Updating' = Updating \cup {w}
      BY <2>3 DEF Busy, Updating, TypeOK
    <2>5. job'[w] = m /\ \A v \in Worker \ {w} : job'[v] = job[v] /\ step'[v] = step[v]
      BY <2>3 DEF TypeOK
    <2>6. Taken' \subseteq Taken /\ Ahead' \subseteq Ahead
      <3>1. w \notin Updating
        BY <2>1 DEF Updating
      <3> QED
        BY <2>1, <2>2, <2>3, <2>4, <2>5, <3>1 DEF Taken, Ahead, Busy, Updating
    <2>7. \A v \in Busy : job[v] # m
      BY <2>2 DEF NoTwoUpdates
    <2>8. NoTwoUpdates'
      BY <2>1, <2>2, <2>4, <2>5, <2>7 DEF NoTwoUpdates, Busy
    <2>9. todo[w] = {} /\ m \in alive
      BY <2>1, <2>2 DEF Apart, NoDeadMap
    <2>10. NoDeadMap'
      BY <2>2, <2>3, <2>4, <2>5, <2>9 DEF NoDeadMap, Busy
    <2>11. Apart'
      BY <2>3, <2>5, <2>6, <2>9 DEF Apart
    <2> QED
      BY <2>8, <2>10, <2>11
  <1>2. CASE Updated(w)
    <2>1. /\ step[w] = "update" /\ w \in Busy /\ w \in Updating
          /\ step' = [step EXCEPT ![w] = "children"]
          /\ todo' = [todo EXCEPT ![w] = Children(job[w])]
          /\ UNCHANGED <<alive, main, toSchedule, queue, job>>
      BY <1>2 DEF Updated, mainVars, Busy, Updating
    <2>2. Busy' = Busy /\ Updating' \subseteq Updating
      BY <2>1 DEF Busy, Updating, TypeOK
    <2>3. Taken' = Taken /\ Ahead' \subseteq Ahead
      BY <2>1, <2>2 DEF Taken, Ahead
    <2>4. /\ todo'[w] = Children(job[w]) /\ step'[w] = "children"
          /\ \A v \in Worker \ {w} : todo'[v] = todo[v] /\ step'[v] = step[v]
      BY <2>1 DEF TypeOK
    <2>5. \A i \in Children(job[w]) :
             /\ i \in Instance /\ i \in alive /\ Parent[i] = job[w]
             /\ i \notin Taken
      BY <2>1 DEF Children, Apart, Ahead
    <2>6. NoTwoUpdates' /\ NoDeadMap'
      BY <2>1, <2>2, <2>4, <2>5 DEF NoTwoUpdates, NoDeadMap
    <2>7. Apart'
      BY <2>1, <2>3, <2>4, <2>5 DEF Apart
    <2> QED
      BY <2>6, <2>7
  <1>3. ASSUME NEW i \in Instance, Visit(w, i)
        PROVE  Apart' /\ NoTwoUpdates' /\ NoDeadMap'
    <2>1. /\ step[w] = "children" /\ w \in Busy /\ i \in todo[w] /\ i \in Map
          /\ todo' = [todo EXCEPT ![w] = @ \ {i}]
          /\ UNCHANGED <<main, toSchedule, step, job>>
      BY <1>3 DEF Visit, mainVars, Busy, Map
    <2>2. i \notin Taken /\ Parent[i] = job[w] /\ job[w] \in Taken
      BY <2>1 DEF Apart, Taken
    <2>3. Busy' = Busy /\ Updating' = Updating
      BY <2>1 DEF Busy, Updating
    <2>4. /\ NoTwoUpdates' /\ Taken' \subseteq Taken \cup {i}
          /\ ToSet(queue') \subseteq ToSet(queue) \cup {i}
      <3>1. CASE schedule_update(i)
        BY <2>1, <2>2, <3>1, ScheduleUpdateExclusion
      <3>2. CASE queue' = queue
        BY <2>1, <2>3, <3>2 DEF NoTwoUpdates, Taken
      <3> QED
        BY <1>3, <3>1, <3>2 DEF Visit
    \* The map of this worker is not ahead any more, nor is an instance.
    <2>5. Parent[i] \notin Ahead
      <3>1. job[w] \notin toSchedule /\ job[w] \notin ToSet(queue)
        BY <2>1, <2>2 DEF Apart, NoTwoUpdates
      <3>2. \A v \in Updating : v \in Busy /\ v # w
        BY <2>1 DEF Updating, Busy
      <3>3. \A v \in Updating : job[v] # job[w]
        BY <2>1, <3>2 DEF NoTwoUpdates
      <3> QED
        BY <2>2, <3>1, <3>3 DEF Ahead
    <2>6. Ahead' \subseteq Ahead \cup {i}
      BY <2>1, <2>3, <2>4 DEF Ahead
    <2>7. \A j \in Instance : Parent[j] \in Base /\ Parent[j] # i
      OBVIOUS
    <2>8. \A v \in Worker : todo'[v] \subseteq todo[v] /\ i \notin todo'[v]
      <3>1. i \notin todo'[w] /\ todo'[w] \subseteq todo[w]
        BY <2>1 DEF TypeOK
      <3>2. ASSUME NEW v \in Worker \ {w} PROVE todo'[v] = todo[v] /\ i \notin todo[v]
        <4>1. todo'[v] = todo[v]
          BY <2>1 DEF TypeOK
        <4>2. i \in todo[v] => v \in Busy /\ job[v] = job[w]
          BY <2>2 DEF Apart, Busy
        <4> QED
          BY <2>1, <4>1, <4>2 DEF NoTwoUpdates
      <3> QED
        BY <3>1, <3>2
    <2>9. toSchedule' \cap Taken' = {}
      BY <2>1, <2>4 DEF Apart, TypeOK
    <2>10. \A j \in Instance : Parent[j] \in Ahead' => j \notin Taken'
      BY <2>4, <2>5, <2>6, <2>7 DEF Apart
    <2>11. \A v \in Worker : \A j \in todo'[v] :
              /\ step'[v] = "children" /\ Parent[j] = job'[v] /\ j \notin Taken'
      BY <2>1, <2>4, <2>8 DEF Apart
    <2>12. Apart'
      BY <2>1, <2>9, <2>10, <2>11 DEF Apart
    \* An instance that is destroyed has no request and is in no iteration.
    <2>13. NoDeadMap'
      <3>1. /\ ToSet(queue) \cup toSchedule \subseteq alive /\ i \in alive
            /\ \A v \in Busy : job[v] \in alive /\ todo[v] \subseteq alive
        BY <2>1 DEF NoDeadMap
      <3>2. i \notin ToSet(queue) \cup toSchedule /\ \A v \in Busy : job[v] # i
        <4>1. i \notin toSchedule
          BY DEF TypeOK
        <4> QED
          BY <2>2, <4>1 DEF Taken
      <3>3. ASSUME NEW v \in Busy
            PROVE  job'[v] \in alive \ {i} /\ todo'[v] \subseteq alive \ {i}
        <4>1. v \in Worker
          BY DEF Busy
        <4> QED
          BY <2>1, <2>8, <3>1, <3>2, <4>1
      <3>4. CASE alive' = alive
        BY <2>1, <2>3, <2>4, <3>1, <3>3, <3>4 DEF NoDeadMap
      <3>5. CASE queue' = queue /\ alive' = alive \ {i}
        BY <2>1, <2>3, <3>1, <3>2, <3>3, <3>5 DEF NoDeadMap
      <3> QED
        BY <1>3, <3>4, <3>5 DEF Visit
    <2> QED
      BY <2>4, <2>12, <2>13
  <1>4. CASE Finish(w)
    <2>1. /\ step[w] = "children" /\ todo[w] = {}
          /\ step' = [step EXCEPT ![w] = "free"] /\ job' = [job EXCEPT ![w] = NULL]
          /\ UNCHANGED <<alive, toSchedule, queue, todo>>
      BY <1>4 DEF Finish
    <2>2. main' # "schedule" => main # "schedule"
      BY <1>4 DEF Finish, update_finished
    <2>3. \A v \in Worker \ {w} : job'[v] = job[v] /\ step'[v] = step[v]
      BY <2>1 DEF TypeOK
    <2>4. Busy' \subseteq Busy \ {w} /\ Updating' \subseteq Updating \ {w}
      BY <2>1 DEF Busy, Updating, TypeOK
    <2>5. Taken' \subseteq Taken /\ Ahead' \subseteq Ahead
      BY <2>1, <2>3, <2>4 DEF Taken, Ahead, Busy, Updating
    <2>6. Apart'
      BY <2>1, <2>2, <2>3, <2>5 DEF Apart
    <2> QED
      BY <2>1, <2>3, <2>4, <2>6 DEF NoTwoUpdates, NoDeadMap, Busy
  <1>5. CASE Exit(w)
    <2>1. /\ step[w] = "free" /\ step' = [step EXCEPT ![w] = "exit"]
          /\ UNCHANGED <<alive, main, toSchedule, queue, job, todo>>
      BY <1>5 DEF Exit, mainVars
    <2>2. Busy' = Busy /\ Updating' = Updating
      BY <2>1 DEF Busy, Updating, TypeOK
    <2>3. Taken' = Taken /\ Ahead' = Ahead
      BY <2>1, <2>2 DEF Taken, Ahead
    <2>4. todo[w] = {} /\ \A v \in Worker \ {w} : step'[v] = step[v]
      BY <2>1 DEF Apart, TypeOK
    <2>5. Apart'
      BY <2>1, <2>3, <2>4 DEF Apart
    <2> QED
      BY <2>1, <2>2, <2>5 DEF NoTwoUpdates, NoDeadMap
  <1> QED
    BY <1>1, <1>2, <1>3, <1>4, <1>5 DEF Work

----------------------------------------------------------------------------
\* Every step keeps the inductive invariant.
LEMMA NextExclusion == ExclusionInv /\ [Next]_vars => ExclusionInv'
  <1> SUFFICES ASSUME ExclusionInv, [Next]_vars PROVE ExclusionInv'
    OBVIOUS
  <1>1. CountInv'
    BY NextCount DEF ExclusionInv
  <1>2. CASE UNCHANGED vars
    BY <1>1, <1>2, UnchangedExclusion
       DEF ExclusionInv, Apart, vars, mainVars, workerVars
  <1>3. CASE Next
    BY <1>1, <1>3, MainExclusion, WorkerExclusion DEF ExclusionInv, Next
  <1> QED
    BY <1>2, <1>3

\* The inductive invariant holds in every reachable state.
LEMMA ExclusionInvariant == Spec => []ExclusionInv
  BY InitExclusion, NextExclusion, PTL DEF Spec

\* No map is updated by two workers at once, or scheduled again while it is
\* scheduled or updated, though instances are scheduled by workers.
THEOREM NoMapTwice == Spec => []NoTwoUpdates
  BY ExclusionInvariant, PTL DEF ExclusionInv

\* A map that is scheduled or updated is alive: workers destroy instances and
\* the main thread deletes all maps only when nobody will touch them.
THEOREM NoMapDead == Spec => []NoDeadMap
  BY ExclusionInvariant, PTL DEF ExclusionInv

----------------------------------------------------------------------------
(* MapUpdater implements MapTick.                                          *)

(* What is left to do in a tick.                                           *)

\* The maps that are yet to be begun, passed over or destroyed in this tick:
\* those ahead in an iteration or in the queue, and the instances of the maps
\* ahead.
ToDo ==
    {m \in Map : \/ m \in toSchedule \cup ToSet(queue)
                 \/ \E w \in Worker : m \in todo[w]
                 \/ m \in Instance \cap alive /\ Parent[m] \in Ahead}

\* Of the maps there are, exactly these have not been dealt with.
Complete == Ticking => alive \ (updated \cup skipped) = ToDo

\* An instance lives in a map that lives.
Parents == \A i \in Instance \cap alive : Parent[i] \in alive

RefinementInv == ExclusionInv /\ Parents /\ Complete

\* A step inside a tick that begins the maps U, passes K over and destroys D,
\* all of them to be done before and none of them after, is one of MapTick.
LEMMA ProgressStep ==
  ASSUME Complete, Ticking, Ticking', NEW U, NEW K, NEW D,
         U \cup K \cup D \subseteq ToDo,
         U \cap K = {}, U \cap D = {}, K \cap D = {},
         updated' = updated \cup U, skipped' = skipped \cup K, alive' = alive \ D,
         ToDo' = ToDo \ (U \cup K \cup D)
  PROVE  Complete' /\ Abstract!Next
  <1>1. alive \ (updated \cup skipped) = ToDo
    BY DEF Complete
  <1>2. alive' \ (updated' \cup skipped') = ToDo'
    BY <1>1
  <1>3. updated' \ updated = U /\ skipped' \ skipped = K /\ alive \ alive' = D
    BY <1>1
  <1>4. /\ updated \subseteq updated' /\ skipped \subseteq skipped'
        /\ alive' \subseteq alive
    OBVIOUS
  <1>5. Ticking' = Ticking
    BY DEF Ticking
  <1>6. Abstract!Progress
    BY <1>1, <1>3, <1>4, <1>5 DEF Abstract!Progress
  <1> QED
    BY <1>2, <1>6 DEF Complete, Abstract!Next

\* A step inside a tick that only moves work from one thread to another.
LEMMA SameWorkStep ==
  ASSUME Complete, Ticking' = Ticking, UNCHANGED <<alive, updated, skipped>>,
         Ticking => ToDo' = ToDo
  PROVE  Complete' /\ UNCHANGED Abstract!vars
  BY DEF Complete, Abstract!vars

\* When nobody has work left, all is done.
LEMMA NothingToDo ==
  ASSUME ExclusionInv, toSchedule = {}, Busy = {}, queue = <<>>
  PROVE  ToDo = {}
  <1>1. ToSet(queue) = {} /\ Updating = {}
    BY DEF ToSet, Busy, Updating
  <1>2. Ahead = {} /\ \A w \in Worker : todo[w] = {}
    BY <1>1 DEF Ahead, ExclusionInv, Apart, Busy
  <1> QED
    BY <1>1, <1>2 DEF ToDo

\* The tick may end then.
LEMMA EndTickStep ==
  ASSUME RefinementInv, Ticking, ~Ticking', toSchedule = {}, Busy = {},
         queue = <<>>, UNCHANGED <<alive, updated, skipped>>
  PROVE  Complete' /\ Abstract!Next
  <1>1. ToDo = {}
    BY NothingToDo DEF RefinementInv
  <1>2. alive \subseteq updated \cup skipped
    BY <1>1 DEF RefinementInv, Complete
  <1>3. Ticking' = FALSE
    BY DEF Ticking
  <1> QED
    BY <1>2, <1>3 DEF Complete, Abstract!EndTick, Abstract!Next
----------------------------------------------------------------------------
(* Every step maps to a step of MapTick or leaves its variables alone.     *)

\* What a step has to show.
Simulates == Parents' /\ Complete' /\ [Abstract!Next]_(Abstract!vars)

\* The steps of the main thread.
LEMMA MainSimulates ==
  ASSUME RefinementInv, Main
  PROVE  Simulates
  <1> USE DEF RefinementInv
  <1>1. TypeOK /\ Parents
    BY DEF ExclusionInv, CountInv
  <1>2. ASSUME NEW m \in Map, Create(m) PROVE Simulates
    <2>1. Parents'
      BY <1>1, <1>2 DEF Create, Parents
    <2>2. ~Ticking /\ ~Ticking' /\ Ticking' = Ticking
      BY <1>2 DEF Create, mainVars, Ticking
    <2>3. Abstract!Create(m)
      BY <1>2, <2>2 DEF Create, Abstract!Create
    <2> QED
      BY <2>1, <2>2, <2>3 DEF Simulates, Complete, Abstract!Next
  <1>3. CASE Tick
    <2>1. /\ alive' = alive /\ updated' = {} /\ skipped' = {}
          /\ toSchedule' = Base \cap alive
          /\ UNCHANGED <<queue, step, job, todo>>
      BY <1>3 DEF Tick, workerVars
    <2>2. Ticking = FALSE /\ Ticking' = TRUE
      BY <1>3 DEF Tick, Ticking
    <2>3. Base \cap alive \subseteq Ahead'
      BY <2>1 DEF Ahead
    <2>4. \A i \in Instance \cap alive : Parent[i] \in Ahead'
      BY <2>1, <2>3 DEF Parents
    <2>5. alive \subseteq ToDo'
      BY <1>1, <2>1, <2>4 DEF ToDo, TypeOK, Map
    <2>6. ToDo' \subseteq alive
      <3>1. queue = <<>> /\ \A w \in Worker : todo[w] = {}
        BY <1>3, Quiet DEF Tick
      <3>2. ToSet(queue') = {}
        BY <2>1, <3>1 DEF ToSet
      <3> QED
        BY <2>1, <3>1, <3>2 DEF ToDo
    <2>7. Complete' /\ Parents'
      BY <2>1, <2>5, <2>6 DEF Complete, Parents
    <2>8. Abstract!BeginTick
      BY <2>1, <2>2 DEF Abstract!BeginTick
    <2> QED
      BY <2>7, <2>8 DEF Simulates, Abstract!Next
  <1>4. ASSUME NEW m \in Base, Schedule(m) PROVE Simulates
    <2>1. /\ m \in Map /\ m \notin Instance /\ m \in toSchedule /\ m \notin Taken
          /\ toSchedule' = toSchedule \ {m} /\ schedule_update(m)
          /\ Ticking /\ Ticking' /\ Ticking' = Ticking
          /\ UNCHANGED <<alive, updated, step, job, todo>>
      BY <1>4 DEF Schedule, workerVars, Map, Ticking, ExclusionInv, Apart
    <2>2. Parents' /\ Updating' = Updating
      BY <2>1 DEF Parents, Updating
    <2>3. queue \in Seq(Map)
      BY <1>1 DEF TypeOK
    <2>4. CASE Len(queue) < QueueMax
      <3>1. ToSet(queue') = ToSet(queue) \cup {m} /\ skipped' = skipped
        BY <2>1, <2>3, <2>4, AppendRequest DEF schedule_update
      <3>2. Ahead' = Ahead
        BY <2>1, <2>2, <3>1 DEF Ahead
      <3>3. ToDo' = ToDo
        BY <2>1, <3>1, <3>2 DEF ToDo
      <3> QED
        BY <2>1, <2>2, <3>1, <3>3, SameWorkStep DEF Simulates
    <2>5. CASE ~(Len(queue) < QueueMax)
      <3> DEFINE K == {m} \cup Children(m)
      <3>1. queue' = queue /\ skipped' = skipped \cup K
        BY <2>1, <2>5 DEF schedule_update
      <3>2. m \notin ToSet(queue) /\ \A w \in Updating : job[w] # m
        BY <2>1 DEF Taken, Updating, Busy
      <3>3. Ahead' = Ahead \ {m} /\ m \in Ahead
        BY <2>1, <2>2, <3>1, <3>2 DEF Ahead
      <3>4. K \subseteq ToDo
        BY <2>1, <3>3 DEF ToDo, Children, Map
      <3>5. \A i \in Children(m) :
              i \notin ToSet(queue) \cup toSchedule /\ \A w \in Worker : i \notin todo[w]
        <4> SUFFICES ASSUME NEW i \in Children(m)
                     PROVE  /\ i \notin ToSet(queue) \cup toSchedule
                            /\ \A w \in Worker : i \notin todo[w]
          OBVIOUS
        <4>1. i \in Instance /\ i \notin Base /\ Parent[i] = m
          BY DEF Children
        <4>2. i \notin Taken /\ i \notin toSchedule
          BY <1>1, <3>3, <4>1 DEF ExclusionInv, Apart, TypeOK
        <4>3. ASSUME NEW w \in Worker, i \in todo[w] PROVE FALSE
          <5>1. step[w] = "children" /\ job[w] = m
            BY <4>1, <4>3 DEF ExclusionInv, Apart
          <5> QED
            BY <2>1, <5>1 DEF Taken, Busy
        <4> QED
          BY <4>2, <4>3 DEF Taken
      <3>6. \A w \in Worker : m \notin todo[w]
        BY <1>1, <2>1 DEF TypeOK
      <3>7. ToDo' = ToDo \ K
        <4>1. ToDo' \subseteq ToDo \ K
          BY <2>1, <3>1, <3>2, <3>3, <3>5, <3>6 DEF ToDo, Children
        <4>2. ToDo \ K \subseteq ToDo'
          BY <2>1, <3>1, <3>3 DEF ToDo, Children
        <4> QED
          BY <4>1, <4>2
      <3> HIDE DEF K
      <3>8. Complete' /\ Abstract!Next
        <4>1. /\ {} \cup K \cup {} = K /\ updated' = updated \cup {}
              /\ alive' = alive \ {}
          BY <2>1
        <4> QED
          BY <2>1, <3>1, <3>4, <3>7, <4>1, ProgressStep
      <3> QED
        BY <2>2, <3>8 DEF Simulates
    <2> QED
      BY <2>4, <2>5
  <1>5. ASSUME NEW m \in Base, UpdateInline(m) PROVE Simulates
    <2> DEFINE C == Children(m)
    <2>1. /\ m \in Map /\ m \notin Instance /\ m \in toSchedule /\ m \in Ahead
          /\ toSchedule' = toSchedule \ {m}
          /\ Ticking /\ Ticking'
          /\ UNCHANGED <<queue, step, job, todo>>
      BY <1>5 DEF UpdateInline, workerVars, Map, Ticking, Ahead
    <2>2. PICK D \in SUBSET C, K \in SUBSET C :
            /\ D \cap K = {} /\ alive' = alive \ D
            /\ updated' = updated \cup {m} \cup (C \ (D \cup K))
            /\ skipped' = skipped \cup K
      BY <1>5 DEF UpdateInline
    <2>3. Busy = {} /\ queue = <<>>
      BY <1>5 DEF UpdateInline, ExclusionInv, CountInv, Inactive
    <2>4. ToSet(queue) = {} /\ Updating = {} /\ Updating' = {}
      BY <2>1, <2>3 DEF ToSet, Busy, Updating
    <2>5. Ahead = toSchedule /\ Ahead' = toSchedule \ {m}
      BY <2>1, <2>4 DEF Ahead
    <2>6. \A w \in Worker : todo[w] = {}
      BY <2>3 DEF ExclusionInv, Apart, Busy
    <2>7. \A i \in C : i \in Instance /\ i \in alive /\ i \in Map /\ Parent[i] = m
                       /\ i # m /\ i \notin toSchedule
      BY <1>1, <2>1 DEF Children, Map, TypeOK
    <2>8. Parents'
      BY <2>2, <2>7 DEF Parents
    <2>9. {m} \cup C \subseteq ToDo
      BY <2>1, <2>7 DEF ToDo
    <2>10. ToDo' = ToDo \ ({m} \cup C)
      <3>1. ToDo' \subseteq ToDo \ ({m} \cup C)
        BY <2>1, <2>2, <2>4, <2>5, <2>6, <2>7 DEF ToDo
      <3>2. ToDo \ ({m} \cup C) \subseteq ToDo'
        <4>1. \A i \in Instance \cap alive : Parent[i] = m => i \in C
          BY DEF Children
        <4> QED
          BY <2>1, <2>2, <2>4, <2>5, <2>6, <4>1 DEF ToDo
      <3> QED
        BY <3>1, <3>2
    <2> HIDE DEF C
    <2>11. Complete' /\ Abstract!Next
      <3> DEFINE U == {m} \cup (C \ (D \cup K))
      <3>1. /\ U \cup K \cup D = {m} \cup C
            /\ U \cap K = {} /\ U \cap D = {} /\ K \cap D = {}
            /\ updated' = updated \cup U
        BY <2>2, <2>7
      <3> HIDE DEF U
      <3> QED
        BY <2>1, <2>2, <2>9, <2>10, <3>1, ProgressStep
    <2> QED
      BY <2>8, <2>11 DEF Simulates
  <1>6. CASE AllScheduled
    <2>1. /\ Ticking /\ toSchedule = {}
          /\ UNCHANGED <<alive, toSchedule, queue, step, job, todo, updated, skipped>>
      BY <1>6 DEF AllScheduled, workerVars, Ticking
    <2>2. Parents'
      BY <2>1 DEF Parents
    <2>3. CASE activated
      <3>1. Ticking' = Ticking
        BY <1>6, <2>3 DEF AllScheduled, Ticking
      <3>2. ToDo' = ToDo
        BY <2>1 DEF ToDo, Ahead, Updating
      <3> QED
        BY <2>1, <2>2, <3>1, <3>2, SameWorkStep DEF Simulates
    <2>4. CASE ~activated
      <3>1. Busy = {} /\ queue = <<>>
        BY <2>4 DEF ExclusionInv, CountInv, Inactive
      <3>2. ~Ticking'
        BY <1>6, <2>4 DEF AllScheduled, Ticking
      <3> QED
        BY <2>1, <2>2, <3>1, <3>2, EndTickStep DEF Simulates
    <2> QED
      BY <2>3, <2>4
  <1>7. CASE Wait
    <2>1. /\ Ticking /\ toSchedule = {}
          /\ UNCHANGED <<alive, toSchedule, queue, step, job, todo, updated, skipped>>
      BY <1>7 DEF Wait, workerVars, Ticking, ExclusionInv, Apart
    <2>2. Parents'
      BY <2>1 DEF Parents
    <2>3. CASE pending_requests > 0
      <3>1. Ticking' = Ticking
        BY <1>7, <2>3 DEF Wait, Ticking
      <3>2. ToDo' = ToDo
        BY <2>1 DEF ToDo, Ahead, Updating
      <3> QED
        BY <2>1, <2>2, <3>1, <3>2, SameWorkStep DEF Simulates
    <2>4. CASE ~(pending_requests > 0)
      <3>1. pending_requests = 0
        BY <1>1, <2>4 DEF TypeOK
      <3>2. Busy = {} /\ queue = <<>>
        BY <3>1, NothingPending DEF ExclusionInv, CountInv
      <3>3. ~Ticking'
        BY <1>7, <2>4 DEF Wait, Ticking
      <3> QED
        BY <2>1, <2>2, <3>2, <3>3, EndTickStep DEF Simulates
    <2> QED
      BY <2>3, <2>4
  <1>8. CASE DelayedUpdate \/ Deactivate \/ Join \/ Stopped
    <2>1. /\ Ticking = FALSE /\ Ticking' = FALSE
          /\ UNCHANGED <<alive, updated, skipped>>
      BY <1>8 DEF DelayedUpdate, Deactivate, Join, Stopped, Ticking, vars, mainVars
    <2>2. Parents'
      BY <2>1 DEF Parents
    <2> QED
      BY <2>1, <2>2, SameWorkStep DEF Simulates
  <1>9. CASE UnloadAll
    <2>1. /\ Ticking = FALSE /\ Ticking' = FALSE
          /\ alive' = {} /\ UNCHANGED <<updated, skipped>>
      BY <1>9 DEF UnloadAll, Ticking
    <2>2. Parents' /\ Complete'
      BY <2>1 DEF Parents, Complete
    <2>3. Abstract!UnloadAll
      BY <2>1 DEF Abstract!UnloadAll
    <2> QED
      BY <2>2, <2>3 DEF Simulates, Abstract!Next
  <1> QED
    BY <1>2, <1>3, <1>4, <1>5, <1>6, <1>7, <1>8, <1>9 DEF Main


\* The steps of a worker.
LEMMA WorkerSimulates ==
  ASSUME RefinementInv, NEW w \in Worker, Work(w)
  PROVE  Simulates
  <1> USE DEF RefinementInv
  <1>1. TypeOK /\ Parents /\ Apart
    BY DEF ExclusionInv, CountInv
  \* A worker that has, or finds, a request works inside a tick.
  <1>a. queue # <<>> \/ Busy # {} => Ticking
    BY DEF ExclusionInv, CountInv, MainAlone, Ticking
  <1>2. CASE Dequeue(w)
    <2> DEFINE m == Head(queue)
    <2>1. /\ queue # <<>> /\ queue \in Seq(Map) /\ IsInjective(queue)
          /\ step[w] = "free" /\ Ticking /\ Ticking'
          /\ step' = [step EXCEPT ![w] = "update"]
          /\ job' = [job EXCEPT ![w] = m]
          /\ updated' = updated \cup {m}
          /\ UNCHANGED <<alive, toSchedule, todo, skipped>>
      BY <1>1, <1>2, <1>a
         DEF Dequeue, mainVars, Ticking, TypeOK, ExclusionInv, NoTwoUpdates
    <2>2. /\ m \in ToSet(queue) /\ ToSet(queue') = ToSet(queue) \ {m}
      BY <1>2, <2>1, TailRequest DEF Dequeue
    <2> HIDE DEF m
    <2>3. /\ Updating' = Updating \cup {w} /\ w \notin Updating /\ job'[w] = m
          /\ \A v \in Worker \ {w} : job'[v] = job[v]
      BY <1>1, <2>1 DEF Updating, TypeOK
    <2>4. Ahead' = Ahead
      BY <2>1, <2>2, <2>3 DEF Ahead, Updating
    <2>5. /\ m \in Map /\ m \in Taken /\ m \notin toSchedule
          /\ \A v \in Worker : m \notin todo[v]
          /\ m \in Instance => Parent[m] \notin Ahead
      <3>1. m \in Taken /\ m \in alive
        BY <2>2 DEF Taken, ExclusionInv, NoDeadMap
      <3> QED
        BY <1>1, <3>1 DEF Apart, TypeOK
    <2>6. {m} \subseteq ToDo
      BY <2>2, <2>5 DEF ToDo
    <2>7. ToDo' = ToDo \ {m}
      BY <2>1, <2>2, <2>4, <2>5 DEF ToDo
    <2>8. Complete' /\ Abstract!Next
      <3>1. /\ {m} \cup {} \cup {} = {m} /\ skipped' = skipped \cup {}
            /\ alive' = alive \ {}
        BY <2>1
      <3> QED
        BY <2>1, <2>6, <2>7, <3>1, ProgressStep
    <2> QED
      BY <2>1, <2>8 DEF Simulates, Parents
  <1>3. CASE Updated(w)
    <2>1. /\ step[w] = "update" /\ w \in Busy /\ w \in Updating /\ Ticking
          /\ step' = [step EXCEPT ![w] = "children"]
          /\ todo' = [todo EXCEPT ![w] = Children(job[w])]
          /\ UNCHANGED <<alive, main, toSchedule, queue, job, updated, skipped>>
      BY <1>3, <1>a DEF Updated, mainVars, Busy, Updating
    <2>2. Updating' = Updating \ {w} /\ Updating \subseteq Busy
      BY <1>1, <2>1 DEF Updating, TypeOK, Busy
    <2>3. /\ todo'[w] = Children(job[w]) /\ todo[w] = {}
          /\ \A v \in Worker \ {w} : todo'[v] = todo[v]
      BY <1>1, <2>1 DEF TypeOK, Apart
    <2>4. job[w] \in Ahead /\ Ahead' = Ahead \ {job[w]}
      <3>1. job[w] \in Ahead
        BY <2>1 DEF Ahead
      <3>2. job[w] \notin toSchedule /\ job[w] \notin ToSet(queue)
        BY <1>1, <2>1 DEF Apart, Taken, ExclusionInv, NoTwoUpdates
      <3>3. \A v \in Updating \ {w} : job[v] # job[w]
        BY <2>1, <2>2 DEF ExclusionInv, NoTwoUpdates
      <3> QED
        BY <2>1, <2>2, <3>1, <3>2, <3>3 DEF Ahead
    <2>5. \A x \in Map : (\E v \in Worker : x \in todo'[v]) <=>
             \/ \E v \in Worker : x \in todo[v]
             \/ x \in Instance \cap alive /\ Parent[x] = job[w]
      BY <2>3 DEF Children
    <2>6. ToDo' = ToDo
      <3>1. ToDo' \subseteq ToDo
        BY <2>1, <2>4, <2>5 DEF ToDo
      <3>2. ToDo \subseteq ToDo'
        BY <2>1, <2>4, <2>5 DEF ToDo
      <3> QED
        BY <3>1, <3>2
    <2> QED
      BY <2>1, <2>6, SameWorkStep DEF Simulates, Parents, Ticking
  <1>4. ASSUME NEW i \in Instance, Visit(w, i) PROVE Simulates
    <2>1. /\ step[w] = "children" /\ w \in Busy /\ i \in todo[w] /\ i \in Map
          /\ Ticking /\ Ticking' /\ Ticking' = Ticking
          /\ todo' = [todo EXCEPT ![w] = @ \ {i}]
          /\ UNCHANGED <<toSchedule, step, job, updated>>
      BY <1>4, <1>a DEF Visit, mainVars, Busy, Map, Ticking
    <2>2. i \notin Taken /\ Parent[i] = job[w] /\ i \in alive
      BY <1>1, <2>1 DEF Apart, ExclusionInv, NoDeadMap
    <2>3. i \notin toSchedule /\ i \notin ToSet(queue) /\ Children(i) = {}
      BY <1>1, <2>2 DEF TypeOK, Taken, Children
    <2>4. Parent[i] \notin Ahead
      <3>1. job[w] \notin toSchedule /\ job[w] \notin ToSet(queue)
        BY <1>1, <2>1 DEF Apart, Taken, ExclusionInv, NoTwoUpdates
      <3>2. \A v \in Updating : v \in Busy /\ v # w
        BY <2>1 DEF Updating, Busy
      <3>3. \A v \in Updating : job[v] # job[w]
        BY <2>1, <3>2 DEF ExclusionInv, NoTwoUpdates
      <3> QED
        BY <2>2, <3>1, <3>3 DEF Ahead
    <2>5. /\ todo'[w] = todo[w] \ {i}
          /\ \A v \in Worker \ {w} : todo'[v] = todo[v] /\ i \notin todo[v]
      <3>1. todo'[w] = todo[w] \ {i} /\ \A v \in Worker \ {w} : todo'[v] = todo[v]
        BY <1>1, <2>1 DEF TypeOK
      <3>2. ASSUME NEW v \in Worker \ {w}, i \in todo[v] PROVE FALSE
        <4>1. v \in Busy /\ job[v] = job[w]
          BY <1>1, <2>2, <3>2 DEF Apart, Busy
        <4> QED
          BY <2>1, <4>1 DEF ExclusionInv, NoTwoUpdates
      <3> QED
        BY <3>1, <3>2
    <2>6. \A x : (\E v \in Worker : x \in todo'[v]) <=>
                    x # i /\ \E v \in Worker : x \in todo[v]
      BY <2>5
    <2>7. i \in ToDo /\ Updating' = Updating /\ \A j \in Instance : Parent[j] # i
      BY <2>1 DEF ToDo, Updating
    <2>8. queue \in Seq(Map)
      BY <1>1 DEF TypeOK
    \* Unless the instance is put into the queue, it is dealt with.
    <2>9. ASSUME queue' = queue, alive' \in {alive, alive \ {i}} PROVE ToDo' = ToDo \ {i}
      <3>1. Ahead' = Ahead
        BY <2>1, <2>7, <2>9 DEF Ahead
      <3>2. ToDo' \subseteq ToDo \ {i}
        BY <2>1, <2>3, <2>4, <2>6, <2>9, <3>1 DEF ToDo
      <3>3. ToDo \ {i} \subseteq ToDo'
        BY <2>1, <2>6, <2>9, <3>1 DEF ToDo
      <3> QED
        BY <3>2, <3>3
    <2>10. CASE schedule_update(i) /\ UNCHANGED alive /\ Len(queue) < QueueMax
      <3>1. ToSet(queue') = ToSet(queue) \cup {i} /\ skipped' = skipped
        BY <2>1, <2>8, <2>10, AppendRequest DEF schedule_update
      <3>2. Ahead' = Ahead \cup {i}
        BY <2>1, <2>7, <3>1 DEF Ahead
      <3>3. \A j \in Instance : Parent[j] \in Ahead' <=> Parent[j] \in Ahead
        BY <2>7, <3>2
      <3>4. ToDo' = ToDo
        <4>1. ToDo' \subseteq ToDo
          BY <2>1, <2>6, <2>7, <2>10, <3>1, <3>3 DEF ToDo
        <4>2. ToDo \subseteq ToDo'
          BY <2>1, <2>6, <2>7, <2>10, <3>1, <3>3 DEF ToDo
        <4> QED
          BY <4>1, <4>2
      <3> QED
        BY <2>1, <2>10, <3>1, <3>4, SameWorkStep DEF Simulates, Parents
    <2>11. CASE /\ queue' = queue /\ alive' = alive /\ skipped' = skipped \cup {i}
      <3>1. /\ {} \cup {i} \cup {} = {i} /\ updated' = updated \cup {}
            /\ alive' = alive \ {}
        BY <2>1, <2>11
      <3>2. Complete' /\ Abstract!Next
        BY <2>1, <2>7, <2>9, <2>11, <3>1, ProgressStep
      <3> QED
        BY <2>11, <3>2 DEF Simulates, Parents
    <2>12. CASE /\ queue' = queue /\ alive' = alive \ {i} /\ skipped' = skipped
      <3>1. /\ {} \cup {} \cup {i} = {i} /\ updated' = updated \cup {}
            /\ skipped' = skipped \cup {}
        BY <2>1, <2>12
      <3>2. Complete' /\ Abstract!Next
        BY <2>1, <2>7, <2>9, <2>12, <3>1, ProgressStep
      <3>3. Parents'
        BY <2>7, <2>12 DEF Parents
      <3> QED
        BY <3>2, <3>3 DEF Simulates
    <2>13. schedule_update(i) /\ ~(Len(queue) < QueueMax)
             => queue' = queue /\ skipped' = skipped \cup {i}
      BY <2>3 DEF schedule_update
    <2> QED
      BY <1>4, <2>10, <2>11, <2>12, <2>13 DEF Visit
  <1>5. CASE Finish(w)
    <2>1. /\ step[w] = "children" /\ w \in Busy /\ Ticking
          /\ step' = [step EXCEPT ![w] = "free"] /\ job' = [job EXCEPT ![w] = NULL]
          /\ UNCHANGED <<alive, toSchedule, queue, todo, updated, skipped>>
      BY <1>5, <1>a DEF Finish, Busy
    <2>2. Ticking' = Ticking
      BY <1>5 DEF Finish, update_finished, Ticking
    <2>3. Updating' = Updating /\ \A v \in Updating : job'[v] = job[v]
      BY <1>1, <2>1 DEF Updating, TypeOK
    <2>4. ToDo' = ToDo
      BY <2>1, <2>3 DEF ToDo, Ahead
    <2> QED
      BY <2>1, <2>2, <2>4, SameWorkStep DEF Simulates, Parents
  <1>6. CASE Exit(w)
    <2>1. /\ step[w] = "free" /\ step' = [step EXCEPT ![w] = "exit"]
          /\ UNCHANGED <<alive, main, toSchedule, queue, job, todo, updated, skipped>>
      BY <1>6 DEF Exit, mainVars
    <2>2. Updating' = Updating
      BY <1>1, <2>1 DEF Updating, TypeOK
    <2>3. ToDo' = ToDo /\ Ticking' = Ticking
      BY <2>1, <2>2 DEF ToDo, Ahead, Ticking
    <2> QED
      BY <2>1, <2>3, SameWorkStep DEF Simulates, Parents
  <1> QED
    BY <1>2, <1>3, <1>4, <1>5, <1>6 DEF Work

----------------------------------------------------------------------------
\* At the start MapTick is at its start.
LEMMA InitSimulates == Init => RefinementInv /\ Abstract!Init
  <1> SUFFICES ASSUME Init PROVE RefinementInv /\ Abstract!Init
    OBVIOUS
  <1>1. Ticking = FALSE
    BY DEF Init, Ticking
  <1> QED
    BY <1>1, InitExclusion DEF Init, RefinementInv, Parents, Complete, Abstract!Init

\* Every step keeps the invariant and is a step of MapTick or a stutter.
LEMMA NextSimulates ==
  RefinementInv /\ [Next]_vars => RefinementInv' /\ [Abstract!Next]_(Abstract!vars)
  <1> SUFFICES ASSUME RefinementInv, [Next]_vars
               PROVE  RefinementInv' /\ [Abstract!Next]_(Abstract!vars)
    OBVIOUS
  <1>1. ExclusionInv'
    BY NextExclusion DEF RefinementInv
  <1>2. CASE UNCHANGED vars
    <2>1. Parents' /\ Complete' /\ UNCHANGED Abstract!vars
      BY <1>2 DEF RefinementInv, vars, mainVars, workerVars, Parents, Complete,
                  ToDo, Ahead, Updating, Ticking, Abstract!vars
    <2> QED
      BY <1>1, <2>1 DEF RefinementInv
  <1>3. CASE Next
    BY <1>1, <1>3, MainSimulates, WorkerSimulates
       DEF Next, Simulates, RefinementInv
  <1> QED
    BY <1>2, <1>3

\* MapManager::Update with any number of worker threads, or none, does what
\* MapTick says: maps are begun inside a tick only, none twice, and when the
\* tick ends every map there is was begun or passed over for a reason.
THEOREM MapTickImplemented == Spec => ImplementsMapTick
  BY InitSimulates, NextSimulates, PTL
     DEF Spec, ImplementsMapTick, Abstract!Spec
=============================================================================

------------------------------- MODULE MapTick -------------------------------
(***************************************************************************)
(* What one round of MapManager::Update promises to the rest of the main   *)
(* loop, however many threads share the work: maps are updated inside a    *)
(* tick only, no map twice in a tick, and when the tick is over every map  *)
(* there is has been updated or passed over for a reason.  Outside a tick  *)
(* the main thread has the maps for itself.                                *)
(***************************************************************************)
CONSTANT Map

VARIABLES
    exists,     \* the maps there are
    ticking,
    updated,    \* the maps whose update has begun in this tick
    skipped     \* those left out: no room in the queue, or about to be unloaded

vars == <<exists, ticking, updated, skipped>>

Init == exists = {} /\ ticking = FALSE /\ updated = {} /\ skipped = {}

Create(m) ==
    /\ ~ticking /\ m \notin exists
    /\ exists' = exists \cup {m}
    /\ UNCHANGED <<ticking, updated, skipped>>

BeginTick ==
    /\ ~ticking
    /\ ticking' = TRUE /\ updated' = {} /\ skipped' = {}
    /\ UNCHANGED exists

\* In one step of an implementation some maps are updated, some passed over
\* and some destroyed, none of which was before.
Progress ==
    /\ ticking
    /\ updated \subseteq updated' /\ skipped \subseteq skipped'
    /\ exists' \subseteq exists
    /\ LET U == updated' \ updated
           K == skipped' \ skipped
           D == exists \ exists'
       IN  /\ U \cup K \cup D \subseteq exists \ (updated \cup skipped)
           /\ U \cap K = {} /\ U \cap D = {} /\ K \cap D = {}
    /\ UNCHANGED ticking

EndTick ==
    /\ ticking /\ exists \subseteq updated \cup skipped
    /\ ticking' = FALSE
    /\ UNCHANGED <<exists, updated, skipped>>

UnloadAll ==
    /\ ~ticking
    /\ exists' = {}
    /\ UNCHANGED <<ticking, updated, skipped>>

Next ==
    \/ \E m \in Map : Create(m)
    \/ BeginTick \/ Progress \/ EndTick \/ UnloadAll

Spec == Init /\ [][Next]_vars
=============================================================================

------------------------------ MODULE BusCoord ------------------------------
(***************************************************************************)
(* The RS-485 bus coordinator of src/src/bus_coord.c: a table of MaxBuses  *)
(* slots, each a reentrant lock named by a serial path, all guarded by the *)
(* one mutex g_lock.  Every operation runs under g_lock and gives it up    *)
(* only inside pthread_cond_wait, so an operation is one atomic step up to *)
(* its wait, and each wake-up is another.                                  *)
(*                                                                         *)
(* A thread stands for a device unit's poll thread: it uses the one path   *)
(* of its configuration (NoPath for a TCP unit).  A slot is allocated iff  *)
(* its path is not NoPath; no operation ever frees one.                    *)
(***************************************************************************)
EXTENDS Integers, FiniteSets

CONSTANTS
  Threads,    \* the poll threads
  NoThread,   \* the all-zero pthread_t left by memset
  Paths,      \* serial paths
  NoPath,     \* NULL or empty path
  PathOf,     \* the path each thread passes to the coordinator
  MaxBuses,   \* BUS_COORD_MAX_BUSES
  MaxDepth    \* bound on the nesting the callers use

ASSUME ThreadAssumption == NoThread \notin Threads
ASSUME PathAssumption   == /\ NoPath \notin Paths
                           /\ PathOf \in [Threads -> Paths \union {NoPath}]
ASSUME BoundAssumption  == /\ MaxBuses \in Nat \ {0}
                           /\ MaxDepth \in Nat \ {0}

VARIABLES
  slot,    \* g_buses
  wait,    \* "run", or inside pthread_cond_wait: "sleep", then "woken"
  held     \* acquire calls of a thread that returned and are not yet released

vars == <<slot, wait, held>>

Slots == 0 .. MaxBuses - 1

\* Entries of the table that carry path p, and the lowest index of a set: both
\* loops of the code scan the table upwards and take the first match.
SlotsOf(p) == {i \in Slots : slot[i].path = p}
IsFirst(i, S) == i \in S /\ \A j \in S : i <= j

\* A path without a slot that can no longer get one runs uncoordinated.
Coordinated(p) == p # NoPath /\ SlotsOf(p) # {}

-----------------------------------------------------------------------------
(* bus_coord_init: an all-zero table. *)
Init ==
  /\ slot = [i \in Slots |-> [path |-> NoPath, depth |-> 0, owner |-> NoThread]]
  /\ wait = [t \in Threads |-> "run"]
  /\ held = [t \in Threads |-> 0]

MayEnter(t) == wait[t] = "run" /\ held[t] < MaxDepth

\* The call returned: thread t is at one more nesting level.
Enter(t) ==
  /\ held' = [held EXCEPT ![t] = @ + 1]
  /\ wait' = [wait EXCEPT ![t] = "run"]

\* Mutant of Contended: the depth test off by one.
ContendedOffByOne(e, t) == e.depth > 1 /\ e.owner # t

\* One pass of the while loop on entry i of table s: sleep while another thread
\* owns the slot, otherwise take it or nest.
Contended(e, t) == e.depth > 0 /\ e.owner # t
Taken(e, t) ==
  [path |-> e.path, depth |-> e.depth + 1, owner |-> IF e.depth = 0 THEN t ELSE e.owner]

TakeOrSleep(t, i, s) ==
  \/ /\ Contended(s[i], t)
     /\ slot' = s
     /\ wait' = [wait EXCEPT ![t] = "sleep"]
     /\ UNCHANGED held
  \/ /\ ~Contended(s[i], t)
     /\ slot' = [s EXCEPT ![i] = Taken(@, t)]
     /\ Enter(t)

\* bus_coord_acquire on a path that has a slot ...
AcquireFound(t) ==
  /\ MayEnter(t)
  /\ PathOf[t] # NoPath
  /\ \E i \in Slots : IsFirst(i, SlotsOf(PathOf[t])) /\ TakeOrSleep(t, i, slot)

\* ... on a new path p (the entry's owner is left as it was) ...
NewEntry(e, p) == [path |-> p, depth |-> 0, owner |-> e.owner]

\* Mutant of AcquireAlloc: a slot is allocated without looking for one first.
AcquireAllocAlways(t) ==
  /\ MayEnter(t)
  /\ PathOf[t] # NoPath
  /\ \E i \in Slots :
       /\ IsFirst(i, SlotsOf(NoPath))
       /\ TakeOrSleep(t, i, [slot EXCEPT ![i] = NewEntry(@, PathOf[t])])

\* ... for which alloc_slot_locked takes the first free entry ...
AcquireAlloc(t) ==
  /\ MayEnter(t)
  /\ PathOf[t] # NoPath
  /\ SlotsOf(PathOf[t]) = {}
  /\ \E i \in Slots :
       /\ IsFirst(i, SlotsOf(NoPath))
       /\ TakeOrSleep(t, i, [slot EXCEPT ![i] = NewEntry(@, PathOf[t])])

\* Mutant of AcquireNoop: the table counts as full with one entry left.
AcquireNoopEarly(t) ==
  /\ MayEnter(t)
  /\ PathOf[t] = NoPath \/ (SlotsOf(PathOf[t]) = {} /\ Cardinality(SlotsOf(NoPath)) <= 1)
  /\ Enter(t)
  /\ UNCHANGED slot

\* ... and where it is a no-op: an empty path, or a full table ("proceeding
\* without coordination").
AcquireNoop(t) ==
  /\ MayEnter(t)
  /\ PathOf[t] = NoPath \/ (SlotsOf(PathOf[t]) = {} /\ SlotsOf(NoPath) = {})
  /\ Enter(t)
  /\ UNCHANGED slot

\* pthread_cond_wait may return without a broadcast.
SpuriousWake(t) ==
  /\ wait[t] = "sleep"
  /\ wait' = [wait EXCEPT ![t] = "woken"]
  /\ UNCHANGED <<slot, held>>

\* A woken thread has g_lock again and tests the while condition anew.
Retry(t) ==
  /\ wait[t] = "woken"
  /\ \E i \in Slots : IsFirst(i, SlotsOf(PathOf[t])) /\ TakeOrSleep(t, i, slot)

\* pthread_cond_broadcast on the condition of path p.
Broadcast(p) ==
  [t \in Threads |-> IF wait[t] = "sleep" /\ PathOf[t] = p THEN "woken" ELSE wait[t]]

\* One nesting level less; the owner field stays as it is.
OneLess(e) == [path |-> e.path, depth |-> e.depth - 1, owner |-> e.owner]

\* Mutants of ReleaseOwned: no test of the depth, of the owner, no broadcast.
ReleaseFreed(t) ==
  /\ wait[t] = "run"
  /\ \E i \in Slots :
       /\ IsFirst(i, SlotsOf(PathOf[t])) /\ PathOf[t] # NoPath
       /\ slot[i].owner = t
       /\ slot' = [slot EXCEPT ![i] = OneLess(@)]
       /\ wait' = IF slot[i].depth = 1 THEN Broadcast(PathOf[t]) ELSE wait
  /\ held' = [held EXCEPT ![t] = IF @ = 0 THEN 0 ELSE @ - 1]

ReleaseByAnyone(t) ==
  /\ wait[t] = "run"
  /\ \E i \in Slots :
       /\ IsFirst(i, SlotsOf(PathOf[t])) /\ PathOf[t] # NoPath
       /\ slot[i].depth > 0
       /\ slot' = [slot EXCEPT ![i] = OneLess(@)]
       /\ wait' = IF slot[i].depth = 1 THEN Broadcast(PathOf[t]) ELSE wait
  /\ held' = [held EXCEPT ![t] = IF @ = 0 THEN 0 ELSE @ - 1]

ReleaseSilent(t) ==
  /\ wait[t] = "run"
  /\ \E i \in Slots :
       /\ IsFirst(i, SlotsOf(PathOf[t])) /\ PathOf[t] # NoPath
       /\ slot[i].depth > 0
       /\ slot[i].owner = t
       /\ slot' = [slot EXCEPT ![i] = OneLess(@)]
  /\ held' = [held EXCEPT ![t] = @ - 1]
  /\ UNCHANGED wait

\* bus_coord_release by the owner ...
ReleaseOwned(t) ==
  /\ wait[t] = "run"
  /\ PathOf[t] # NoPath
  /\ \E i \in Slots :
       /\ IsFirst(i, SlotsOf(PathOf[t]))
       /\ slot[i].depth > 0
       /\ slot[i].owner = t
       /\ slot' = [slot EXCEPT ![i] = OneLess(@)]
       /\ wait' = IF slot[i].depth = 1 THEN Broadcast(PathOf[t]) ELSE wait
  /\ held' = [held EXCEPT ![t] = @ - 1]

\* ... and by anyone else: an empty path, no slot, a slot nobody holds or one
\* another thread holds leaves the table alone.
ReleaseIgnored(t) ==
  /\ wait[t] = "run"
  /\ \/ PathOf[t] = NoPath
     \/ SlotsOf(PathOf[t]) = {}
     \/ \E i \in Slots : /\ IsFirst(i, SlotsOf(PathOf[t]))
                         /\ slot[i].depth = 0 \/ slot[i].owner # t
  /\ held' = [held EXCEPT ![t] = IF @ = 0 THEN 0 ELSE @ - 1]
  /\ UNCHANGED <<slot, wait>>

Acquire(t) == AcquireFound(t) \/ AcquireAlloc(t) \/ AcquireNoop(t)
Release(t) == ReleaseOwned(t) \/ ReleaseIgnored(t)

Next == \E t \in Threads :
          Acquire(t) \/ SpuriousWake(t) \/ Retry(t) \/ Release(t)

Spec == Init /\ [][Next]_vars

-----------------------------------------------------------------------------
Entry == [path : Paths \union {NoPath}, depth : Nat, owner : Threads \union {NoThread}]

\* The types of the table, of the wait states and of the nesting counts.
TypeOK ==
  /\ slot \in [Slots -> Entry]
  /\ wait \in [Threads -> {"run", "sleep", "woken"}]
  /\ held \in [Threads -> Nat]

\* bus_coord_acquire gives exclusive ownership: two threads on one coordinated
\* path are never both between an acquire that returned and its release.
MutualExclusion ==
  \A t, u \in Threads :
    (t # u /\ PathOf[t] = PathOf[u] /\ Coordinated(PathOf[t]))
      => (held[t] = 0 \/ held[u] = 0)

\* The depth a slot records is the number of levels its owner still has to
\* release, and nobody else on that path has any: nested acquires and releases,
\* and stray releases by other threads, never let the two drift apart.
DepthIsOwned ==
  \A i \in Slots : \A t \in Threads :
    (slot[i].path # NoPath /\ PathOf[t] = slot[i].path)
      => held[t] = IF slot[i].owner = t THEN slot[i].depth ELSE 0

\* A thread asleep in pthread_cond_wait has somebody left to wake it: a slot of
\* its path is held by another thread, whose last release will broadcast.
NoLostWakeup ==
  \A t \in Threads :
    wait[t] = "sleep"
      => \E i \in SlotsOf(PathOf[t]) : slot[i].depth > 0 /\ slot[i].owner # t

\* Two table entries never carry the same path, so both loops of a caller and of
\* its rivals find the same slot.
UniqueSlots ==
  \A i, j \in Slots : (slot[i].path = slot[j].path /\ slot[i].path # NoPath) => i = j

\* A thread that went on without coordination found a table that stays full: its
\* path gets no slot in the middle of its critical section.
NoLateCoordination ==
  \A t \in Threads :
    (held[t] > 0 /\ PathOf[t] # NoPath /\ SlotsOf(PathOf[t]) = {})
      => SlotsOf(NoPath) = {}

\* As long as the table has a slot for every configured path, the coordinator
\* implements one reentrant lock per path.
Mutex == INSTANCE BusMutex
ImplementsMutex == Mutex!Spec
EnoughSlots == IsFiniteSet(Paths) /\ Cardinality(Paths) <= MaxBuses
=============================================================================

--------------------------- MODULE BusCoordProofs ---------------------------
(***************************************************************************)
(* Proofs about bus_coord.c for any threads, paths, table size and nesting *)
(* bound: the inductive invariant, and from it mutual exclusion and the    *)
(* absence of lost wake-ups.                                               *)
(***************************************************************************)
EXTENDS BusCoord, FiniteSetTheorems, TLAPS

\* The inductive invariant: exclusion itself is not inductive, because it does
\* not say that the recorded depth and the callers' nesting agree; that needs
\* unique slots, and a new slot needs that nobody is inside its path already.
WaitersHavePath == \A t \in Threads : wait[t] # "run" => PathOf[t] # NoPath
IInv == /\ TypeOK /\ UniqueSlots /\ DepthIsOwned /\ NoLateCoordination /\ NoLostWakeup
        /\ WaitersHavePath

\* The coordinator starts, after bus_coord_init, with nothing allocated or held.
LEMMA InitIInv == Init => IInv
<1> SUFFICES ASSUME Init PROVE IInv
  OBVIOUS
<1> USE ThreadAssumption, PathAssumption, BoundAssumption DEF Init, Slots
<1>1. TypeOK
  BY DEF TypeOK, Entry
<1>2. UniqueSlots /\ DepthIsOwned /\ NoLostWakeup /\ WaitersHavePath
  BY DEF UniqueSlots, DepthIsOwned, NoLostWakeup, WaitersHavePath
<1>3. NoLateCoordination
  BY DEF NoLateCoordination
<1> QED
  BY <1>1, <1>2, <1>3 DEF IInv

\* One pass of the while loop in bus_coord_acquire, on the slot of the caller's
\* path, keeps the invariant whether it sleeps, takes the slot or nests.
LEMMA TakeOrSleepIInv ==
  ASSUME IInv, NEW t \in Threads, PathOf[t] # NoPath,
         NEW i \in Slots, IsFirst(i, SlotsOf(PathOf[t])), TakeOrSleep(t, i, slot)
  PROVE  IInv'
<1> USE PathAssumption DEF IInv
<1>0. slot[i].path = PathOf[t] /\ slot \in [Slots -> Entry] /\ slot[i] \in Entry
  BY DEF IsFirst, SlotsOf, TypeOK
<1>1. CASE Contended(slot[i], t) /\ slot' = slot /\ UNCHANGED held
           /\ wait' = [wait EXCEPT ![t] = "sleep"]
  <2>1. TypeOK'
    BY <1>1 DEF TypeOK
  <2>2. UniqueSlots' /\ DepthIsOwned' /\ NoLateCoordination' /\ WaitersHavePath'
    BY <1>1 DEF UniqueSlots, DepthIsOwned, NoLateCoordination, WaitersHavePath, SlotsOf, TypeOK
  <2>3. NoLostWakeup'
    BY <1>0, <1>1 DEF NoLostWakeup, SlotsOf, Contended, TypeOK
  <2> QED
    BY <2>1, <2>2, <2>3
<1>2. CASE /\ ~Contended(slot[i], t)
           /\ slot' = [slot EXCEPT ![i] = Taken(@, t)]
           /\ Enter(t)
  <2>0. /\ slot' = [slot EXCEPT ![i] = [path |-> slot[i].path,
                                        depth |-> slot[i].depth + 1,
                                        owner |-> t]]
        /\ held' = [held EXCEPT ![t] = @ + 1]
        /\ wait' = [wait EXCEPT ![t] = "run"]
    <3>1. (IF slot[i].depth = 0 THEN t ELSE slot[i].owner) = t
      BY <1>0, <1>2 DEF Contended, Entry
    <3> QED
      BY <1>2, <3>1 DEF Taken, Enter
  <2>1. TypeOK'
    BY <1>0, <2>0 DEF TypeOK, Entry
  <2>2. /\ \A j \in Slots : slot'[j].path = slot[j].path
        /\ \A j \in Slots : j # i => slot'[j] = slot[j]
        /\ slot'[i].depth = slot[i].depth + 1
        /\ slot'[i].owner = t
    BY <1>0, <2>0
  <2>3. UniqueSlots' /\ WaitersHavePath'
    BY <2>0, <2>2 DEF UniqueSlots, WaitersHavePath, TypeOK
  <2>4. DepthIsOwned'
    <3> SUFFICES ASSUME NEW j \in Slots, NEW u \in Threads,
                        slot[j].path # NoPath, PathOf[u] = slot[j].path
                 PROVE  held'[u] = IF slot'[j].owner = u THEN slot'[j].depth ELSE 0
      BY <2>2 DEF DepthIsOwned
    <3>1. held[u] = IF slot[j].owner = u THEN slot[j].depth ELSE 0
      BY DEF DepthIsOwned
    <3>2. CASE j = i
      BY <1>0, <1>2, <2>0, <2>2, <3>1, <3>2 DEF Contended, TypeOK, Entry, DepthIsOwned
    <3>3. CASE j # i
      <4>1. u # t
        BY <1>0, <3>3 DEF UniqueSlots
      <4> QED
        BY <2>0, <2>2, <3>1, <3>3, <4>1 DEF TypeOK
    <3> QED
      BY <3>2, <3>3
  <2>5. NoLateCoordination'
    BY <1>0, <2>0, <2>2 DEF NoLateCoordination, SlotsOf, TypeOK
  <2>6. NoLostWakeup'
    <3> SUFFICES ASSUME NEW u \in Threads, wait'[u] = "sleep"
                 PROVE  \E j \in SlotsOf(PathOf[u])' : slot'[j].depth > 0 /\ slot'[j].owner # u
      BY DEF NoLostWakeup
    <3>1. u # t /\ wait[u] = "sleep"
      BY <2>0 DEF TypeOK
    <3>2. PICK j \in SlotsOf(PathOf[u]) : slot[j].depth > 0 /\ slot[j].owner # u
      BY <3>1 DEF NoLostWakeup
    <3> QED
      BY <1>0, <2>2, <3>1, <3>2 DEF SlotsOf, Entry, TypeOK
  <2> QED
    BY <2>1, <2>3, <2>4, <2>5, <2>6
<1> QED
  BY <1>1, <1>2 DEF TakeOrSleep

\* The first acquire on a path allocates its slot: the entry it takes was free,
\* and nobody is inside that path, since a free entry was left.
LEMMA AllocIInv ==
  ASSUME IInv, NEW t \in Threads, AcquireAlloc(t)
  PROVE  IInv'
<1> USE PathAssumption DEF IInv
<1>1. PICK i \in Slots : /\ IsFirst(i, SlotsOf(NoPath))
                         /\ TakeOrSleep(t, i, [slot EXCEPT ![i] = NewEntry(@, PathOf[t])])
  BY DEF AcquireAlloc
<1>2. /\ PathOf[t] \in Paths /\ SlotsOf(PathOf[t]) = {}
      /\ slot[i].path = NoPath /\ slot[i] \in Entry
  BY <1>1 DEF AcquireAlloc, IsFirst, SlotsOf, TypeOK
<1>3. /\ slot' = [slot EXCEPT ![i] = [path |-> PathOf[t], depth |-> 1, owner |-> t]]
      /\ held' = [held EXCEPT ![t] = @ + 1]
      /\ wait' = [wait EXCEPT ![t] = "run"]
  <2> DEFINE s == [slot EXCEPT ![i] = NewEntry(@, PathOf[t])]
  <2>1. s[i] = [path |-> PathOf[t], depth |-> 0, owner |-> slot[i].owner]
    BY DEF NewEntry, TypeOK
  <2>2. ~Contended(s[i], t)
    BY <2>1 DEF Contended
  <2>3. Taken(s[i], t) = [path |-> PathOf[t], depth |-> 1, owner |-> t]
    BY <2>1 DEF Taken
  <2>4. slot' = [s EXCEPT ![i] = Taken(s[i], t)] /\ Enter(t)
    BY <1>1, <2>2 DEF TakeOrSleep
  <2> QED
    BY <2>3, <2>4 DEF Enter, TypeOK
<1>4. /\ \A j \in Slots : j # i => slot'[j] = slot[j]
      /\ slot'[i].path = PathOf[t] /\ slot'[i].depth = 1 /\ slot'[i].owner = t
  BY <1>3 DEF TypeOK
<1>5. \A u \in Threads : PathOf[u] = PathOf[t] => held[u] = 0
  BY <1>2 DEF NoLateCoordination, SlotsOf, TypeOK
<1>6. TypeOK'
  BY <1>2, <1>3 DEF TypeOK, Entry
<1>7. UniqueSlots' /\ WaitersHavePath'
  BY <1>2, <1>3, <1>4 DEF UniqueSlots, WaitersHavePath, SlotsOf, TypeOK
<1>8. DepthIsOwned'
  BY <1>2, <1>3, <1>4, <1>5 DEF DepthIsOwned, SlotsOf, TypeOK
<1>9. NoLateCoordination'
  BY <1>2, <1>3, <1>4 DEF NoLateCoordination, SlotsOf, TypeOK
<1>10. NoLostWakeup'
  <2> SUFFICES ASSUME NEW u \in Threads, wait'[u] = "sleep"
               PROVE  \E j \in SlotsOf(PathOf[u])' : slot'[j].depth > 0 /\ slot'[j].owner # u
    BY DEF NoLostWakeup
  <2>1. wait[u] = "sleep"
    BY <1>3 DEF TypeOK
  <2>2. PICK j \in SlotsOf(PathOf[u]) : slot[j].depth > 0 /\ slot[j].owner # u
    BY <2>1 DEF NoLostWakeup
  <2>3. CASE j # i
    BY <1>4, <2>2, <2>3 DEF SlotsOf
  <2>4. CASE j = i
    BY <1>2, <2>1, <2>2, <2>4 DEF SlotsOf, WaitersHavePath
  <2> QED
    BY <2>3, <2>4
<1> QED
  BY <1>6, <1>7, <1>8, <1>9, <1>10

\* bus_coord_release by the owner gives back one level, and broadcasts when it
\* was the last: no sleeper is left behind on an idle slot.
LEMMA ReleaseOwnedIInv ==
  ASSUME IInv, NEW t \in Threads, ReleaseOwned(t)
  PROVE  IInv'
<1> USE PathAssumption DEF IInv
<1>1. PICK i \in Slots :
        /\ IsFirst(i, SlotsOf(PathOf[t]))
        /\ slot[i].depth > 0
        /\ slot[i].owner = t
        /\ slot' = [slot EXCEPT ![i] = OneLess(@)]
        /\ wait' = IF slot[i].depth = 1 THEN Broadcast(PathOf[t]) ELSE wait
  BY DEF ReleaseOwned
<1>2. /\ held' = [held EXCEPT ![t] = @ - 1]
      /\ PathOf[t] # NoPath /\ slot[i].path = PathOf[t] /\ slot[i] \in Entry
      /\ held[t] = slot[i].depth
  BY <1>1 DEF ReleaseOwned, IsFirst, SlotsOf, TypeOK, DepthIsOwned
<1>3. /\ slot' = [slot EXCEPT ![i] = [path |-> slot[i].path,
                                      depth |-> slot[i].depth - 1,
                                      owner |-> t]]
  BY <1>1 DEF OneLess
<1>4. /\ \A j \in Slots : j # i => slot'[j] = slot[j]
      /\ slot'[i].path = slot[i].path
      /\ slot'[i].depth = slot[i].depth - 1 /\ slot'[i].owner = t
  BY <1>3 DEF TypeOK
<1>5. TypeOK'
  BY <1>1, <1>2, <1>3 DEF TypeOK, Entry, Broadcast
<1>6. UniqueSlots' /\ NoLateCoordination' /\ WaitersHavePath'
  <2>1. WaitersHavePath'
    BY <1>1 DEF WaitersHavePath, Broadcast, TypeOK
  <2> QED
    BY <1>2, <1>4, <2>1 DEF UniqueSlots, NoLateCoordination, SlotsOf, TypeOK
<1>7. DepthIsOwned'
  BY <1>1, <1>2, <1>4 DEF DepthIsOwned, UniqueSlots, TypeOK, Entry
<1>8. NoLostWakeup'
  <2> SUFFICES ASSUME NEW u \in Threads, wait'[u] = "sleep"
               PROVE  \E j \in SlotsOf(PathOf[u])' : slot'[j].depth > 0 /\ slot'[j].owner # u
    BY DEF NoLostWakeup
  <2>1. wait[u] = "sleep" /\ (slot[i].depth = 1 => PathOf[u] # PathOf[t])
    BY <1>1 DEF Broadcast, TypeOK
  <2>2. PICK j \in SlotsOf(PathOf[u]) : slot[j].depth > 0 /\ slot[j].owner # u
    BY <2>1 DEF NoLostWakeup
  <2>3. CASE j # i
    BY <1>4, <2>2, <2>3 DEF SlotsOf
  <2>4. CASE j = i
    <3>1. PathOf[u] = PathOf[t] /\ slot[i].depth # 1
      BY <1>2, <2>1, <2>2, <2>4 DEF SlotsOf
    <3> QED
      BY <1>1, <1>2, <1>4, <2>2, <2>4, <3>1 DEF SlotsOf, Entry
  <2> QED
    BY <2>3, <2>4
<1> QED
  BY <1>5, <1>6, <1>7, <1>8

\* A release the coordinator ignores leaves a caller on a coordinated path with
\* nothing held, which it had before.
LEMMA ReleaseIgnoredIInv ==
  ASSUME IInv, NEW t \in Threads, ReleaseIgnored(t)
  PROVE  IInv'
<1> USE PathAssumption DEF IInv
<1>1. /\ held' = [held EXCEPT ![t] = IF @ = 0 THEN 0 ELSE @ - 1]
      /\ slot' = slot /\ wait' = wait
  BY DEF ReleaseIgnored
<1>2. TypeOK' /\ UniqueSlots' /\ NoLostWakeup' /\ WaitersHavePath'
  BY <1>1 DEF TypeOK, UniqueSlots, NoLostWakeup, WaitersHavePath, SlotsOf
<1>3. NoLateCoordination'
  BY <1>1 DEF NoLateCoordination, SlotsOf, TypeOK
<1>4. DepthIsOwned'
  <2> SUFFICES ASSUME NEW j \in Slots, NEW u \in Threads,
                      slot[j].path # NoPath, PathOf[u] = slot[j].path
               PROVE  held'[u] = IF slot[j].owner = u THEN slot[j].depth ELSE 0
    BY <1>1 DEF DepthIsOwned
  <2>1. held[u] = IF slot[j].owner = u THEN slot[j].depth ELSE 0
    BY DEF DepthIsOwned
  <2>2. CASE u = t
    <3>1. PICK i \in Slots : /\ IsFirst(i, SlotsOf(PathOf[t]))
                             /\ slot[i].depth = 0 \/ slot[i].owner # t
      BY <2>2 DEF ReleaseIgnored, SlotsOf
    <3>2. i = j
      BY <2>2, <3>1 DEF IsFirst, SlotsOf, UniqueSlots
    <3> QED
      BY <1>1, <2>1, <2>2, <3>1, <3>2 DEF TypeOK
  <2>3. CASE u # t
    BY <1>1, <2>1, <2>3 DEF TypeOK
  <2> QED
    BY <2>2, <2>3
<1> QED
  BY <1>2, <1>3, <1>4

\* Every step of every thread keeps the invariant.
LEMMA NextIInv == IInv /\ [Next]_vars => IInv'
<1> SUFFICES ASSUME IInv, [Next]_vars PROVE IInv'
  OBVIOUS
<1>1. CASE UNCHANGED vars
  BY <1>1 DEF IInv, TypeOK, UniqueSlots, DepthIsOwned, NoLateCoordination,
              NoLostWakeup, WaitersHavePath, SlotsOf, vars
<1>2. ASSUME NEW t \in Threads, AcquireFound(t) PROVE IInv'
  BY <1>2, TakeOrSleepIInv DEF AcquireFound
<1>3. ASSUME NEW t \in Threads, AcquireAlloc(t) PROVE IInv'
  BY <1>3, AllocIInv
<1>4. ASSUME NEW t \in Threads, AcquireNoop(t) PROVE IInv'
  <2>1. /\ slot' = slot /\ held' = [held EXCEPT ![t] = @ + 1]
        /\ wait[t] = "run" /\ wait' = wait
        /\ PathOf[t] = NoPath \/ (SlotsOf(PathOf[t]) = {} /\ SlotsOf(NoPath) = {})
    BY <1>4 DEF AcquireNoop, MayEnter, Enter, IInv, TypeOK
  <2>2. TypeOK' /\ UniqueSlots' /\ NoLostWakeup' /\ WaitersHavePath'
    BY <2>1 DEF IInv, TypeOK, UniqueSlots, NoLostWakeup, WaitersHavePath, SlotsOf
  <2>3. DepthIsOwned' /\ NoLateCoordination'
    BY <2>1 DEF IInv, TypeOK, DepthIsOwned, NoLateCoordination, SlotsOf
  <2> QED
    BY <2>2, <2>3 DEF IInv
<1>5. ASSUME NEW t \in Threads, SpuriousWake(t) PROVE IInv'
  BY <1>5 DEF SpuriousWake, IInv, TypeOK, UniqueSlots, DepthIsOwned,
              NoLateCoordination, NoLostWakeup, WaitersHavePath, SlotsOf
<1>6. ASSUME NEW t \in Threads, Retry(t) PROVE IInv'
  <2>1. PathOf[t] # NoPath
    BY <1>6 DEF Retry, IInv, WaitersHavePath
  <2> QED
    BY <1>6, <2>1, TakeOrSleepIInv DEF Retry
<1>7. ASSUME NEW t \in Threads, ReleaseOwned(t) PROVE IInv'
  BY <1>7, ReleaseOwnedIInv
<1>8. ASSUME NEW t \in Threads, ReleaseIgnored(t) PROVE IInv'
  BY <1>8, ReleaseIgnoredIInv
<1> QED
  BY <1>1, <1>2, <1>3, <1>4, <1>5, <1>6, <1>7, <1>8 DEF Next, Acquire, Release

\* The invariant holds in every state of the coordinator, for any number of
\* threads, paths and slots.
THEOREM Invariance == Spec => []IInv
<1> QED
  BY InitIInv, NextIInv, PTL DEF Spec

\* bus_coord_acquire is exclusive: on a path that has a slot, at most one thread
\* is between a returned acquire and its release.
THEOREM Exclusion == Spec => []MutualExclusion
<1>1. IInv => MutualExclusion
  BY PathAssumption DEF IInv, TypeOK, Entry, DepthIsOwned, MutualExclusion, Coordinated, SlotsOf
<1> QED
  BY <1>1, Invariance, PTL

\* The recorded depth is what the owner still has to release.
THEOREM OwnedDepth == Spec => []DepthIsOwned
<1>1. IInv => DepthIsOwned
  BY DEF IInv
<1> QED
  BY <1>1, Invariance, PTL

\* No thread sleeps in pthread_cond_wait on a slot nobody holds.
THEOREM Wakeups == Spec => []NoLostWakeup
<1>1. IInv => NoLostWakeup
  BY DEF IInv
<1> QED
  BY <1>1, Invariance, PTL

\* get_or_alloc_slot_locked never gives a path a second slot, so all users of a
\* path meet at the same owner and depth.
THEOREM OneSlotPerPath == Spec => []UniqueSlots
<1>1. IInv => UniqueSlots
  BY DEF IInv
<1> QED
  BY <1>1, Invariance, PTL

\* A path is not given a slot while a thread that found the table full is inside
\* it: that thread would be neither owner nor waiter of the new slot.
THEOREM NoSlotWhileInside == Spec => []NoLateCoordination
<1>1. IInv => NoLateCoordination
  BY DEF IInv
<1> QED
  BY <1>1, Invariance, PTL

\* The state of the coordinator keeps its type.
THEOREM Typing == Spec => []TypeOK
<1>1. IInv => TypeOK
  BY DEF IInv
<1> QED
  BY <1>1, Invariance, PTL

-----------------------------------------------------------------------------
\* With a slot for every path, a path that has none finds a free entry: full
\* slots carry distinct paths, and there are not enough other paths.
LEMMA SlotForEveryPath ==
  ASSUME EnoughSlots, IInv, NEW p \in Paths, SlotsOf(p) = {}
  PROVE  SlotsOf(NoPath) # {}
<1> SUFFICES ASSUME SlotsOf(NoPath) = {} PROVE FALSE
  OBVIOUS
<1> DEFINE T == Paths \ {p}
           f == [i \in Slots |-> slot[i].path]
<1>1. f \in [Slots -> T]
  BY DEF IInv, TypeOK, Entry, SlotsOf
<1>2. IsFiniteSet(Slots) /\ Cardinality(Slots) = MaxBuses
  BY FS_Interval, BoundAssumption DEF Slots
<1>3. IsFiniteSet(T) /\ Cardinality(T) = Cardinality(Paths) - 1
  BY FS_RemoveElement DEF EnoughSlots
<1>4. Cardinality(T) < Cardinality(Slots)
  BY <1>2, <1>3, FS_CardinalityType, BoundAssumption DEF EnoughSlots
<1> HIDE DEF T, f
<1>5. \E i, j \in Slots : i # j /\ f[i] = f[j]
  BY <1>1, <1>2, <1>3, <1>4, FS_PigeonHole
<1> QED
  BY <1>1, <1>5, PathAssumption DEF IInv, UniqueSlots, T, f

\* A thread that takes the slot of its path finds no rival inside.
LEMMA TakeImplementsEnter ==
  ASSUME IInv, NEW t \in Threads, NEW i \in Slots, IsFirst(i, SlotsOf(PathOf[t])),
         TakeOrSleep(t, i, slot)
  PROVE  Mutex!Enter(t) \/ UNCHANGED held
<1>1. CASE Contended(slot[i], t)
  BY <1>1 DEF TakeOrSleep
<1>2. CASE ~Contended(slot[i], t)
  <2>1. slot[i].path = PathOf[t] /\ slot[i] \in Entry
    BY DEF IsFirst, SlotsOf, IInv, TypeOK
  <2>2. \A u \in Mutex!Rivals(t) : held[u] = 0
    BY <1>2, <2>1 DEF Mutex!Rivals, Contended, IInv, DepthIsOwned, Entry
  <2> QED
    BY <1>2, <2>2 DEF TakeOrSleep, Enter, Mutex!Enter
<1> QED
  BY <1>1, <1>2

\* Every step of the coordinator is a step of the per-path lock, or none.
LEMMA StepImplementsMutex ==
  ASSUME EnoughSlots, IInv, [Next]_vars
  PROVE  [Mutex!Next]_held
<1>1. CASE UNCHANGED vars
  BY <1>1 DEF vars
<1>2. ASSUME NEW t \in Threads, AcquireFound(t) PROVE Mutex!Enter(t) \/ UNCHANGED held
  BY <1>2, TakeImplementsEnter DEF AcquireFound
<1>3. ASSUME NEW t \in Threads, AcquireAlloc(t) PROVE Mutex!Enter(t) \/ UNCHANGED held
  <2>1. PICK i \in Slots :
          TakeOrSleep(t, i, [slot EXCEPT ![i] = NewEntry(@, PathOf[t])])
    BY <1>3 DEF AcquireAlloc
  <2>2. held' = [held EXCEPT ![t] = @ + 1] \/ UNCHANGED held
    BY <2>1 DEF TakeOrSleep, Enter
  <2>3. SlotsOf(PathOf[t]) = {} /\ SlotsOf(NoPath) # {}
    BY <1>3 DEF AcquireAlloc, IsFirst
  <2>4. \A u \in Mutex!Rivals(t) : held[u] = 0
    BY <2>3 DEF Mutex!Rivals, IInv, NoLateCoordination, TypeOK
  <2> QED
    BY <2>2, <2>4 DEF Mutex!Enter
<1>4. ASSUME NEW t \in Threads, AcquireNoop(t) PROVE Mutex!Enter(t)
  <2>1. PathOf[t] = NoPath
    BY <1>4, SlotForEveryPath, PathAssumption DEF AcquireNoop
  <2> QED
    BY <1>4, <2>1 DEF AcquireNoop, Enter, Mutex!Enter, Mutex!Rivals
<1>5. ASSUME NEW t \in Threads, SpuriousWake(t) PROVE UNCHANGED held
  BY <1>5 DEF SpuriousWake
<1>6. ASSUME NEW t \in Threads, Retry(t) PROVE Mutex!Enter(t) \/ UNCHANGED held
  BY <1>6, TakeImplementsEnter DEF Retry
<1>7. ASSUME NEW t \in Threads, ReleaseOwned(t) PROVE Mutex!Leave(t)
  <2>1. PICK i \in Slots : /\ IsFirst(i, SlotsOf(PathOf[t]))
                           /\ slot[i].depth > 0
                           /\ slot[i].owner = t
    BY <1>7 DEF ReleaseOwned
  <2>2. held[t] > 0 /\ held' = [held EXCEPT ![t] = @ - 1]
    BY <1>7, <2>1 DEF ReleaseOwned, IsFirst, SlotsOf, IInv, DepthIsOwned
  <2> QED
    BY <2>2 DEF Mutex!Leave
<1>8. ASSUME NEW t \in Threads, ReleaseIgnored(t) PROVE Mutex!Leave(t) \/ UNCHANGED held
  <2>1. held \in [Threads -> Nat] /\ held' = [held EXCEPT ![t] = IF @ = 0 THEN 0 ELSE @ - 1]
    BY <1>8 DEF ReleaseIgnored, IInv, TypeOK
  <2>2. CASE held[t] = 0
    BY <2>1, <2>2
  <2>3. CASE held[t] # 0
    BY <2>1, <2>3 DEF Mutex!Leave
  <2> QED
    BY <2>2, <2>3
<1> QED
  BY <1>1, <1>2, <1>3, <1>4, <1>5, <1>6, <1>7, <1>8
     DEF Next, Acquire, Release, Mutex!Next

\* With at most MaxBuses paths, the condition-variable protocol of bus_coord.c
\* implements one reentrant lock per path.
THEOREM Refinement ==
  ASSUME EnoughSlots
  PROVE  Spec => ImplementsMutex
<1>1. Init => Mutex!Init
  BY DEF Init, Mutex!Init
<1>2. IInv /\ [Next]_vars => [Mutex!Next]_held
  BY StepImplementsMutex
<1> QED
  BY <1>1, <1>2, Invariance, PTL DEF Spec, ImplementsMutex, Mutex!Spec
=============================================================================

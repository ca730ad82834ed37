---------------------------- MODULE ModbusProofs -----------------------------
(* Proofs about the two Modbus clients: the serial ports that RTU units      *)
(* share (RtuPort), then requests and answers on one link of either format   *)
(* (ModbusLink).                                                             *)
EXTENDS RtuPort, ModbusLink, FiniteSetTheorems, SequenceTheorems, TLAPS

-----------------------------------------------------------------------------
(* The shared ports, for any units, paths, baud rates and registry size.     *)

\* acquire_shared_bus gives a path one record.
OneRecordPerPath ==
  \A i, j \in Records : bus[i].path # NoPath /\ bus[i].path = bus[j].path => i = j

\* What the place of a unit's thread says about its context: between a connect
\* that found its record and the disconnect, the context refers to the record of
\* its own path and has a live mutex; it has a descriptor exactly while attached.
ContextFollowsThread ==
  \A u \in Units :
    /\ pc[u] \in {"attach", "up", "hush", "wire", "drop"} =>
         /\ ctx[u].bus \in Records
         /\ bus[ctx[u].bus].path = PathOf[u]
         /\ ctx[u].lock = "live"
    /\ ctx[u].fd # Closed <=> pc[u] \in {"up", "hush", "wire", "drop"}

\* A record's mutex is kept by the unit that waits for the silence or whose
\* transaction is on the wire, and by nobody else.
InTransaction(u) == pc[u] \in {"hush", "wire"}
BusyIsOnWire ==
  /\ \A u \in Units : InTransaction(u) => busy[ctx[u].bus] = u
  /\ \A i \in Records : busy[i] # NoUnit => InTransaction(busy[i]) /\ ctx[busy[i]].bus = i

\* The unit that transacted last since the port was opened is the one the record
\* remembers, and its path is shared.
RecentIsLast ==
  \A p \in Paths :
    recent[p] # NoUnit =>
      /\ PathOf[recent[p]] = p /\ Rivals(recent[p]) # {}
      /\ \E i \in Records : bus[i].path = p /\ bus[i].fd # Closed /\ bus[i].last = recent[p]

\* The inductive invariant.  RefcountExact and NoStaleDescriptor need each other:
\* the count says the port a context uses is not closed under it, and that the
\* contexts counted are those of the record's own path is what the count is of.
\* Both need to know which contexts a thread may still use.
IInv ==
  /\ PortTypes /\ OneRecordPerPath /\ ContextFollowsThread /\ NoStaleDescriptor
  /\ RefcountExact /\ BusyIsOnWire /\ RecentIsLast /\ ReconnectsOnSoundLock

\* Two units never have a transaction on one path at the same time: do_transaction
\* keeps the mutex of the path's one record from the request to the result.
OneTransactionPerPath ==
  \A u, v \in Units :
    pc[u] = "wire" /\ pc[v] = "wire" /\ PathOf[u] = PathOf[v] => u = v

-----------------------------------------------------------------------------
\* The contexts attached to a record are finitely many.
LEMMA AttachedFinite ==
  ASSUME NEW i
  PROVE  IsFiniteSet(Attached(i)) /\ Cardinality(Attached(i)) \in Nat
<1>1. Attached(i) \subseteq Units
  BY DEF Attached
<1> QED
  BY <1>1, PortAssumption, FS_Subset, FS_CardinalityType

\* A context that gets a descriptor joins the ones attached to its record.
LEMMA AttachAdds ==
  ASSUME PortTypes, NEW u \in Units, NEW i \in Records, NEW f \in Fds, NEW l,
         ctx[u].fd = Closed,
         ctx' = [ctx EXCEPT ![u] = [bus |-> i, fd |-> f, lock |-> l]]
  PROVE  /\ Cardinality(Attached(i))' = Cardinality(Attached(i)) + 1
         /\ \A j \in Records \ {i} : Attached(j)' = Attached(j)
<1>1. Attached(i)' = Attached(i) \union {u} /\ u \notin Attached(i)
  BY DEF PortTypes, Attached, Fds, Closed
<1>2. \A j \in Records \ {i} : Attached(j)' = Attached(j)
  BY DEF PortTypes, Attached, Fds, Closed
<1> QED
  BY <1>1, <1>2, AttachedFinite, FS_AddElement

\* A context that gives its descriptor up leaves them.
LEMMA DetachRemoves ==
  ASSUME PortTypes, NEW u \in Units, NEW i \in Records, NEW l, ctx[u].fd # Closed, ctx[u].bus = i,
         ctx' = [ctx EXCEPT ![u] = [bus |-> i, fd |-> Closed, lock |-> l]]
  PROVE  /\ Cardinality(Attached(i))' = Cardinality(Attached(i)) - 1
         /\ Cardinality(Attached(i)) > 0
         /\ \A j \in Records \ {i} : Attached(j)' = Attached(j)
<1>1. Attached(i)' = Attached(i) \ {u} /\ u \in Attached(i)
  BY DEF PortTypes, Attached
<1>2. \A j \in Records \ {i} : Attached(j)' = Attached(j)
  BY DEF PortTypes, Attached
<1>3. Cardinality(Attached(i)) \in Nat \ {0}
  BY <1>1, AttachedFinite, FS_EmptySet
<1>4. Cardinality(Attached(i))' = Cardinality(Attached(i)) - 1
  BY <1>1, AttachedFinite, FS_RemoveElement
<1> QED
  BY <1>2, <1>3, <1>4

\* A context that has no descriptor before or after a step changes no record's
\* users.
LEMMA QuietKeeps ==
  ASSUME PortTypes, NEW u \in Units, NEW c, ctx[u].fd = Closed, c.fd = Closed,
         ctx' = [ctx EXCEPT ![u] = c]
  PROVE  \A j \in Records : Attached(j)' = Attached(j)
  BY DEF PortTypes, Attached

\* An unused record is closed and has no users.
LEMMA UnusedIsClosed ==
  ASSUME IInv, NEW i \in Records, bus[i].path = NoPath
  PROVE  bus[i].fd = Closed /\ bus[i].refcnt = 0 /\ Attached(i) = {}
<1>1. Attached(i) = {}
  BY PortAssumption DEF IInv, NoStaleDescriptor, Attached
<1> QED
  BY <1>1, FS_EmptySet DEF IInv, RefcountExact

-----------------------------------------------------------------------------
\* start_inverter_modules and start_ups_modules leave every context zeroed and
\* no record in use.
LEMMA InitIInv == Init => IInv
<1> SUFFICES ASSUME Init PROVE IInv
  OBVIOUS
<1> USE PortAssumption DEF Init, Closed
<1>1. PortTypes
  BY DEF PortTypes
<1>2. OneRecordPerPath /\ ContextFollowsThread /\ NoStaleDescriptor /\ ReconnectsOnSoundLock
  BY DEF OneRecordPerPath, ContextFollowsThread, NoStaleDescriptor, ReconnectsOnSoundLock
<1>3. BusyIsOnWire /\ RecentIsLast
  BY DEF BusyIsOnWire, InTransaction, RecentIsLast
<1>4. \A i \in Records : Attached(i) = {}
  BY DEF Attached
<1>5. RefcountExact
  <2>1. \A i \in Records : bus[i].refcnt = 0 /\ bus[i].fd = Closed
    OBVIOUS
  <2>2. \A i \in Records : Cardinality(Attached(i)) = 0
    BY <1>4, FS_EmptySet, Zenon
  <2> HIDE DEF Init
  <2> QED
    BY <2>1, <2>2 DEF RefcountExact
<1> QED
  BY <1>1, <1>2, <1>3, <1>5 DEF IInv

\* acquire_shared_bus finds the path's record.
LEMMA ConnectFoundIInv ==
  ASSUME IInv, NEW u \in Units, ConnectFound(u)
  PROVE  IInv'
<1> USE PortAssumption DEF IInv
<1>1. PICK i \in Records :
        /\ bus[i].path = PathOf[u]
        /\ ctx' = [ctx EXCEPT ![u] = [bus |-> i, fd |-> Closed, lock |-> "live"]]
  BY DEF ConnectFound, IsFirst, RecordsOf
<1>2. /\ pc[u] = "idle" /\ pc' = [pc EXCEPT ![u] = "attach"]
      /\ bus' = bus /\ busy' = busy /\ recent' = recent
      /\ ctx[u].fd = Closed
  BY DEF ConnectFound, Goto, ContextFollowsThread
<1>3. PortTypes'
  BY <1>1, <1>2 DEF PortTypes
<1>4. OneRecordPerPath' /\ RecentIsLast'
  BY <1>2 DEF OneRecordPerPath, RecentIsLast, Rivals
<1>5. ContextFollowsThread' /\ NoStaleDescriptor' /\ ReconnectsOnSoundLock'
  BY <1>1, <1>2 DEF PortTypes, ContextFollowsThread, NoStaleDescriptor, ReconnectsOnSoundLock
<1>6. BusyIsOnWire'
  BY <1>1, <1>2 DEF PortTypes, BusyIsOnWire, InTransaction
<1>7. RefcountExact'
  BY <1>1, <1>2, QuietKeeps DEF RefcountExact
<1> QED
  BY <1>3, <1>4, <1>5, <1>6, <1>7

\* acquire_shared_bus takes the first unused record for a new path.
LEMMA ConnectNewRecordIInv ==
  ASSUME IInv, NEW u \in Units, ConnectNewRecord(u)
  PROVE  IInv'
<1> USE PortAssumption DEF IInv
<1>1. PICK i \in Records :
        /\ bus[i].path = NoPath
        /\ bus' = [bus EXCEPT ![i] = [path |-> PathOf[u], fd |-> Closed, refcnt |-> 0,
                                      baud |-> 0, last |-> NoUnit]]
        /\ ctx' = [ctx EXCEPT ![u] = [bus |-> i, fd |-> Closed, lock |-> "live"]]
  BY DEF ConnectNewRecord, IsFirst, RecordsOf
<1>2. /\ pc[u] = "idle" /\ pc' = [pc EXCEPT ![u] = "attach"]
      /\ busy' = busy /\ recent' = recent
      /\ ctx[u].fd = Closed
      /\ \A j \in Records : bus[j].path # PathOf[u]
  BY DEF ConnectNewRecord, Goto, ContextFollowsThread, RecordsOf
<1>3. bus[i].fd = Closed /\ bus[i].refcnt = 0 /\ Attached(i) = {}
  BY <1>1, UnusedIsClosed
<1>4. PortTypes'
  BY <1>1, <1>2 DEF PortTypes, Closed
<1>5. /\ \A j \in Records : j # i => bus'[j] = bus[j]
      /\ bus'[i] = [path |-> PathOf[u], fd |-> Closed, refcnt |-> 0,
                    baud |-> 0, last |-> NoUnit]
  BY <1>1 DEF PortTypes
<1>6. OneRecordPerPath'
  BY <1>2, <1>5 DEF OneRecordPerPath
<1>7. RecentIsLast'
  BY <1>1, <1>2, <1>5 DEF RecentIsLast, Rivals, PortTypes
<1>8. ContextFollowsThread'
  BY <1>1, <1>2, <1>5 DEF PortTypes, ContextFollowsThread
<1>9. NoStaleDescriptor' /\ ReconnectsOnSoundLock'
  BY <1>1, <1>2, <1>5 DEF PortTypes, NoStaleDescriptor, ReconnectsOnSoundLock
<1>10. BusyIsOnWire'
  BY <1>1, <1>2 DEF PortTypes, BusyIsOnWire, InTransaction
<1>11. RefcountExact'
  <2>1. \A j \in Records : Attached(j)' = Attached(j)
    BY <1>1, <1>2, QuietKeeps
  <2> QED
    BY <1>3, <1>5, <2>1, FS_EmptySet DEF RefcountExact
<1> QED
  BY <1>4, <1>6, <1>7, <1>8, <1>9, <1>10, <1>11

\* A connect that fails, on a full registry or on the port, leaves a context that
\* uses no record.
LEMMA FailedConnectIInv ==
  ASSUME IInv, NEW u \in Units, ConnectRegistryFull(u) \/ AttachFails(u)
  PROVE  IInv'
<1> USE PortAssumption DEF IInv
<1>1. /\ pc[u] \in {"idle", "attach"} /\ pc' = [pc EXCEPT ![u] = "idle"]
      /\ bus' = bus /\ busy' = busy /\ recent' = recent
      /\ ctx[u].fd = Closed
      /\ ctx' = [ctx EXCEPT ![u] = [bus |-> 0, fd |-> Closed, lock |-> "destroyed"]]
  BY DEF ConnectRegistryFull, AttachFails, NotConnected, Goto, ContextFollowsThread, PortTypes
<1>2. PortTypes'
  BY <1>1 DEF PortTypes, Closed
<1>3. OneRecordPerPath' /\ RecentIsLast'
  BY <1>1 DEF OneRecordPerPath, RecentIsLast, Rivals
<1>4. ContextFollowsThread' /\ NoStaleDescriptor' /\ ReconnectsOnSoundLock'
  BY <1>1 DEF PortTypes, ContextFollowsThread, NoStaleDescriptor, ReconnectsOnSoundLock
<1>5. BusyIsOnWire'
  BY <1>1 DEF PortTypes, BusyIsOnWire, InTransaction
<1>6. RefcountExact'
  BY <1>1, QuietKeeps DEF RefcountExact
<1> QED
  BY <1>2, <1>3, <1>4, <1>5, <1>6

\* shared_bus_attach_port opens the port for the first context ...
LEMMA OpenIInv ==
  ASSUME IInv, NEW u \in Units, Open(u)
  PROVE  IInv'
<1> USE PortAssumption DEF IInv
<1>0. pc[u] = "attach"
  BY DEF Open
<1>2. PICK i \in Records :
        i = ctx[u].bus /\ bus[i].path = PathOf[u] /\ ctx[u].fd = Closed
  BY <1>0 DEF ContextFollowsThread
<1>1. /\ pc' = [pc EXCEPT ![u] = "up"]
      /\ bus[i].fd = Closed
      /\ busy' = busy /\ recent' = recent
  BY <1>2 DEF Open, Goto
<1>3. PICK f \in FreeFds :
        /\ bus' = [bus EXCEPT ![i] = [path |-> bus[i].path, fd |-> f, refcnt |-> 1,
                                      baud |-> BaudOf[u], last |-> NoUnit]]
        /\ ctx' = [ctx EXCEPT ![u] = [bus |-> i, fd |-> f, lock |-> "live"]]
  BY <1>2 DEF Open
<1>4. f \in Fds /\ f # Closed
  BY DEF FreeFds, Fds, Closed
<1>5. /\ \A j \in Records : j # i => bus'[j] = bus[j]
      /\ bus'[i] = [path |-> PathOf[u], fd |-> f, refcnt |-> 1,
                    baud |-> BaudOf[u], last |-> NoUnit]
      /\ \A v \in Units : v # u => ctx'[v] = ctx[v]
      /\ ctx'[u] = [bus |-> i, fd |-> f, lock |-> "live"]
  BY <1>2, <1>3 DEF PortTypes
<1>6. bus[i].refcnt = 0 /\ Attached(i) = {}
  <2>1. bus[i].refcnt = 0 /\ Cardinality(Attached(i)) = 0
    BY <1>1, <1>2 DEF RefcountExact, PortTypes
  <2> QED
    BY <2>1, AttachedFinite, FS_EmptySet
<1>7. PortTypes'
  BY <1>1, <1>2, <1>3, <1>4 DEF PortTypes
<1>8. OneRecordPerPath'
  BY <1>2, <1>5 DEF OneRecordPerPath
<1>9. RecentIsLast'
  BY <1>1, <1>2, <1>5 DEF RecentIsLast, Rivals, PortTypes
<1>10. ContextFollowsThread' /\ ReconnectsOnSoundLock'
  BY <1>0, <1>1, <1>2, <1>4, <1>5 DEF PortTypes, ContextFollowsThread, ReconnectsOnSoundLock
<1>11. NoStaleDescriptor'
  <2> SUFFICES ASSUME NEW v \in Units, ctx'[v].fd # Closed
               PROVE  /\ ctx'[v].bus # 0
                      /\ bus'[ctx'[v].bus].fd = ctx'[v].fd
                      /\ bus'[ctx'[v].bus].path = PathOf[v]
                      /\ bus'[ctx'[v].bus].baud = BaudOf[v]
    BY DEF NoStaleDescriptor
  <2>1. CASE v = u
    BY <1>2, <1>5, <2>1 DEF Records
  <2>2. CASE v # u
    BY <1>5, <1>6, <2>2 DEF NoStaleDescriptor, Attached, PortTypes
  <2> QED
    BY <2>1, <2>2
<1>12. BusyIsOnWire'
  BY <1>0, <1>1, <1>5 DEF PortTypes, BusyIsOnWire, InTransaction
<1>13. RefcountExact'
  <2>1. /\ Cardinality(Attached(i))' = Cardinality(Attached(i)) + 1
        /\ \A j \in Records \ {i} : Attached(j)' = Attached(j)
    BY <1>2, <1>3, <1>4, AttachAdds
  <2>2. Cardinality(Attached(i))' = 1
    BY <1>6, <2>1, FS_EmptySet
  <2> QED
    BY <1>4, <1>5, <2>1, <2>2 DEF RefcountExact
<1> QED
  BY <1>7, <1>8, <1>9, <1>10, <1>11, <1>12, <1>13

\* ... and a later context at the same rate shares its descriptor.
LEMMA ShareIInv ==
  ASSUME IInv, NEW u \in Units, Share(u)
  PROVE  IInv'
<1> USE PortAssumption DEF IInv
<1>0. pc[u] = "attach"
  BY DEF Share
<1>2. PICK i \in Records :
        i = ctx[u].bus /\ bus[i].path = PathOf[u] /\ ctx[u].fd = Closed
  BY <1>0 DEF ContextFollowsThread
<1>1. /\ pc' = [pc EXCEPT ![u] = "up"]
      /\ bus[i].fd # Closed /\ bus[i].fd \in Fds /\ bus[i].baud = BaudOf[u]
      /\ busy' = busy /\ recent' = recent
      /\ bus' = [bus EXCEPT ![i] = [path |-> bus[i].path, fd |-> bus[i].fd,
                                    refcnt |-> bus[i].refcnt + 1,
                                    baud |-> bus[i].baud, last |-> bus[i].last]]
      /\ ctx' = [ctx EXCEPT ![u] = [bus |-> i, fd |-> bus[i].fd, lock |-> "live"]]
  BY <1>2 DEF Share, Goto, PortTypes
<1>3. /\ \A j \in Records : j # i => bus'[j] = bus[j]
      /\ bus'[i].path = bus[i].path /\ bus'[i].fd = bus[i].fd
      /\ bus'[i].baud = bus[i].baud /\ bus'[i].last = bus[i].last
      /\ bus'[i].refcnt = bus[i].refcnt + 1
      /\ \A v \in Units : v # u => ctx'[v] = ctx[v]
      /\ ctx'[u] = [bus |-> i, fd |-> bus[i].fd, lock |-> "live"]
  BY <1>1, <1>2 DEF PortTypes
<1>4. PortTypes'
  BY <1>1, <1>2 DEF PortTypes
<1>5. Cardinality(Attached(i))' = Cardinality(Attached(i)) + 1
      /\ \A j \in Records \ {i} : Attached(j)' = Attached(j)
  BY <1>1, <1>2, AttachAdds
<1>6. OneRecordPerPath' /\ RecentIsLast'
  <2>1. \A j \in Records : /\ bus'[j].path = bus[j].path /\ bus'[j].fd = bus[j].fd
                           /\ bus'[j].last = bus[j].last
    BY <1>3
  <2> QED
    BY <1>1, <2>1 DEF OneRecordPerPath, RecentIsLast, Rivals
<1>7. ContextFollowsThread' /\ ReconnectsOnSoundLock'
  BY <1>0, <1>1, <1>2, <1>3 DEF PortTypes, ContextFollowsThread, ReconnectsOnSoundLock
<1>8. NoStaleDescriptor'
  BY <1>1, <1>2, <1>3 DEF NoStaleDescriptor, PortTypes, Records
<1>9. BusyIsOnWire'
  BY <1>0, <1>1, <1>3 DEF PortTypes, BusyIsOnWire, InTransaction
<1>10. RefcountExact'
  BY <1>1, <1>2, <1>3, <1>5 DEF RefcountExact, PortTypes
<1> QED
  BY <1>4, <1>6, <1>7, <1>8, <1>9, <1>10

\* do_transaction locks the record for its unit.
LEMMA BeginIInv ==
  ASSUME IInv, NEW u \in Units, Begin(u)
  PROVE  IInv'
<1> USE PortAssumption DEF IInv
<1>1. PICK i \in Records : i = ctx[u].bus
  BY DEF Begin, ContextFollowsThread
<1>2. /\ pc[u] = "up" /\ \E l \in {"hush", "wire"} : pc' = [pc EXCEPT ![u] = l]
      /\ busy[i] = NoUnit /\ busy' = [busy EXCEPT ![i] = u]
      /\ bus' = bus /\ ctx' = ctx /\ recent' = recent
  BY <1>1 DEF Begin, Goto
<1>3. PortTypes'
  BY <1>2 DEF PortTypes
<1>4. OneRecordPerPath' /\ RecentIsLast' /\ NoStaleDescriptor'
  BY <1>2 DEF OneRecordPerPath, RecentIsLast, Rivals, NoStaleDescriptor
<1>5. ContextFollowsThread' /\ ReconnectsOnSoundLock'
  BY <1>2 DEF PortTypes, ContextFollowsThread, ReconnectsOnSoundLock
<1>6. BusyIsOnWire'
  <2>1. ASSUME NEW v \in Units, InTransaction(v)' PROVE busy'[ctx[v].bus] = v
    <3>1. CASE v = u
      BY <1>1, <1>2, <3>1 DEF PortTypes
    <3>2. CASE v # u
      BY <1>1, <1>2, <2>1, <3>2 DEF BusyIsOnWire, InTransaction, PortTypes
    <3> QED
      BY <3>1, <3>2
  <2>2. ASSUME NEW j \in Records, busy'[j] # NoUnit
        PROVE  InTransaction(busy[j])' /\ ctx[busy'[j]].bus = j
    BY <1>1, <1>2, <2>2 DEF BusyIsOnWire, InTransaction, PortTypes
  <2> QED
    BY <1>2, <2>1, <2>2 DEF BusyIsOnWire
<1>7. RefcountExact'
  BY <1>2 DEF RefcountExact, Attached
<1> QED
  BY <1>3, <1>4, <1>5, <1>6, <1>7

\* The wait for the silence ends, by itself or by a signal: the unit keeps the mutex.
LEMMA SendIInv ==
  ASSUME IInv, NEW u \in Units, Send(u) \/ Interrupted(u)
  PROVE  IInv'
<1> USE PortAssumption DEF IInv
<1>1. /\ pc[u] = "hush" /\ pc' = [pc EXCEPT ![u] = "wire"]
      /\ bus' = bus /\ busy' = busy /\ ctx' = ctx /\ recent' = recent
  BY DEF Send, Interrupted, Goto
<1>2. PortTypes'
  BY <1>1 DEF PortTypes
<1>3. OneRecordPerPath' /\ RecentIsLast' /\ NoStaleDescriptor'
  BY <1>1 DEF OneRecordPerPath, RecentIsLast, Rivals, NoStaleDescriptor
<1>4. ContextFollowsThread' /\ ReconnectsOnSoundLock'
  BY <1>1 DEF PortTypes, ContextFollowsThread, ReconnectsOnSoundLock
<1>5. BusyIsOnWire'
  <2>1. \A v \in Units : InTransaction(v)' <=> InTransaction(v)
    BY <1>1 DEF InTransaction, PortTypes
  <2> QED
    BY <1>1, <2>1 DEF BusyIsOnWire, PortTypes
<1>6. RefcountExact'
  BY <1>1 DEF RefcountExact, Attached
<1> QED
  BY <1>2, <1>3, <1>4, <1>5, <1>6

\* The end of a transaction: the record is free and remembers its unit.
LEMMA FinishIInv ==
  ASSUME IInv, NEW u \in Units, Finish(u)
  PROVE  IInv'
<1> USE PortAssumption DEF IInv
<1>1. PICK i \in Records : i = ctx[u].bus
  BY DEF Finish, ContextFollowsThread
<1>2. /\ pc[u] = "wire"
      /\ busy' = [busy EXCEPT ![i] = NoUnit]
      /\ bus' = [bus EXCEPT ![i] = [path |-> bus[i].path, fd |-> bus[i].fd,
                                    refcnt |-> bus[i].refcnt,
                                    baud |-> bus[i].baud, last |-> u]]
      /\ recent' = IF Rivals(u) = {} THEN recent ELSE [recent EXCEPT ![PathOf[u]] = u]
      /\ ctx' = ctx
  BY <1>1 DEF Finish, Ended
<1>3. PICK l \in {"up", "drop"} : pc' = [pc EXCEPT ![u] = l]
  BY DEF Finish, Ended, Goto
<1>4. busy[i] = u /\ bus[i].path = PathOf[u] /\ bus[i].fd # Closed
  BY <1>1, <1>2 DEF BusyIsOnWire, InTransaction, ContextFollowsThread, NoStaleDescriptor
<1>5. /\ \A j \in Records : /\ bus'[j].path = bus[j].path /\ bus'[j].fd = bus[j].fd
                            /\ bus'[j].refcnt = bus[j].refcnt /\ bus'[j].baud = bus[j].baud
      /\ \A j \in Records : j # i => bus'[j].last = bus[j].last
      /\ bus'[i].last = u
  BY <1>2 DEF PortTypes
<1>6. PortTypes'
  BY <1>2, <1>3 DEF PortTypes
<1>7. OneRecordPerPath'
  BY <1>5 DEF OneRecordPerPath
<1>8. NoStaleDescriptor'
  BY <1>2, <1>5 DEF NoStaleDescriptor, PortTypes
<1>9. ContextFollowsThread' /\ ReconnectsOnSoundLock'
  BY <1>2, <1>3, <1>5 DEF PortTypes, ContextFollowsThread, ReconnectsOnSoundLock
<1>10. BusyIsOnWire'
  <2>1. ASSUME NEW v \in Units, InTransaction(v)' PROVE busy'[ctx[v].bus] = v
    <3>1. v # u /\ InTransaction(v)
      BY <1>3, <2>1 DEF InTransaction, PortTypes
    <3> QED
      BY <1>2, <1>4, <3>1 DEF BusyIsOnWire, InTransaction, ContextFollowsThread, PortTypes
  <2>2. ASSUME NEW j \in Records, busy'[j] # NoUnit
        PROVE  InTransaction(busy[j])' /\ ctx[busy'[j]].bus = j
    <3>1. j # i /\ busy'[j] = busy[j]
      BY <1>2, <2>2 DEF PortTypes
    <3> QED
      BY <1>1, <1>3, <2>2, <3>1 DEF BusyIsOnWire, InTransaction, PortTypes
  <2> QED
    BY <1>2, <2>1, <2>2 DEF BusyIsOnWire
<1>11. RecentIsLast'
  <2> SUFFICES ASSUME NEW p \in Paths, recent'[p] # NoUnit
               PROVE  /\ PathOf[recent'[p]] = p /\ Rivals(recent'[p]) # {}
                      /\ \E j \in Records : /\ bus'[j].path = p /\ bus'[j].fd # Closed
                                            /\ bus'[j].last = recent'[p]
    BY DEF RecentIsLast, Rivals
  <2>1. CASE p = PathOf[u] /\ Rivals(u) # {}
    BY <1>2, <1>4, <1>5, <2>1 DEF PortTypes
  <2>2. CASE p = PathOf[u] /\ Rivals(u) = {}
    <3>1. recent[p] \in Units /\ PathOf[recent[p]] = p /\ Rivals(recent[p]) # {}
      BY <1>2, <2>2 DEF RecentIsLast, PortTypes
    <3>2. recent[p] = u
      BY <2>2, <3>1 DEF Rivals
    <3> QED
      BY <2>2, <3>1, <3>2
  <2>3. CASE p # PathOf[u]
    <3>1. recent'[p] = recent[p]
      BY <1>2, <2>3 DEF PortTypes
    <3> QED
      BY <1>4, <1>5, <2>3, <3>1 DEF RecentIsLast
  <2> QED
    BY <2>1, <2>2, <2>3
<1>12. RefcountExact'
  BY <1>2, <1>5 DEF RefcountExact, Attached
<1> QED
  BY <1>6, <1>7, <1>8, <1>9, <1>10, <1>11, <1>12

\* mb_rtu_client_disconnect of an attached context: the count goes down by one,
\* and the port closes exactly when it was the last user's.
LEMMA DetachIInv ==
  ASSUME IInv, NEW u \in Units, NEW l \in {"idle", "done"}, pc[u] \in {"up", "drop"},
         Disconnect(u, l)
  PROVE  IInv'
<1> USE PortAssumption DEF IInv
<1>1. PICK i \in Records :
        /\ i = ctx[u].bus /\ bus[i].path = PathOf[u] /\ ctx[u].lock = "live"
        /\ ctx[u].fd # Closed /\ bus[i].fd = ctx[u].fd
  BY DEF ContextFollowsThread, NoStaleDescriptor
<1>2. /\ busy[i] = NoUnit /\ busy' = busy
      /\ bus' = [bus EXCEPT ![i] = Detached(i)]
      /\ recent' = [recent EXCEPT ![PathOf[u]] = IF bus'[i].fd = Closed THEN NoUnit ELSE @]
      /\ ctx' = [ctx EXCEPT ![u] = [bus |-> i, fd |-> Closed, lock |-> "destroyed"]]
      /\ pc' = [pc EXCEPT ![u] = l]
  BY <1>1 DEF Disconnect, AfterDisconnect, Goto, Records
<1>3. /\ Cardinality(Attached(i))' = Cardinality(Attached(i)) - 1
      /\ Cardinality(Attached(i)) > 0
      /\ \A j \in Records \ {i} : Attached(j)' = Attached(j)
  BY <1>1, <1>2, DetachRemoves
<1>4. bus[i].refcnt = Cardinality(Attached(i)) /\ bus[i].refcnt \in Nat /\ bus[i].refcnt > 0
  BY <1>3 DEF RefcountExact, PortTypes
<1>5. /\ bus'[i].path = PathOf[u] /\ bus'[i].baud = bus[i].baud
      /\ bus'[i].refcnt = bus[i].refcnt - 1
      /\ bus'[i].fd = IF bus[i].refcnt = 1 THEN Closed ELSE bus[i].fd
      /\ bus'[i].last = IF bus[i].refcnt = 1 THEN NoUnit ELSE bus[i].last
      /\ \A j \in Records : j # i => bus'[j] = bus[j]
  BY <1>1, <1>2, <1>4 DEF Detached, PortTypes
<1>6. Detached(i) \in [path : Paths \union {NoPath}, fd : Fds \union {Closed},
                       refcnt : Nat, baud : {BaudOf[v] : v \in Units} \union {0},
                       last : Units \union {NoUnit}]
  BY <1>1, <1>4 DEF Detached, PortTypes
<1>7. PortTypes'
  BY <1>2, <1>6 DEF PortTypes
<1>8. OneRecordPerPath'
  <2>1. \A j \in Records : bus'[j].path = bus[j].path
    BY <1>1, <1>5
  <2> QED
    BY <2>1 DEF OneRecordPerPath
<1>9. ContextFollowsThread' /\ ReconnectsOnSoundLock'
  <2>1. \A j \in Records : bus'[j].path = bus[j].path
    BY <1>1, <1>5
  <2> QED
    BY <1>1, <1>2, <2>1 DEF ContextFollowsThread, ReconnectsOnSoundLock, PortTypes
<1>10. RefcountExact'
  BY <1>1, <1>3, <1>4, <1>5 DEF RefcountExact, PortTypes
<1>11. NoStaleDescriptor'
  <2> SUFFICES ASSUME NEW v \in Units, ctx'[v].fd # Closed
               PROVE  /\ ctx'[v].bus # 0
                      /\ bus'[ctx'[v].bus].fd = ctx'[v].fd
                      /\ bus'[ctx'[v].bus].path = PathOf[v]
                      /\ bus'[ctx'[v].bus].baud = BaudOf[v]
    BY DEF NoStaleDescriptor
  <2>1. v # u /\ ctx'[v] = ctx[v]
    BY <1>2 DEF PortTypes
  <2>2. /\ ctx[v].bus \in Records
        /\ bus[ctx[v].bus].fd = ctx[v].fd
        /\ bus[ctx[v].bus].path = PathOf[v]
        /\ bus[ctx[v].bus].baud = BaudOf[v]
    BY <2>1 DEF NoStaleDescriptor, PortTypes
  <2>3. CASE ctx[v].bus = i
    <3>1. u \in Attached(i) /\ v \in Attached(i) /\ {u, v} \subseteq Attached(i)
      BY <1>1, <2>1, <2>3 DEF Attached
    <3>2. Cardinality(Attached(i)) # 1
      BY <2>1, <3>1, AttachedFinite, FS_Singleton
    <3> QED
      BY <1>1, <1>4, <1>5, <2>1, <2>2, <2>3, <3>2 DEF Records
  <2>4. CASE ctx[v].bus # i
    BY <1>5, <2>1, <2>2, <2>4 DEF Records
  <2> QED
    BY <2>3, <2>4
<1>12. BusyIsOnWire'
  BY <1>1, <1>2 DEF PortTypes, BusyIsOnWire, InTransaction
<1>13. RecentIsLast'
  <2> SUFFICES ASSUME NEW p \in Paths, recent'[p] # NoUnit
               PROVE  /\ PathOf[recent'[p]] = p /\ Rivals(recent'[p]) # {}
                      /\ \E j \in Records : /\ bus'[j].path = p /\ bus'[j].fd # Closed
                                            /\ bus'[j].last = recent'[p]
    BY DEF RecentIsLast, Rivals
  <2>1. recent'[p] = recent[p] /\ (p = PathOf[u] => bus'[i].fd # Closed)
    BY <1>2 DEF PortTypes
  <2>2. PICK j \in Records : bus[j].path = p /\ bus[j].fd # Closed /\ bus[j].last = recent[p]
    BY <2>1 DEF RecentIsLast
  <2>3. /\ bus'[j].path = p /\ bus'[j].fd # Closed /\ bus'[j].last = recent[p]
    BY <1>1, <1>5, <2>1, <2>2
  <2> QED
    BY <2>1, <2>3 DEF RecentIsLast
<1> QED
  BY <1>7, <1>8, <1>9, <1>10, <1>11, <1>12, <1>13

\* The disconnect at the end of a thread that is not connected changes its
\* context's mutex only.
LEMMA IdleDisconnectIInv ==
  ASSUME IInv, NEW u \in Units, pc[u] = "idle", Disconnect(u, "done")
  PROVE  IInv'
<1> USE PortAssumption DEF IInv
<1>1. ctx[u].fd = Closed
  BY DEF ContextFollowsThread
<1>2. PICK m \in {"destroyed", "misused"} :
        /\ ctx' = [ctx EXCEPT ![u] = [bus |-> ctx[u].bus, fd |-> Closed, lock |-> m]]
        /\ pc' = [pc EXCEPT ![u] = "done"]
        /\ bus' = bus /\ busy' = busy /\ recent' = recent
  BY <1>1 DEF Disconnect, AfterDisconnect, Goto
<1>3. PortTypes'
  BY <1>2 DEF PortTypes, Closed
<1>4. OneRecordPerPath' /\ RecentIsLast'
  BY <1>2 DEF OneRecordPerPath, RecentIsLast, Rivals
<1>5. ContextFollowsThread' /\ NoStaleDescriptor' /\ ReconnectsOnSoundLock'
  BY <1>2 DEF PortTypes, ContextFollowsThread, NoStaleDescriptor, ReconnectsOnSoundLock
<1>6. BusyIsOnWire'
  BY <1>2 DEF PortTypes, BusyIsOnWire, InTransaction
<1>7. RefcountExact'
  BY <1>1, <1>2, QuietKeeps DEF RefcountExact
<1> QED
  BY <1>3, <1>4, <1>5, <1>6, <1>7

\* Every step of every unit, and the passing of time, keeps the invariant.
LEMMA NextIInv == IInv /\ [Next]_vars => IInv'
<1> SUFFICES ASSUME IInv, [Next]_vars PROVE IInv'
  OBVIOUS
<1>1. CASE UNCHANGED vars
  <2>1. bus' = bus /\ busy' = busy /\ ctx' = ctx /\ pc' = pc /\ recent' = recent
    BY <1>1 DEF vars
  <2>2. PortTypes' /\ OneRecordPerPath' /\ BusyIsOnWire' /\ RecentIsLast'
    BY <2>1 DEF IInv, PortTypes, OneRecordPerPath, BusyIsOnWire, InTransaction, RecentIsLast, Rivals
  <2>3. /\ ContextFollowsThread' /\ NoStaleDescriptor' /\ RefcountExact'
        /\ ReconnectsOnSoundLock'
    BY <2>1 DEF IInv, ContextFollowsThread, NoStaleDescriptor, RefcountExact, Attached,
                ReconnectsOnSoundLock
  <2> QED
    BY <2>2, <2>3 DEF IInv
<1>2. ASSUME NEW u \in Units, ConnectFound(u) PROVE IInv'
  BY <1>2, ConnectFoundIInv
<1>3. ASSUME NEW u \in Units, ConnectNewRecord(u) PROVE IInv'
  BY <1>3, ConnectNewRecordIInv
<1>4. ASSUME NEW u \in Units, ConnectRegistryFull(u) \/ AttachFails(u) PROVE IInv'
  BY <1>4, FailedConnectIInv
<1>5. ASSUME NEW u \in Units, Open(u) PROVE IInv'
  BY <1>5, OpenIInv
<1>6. ASSUME NEW u \in Units, Share(u) PROVE IInv'
  BY <1>6, ShareIInv
<1>7. ASSUME NEW u \in Units, Begin(u) PROVE IInv'
  BY <1>7, BeginIInv
<1>8. ASSUME NEW u \in Units, Finish(u) PROVE IInv'
  BY <1>8, FinishIInv
<1>9. ASSUME NEW u \in Units, Drop(u) PROVE IInv'
  BY <1>9, DetachIInv DEF Drop
<1>10. ASSUME NEW u \in Units, Stop(u) PROVE IInv'
  BY <1>10, DetachIInv, IdleDisconnectIInv DEF Stop
<1>11. ASSUME NEW u \in Units, Send(u) \/ Interrupted(u) PROVE IInv'
  BY <1>11, SendIInv
<1>12. ASSUME NEW p \in Paths, Tick(p) PROVE IInv'
  <2>1. bus' = bus /\ busy' = busy /\ ctx' = ctx /\ pc' = pc /\ recent' = recent
    BY <1>12 DEF Tick
  <2> QED
    BY <2>1 DEF IInv, PortTypes, RecentIsLast, Rivals, OneRecordPerPath, ContextFollowsThread,
                NoStaleDescriptor, RefcountExact, Attached, BusyIsOnWire, InTransaction,
                ReconnectsOnSoundLock
<1> QED
  BY <1>1, <1>2, <1>3, <1>4, <1>5, <1>6, <1>7, <1>8, <1>9, <1>10, <1>11, <1>12 DEF Next, AllDone

\* The invariant holds in every state, for any units, paths, rates and registry
\* size.
THEOREM Invariance == Spec => []IInv
<1> QED
  BY InitIInv, NextIInv, PTL DEF Spec

\* The usleep before a transaction ends, unless a signal ends it, when all the
\* milliseconds of the silence have passed but at most the one that was counted and
\* had not.
WaitIsLongEnough ==
  \A u \in Units : pc[u] = "hush" => due[ctx[u].bus] \in {SilenceMs - 1, SilenceMs}

SilenceInv == TimingTypes /\ WaitIsLongEnough

\* Steps that leave the timing alone start no wait and move no waiting unit.
LEMMA TimingKept ==
  ASSUME IInv, SilenceInv, due' = due, cut' \subseteq Units,
         age' \in [Paths -> 0 .. SilenceMs],
         \A v \in Units : pc'[v] = "hush" => pc[v] = "hush" /\ ctx'[v] = ctx[v]
  PROVE  SilenceInv'
  BY DEF SilenceInv, TimingTypes, WaitIsLongEnough

\* do_transaction sets the time at which its own wait ends, on a record that nobody
\* else waits on.
LEMMA BeginTiming ==
  ASSUME IInv, SilenceInv, NEW u \in Units, Begin(u)
  PROVE  SilenceInv'
<1> USE PortAssumption DEF IInv
<1>1. PICK i \in Records : i = ctx[u].bus
  BY DEF Begin, ContextFollowsThread
<1>2. PICK elapsed \in Counted(u) :
        \/ /\ elapsed < SilenceMs /\ pc' = [pc EXCEPT ![u] = "hush"]
           /\ due' = [due EXCEPT ![i] = age[PathOf[u]] + (SilenceMs - elapsed)]
        \/ pc' = [pc EXCEPT ![u] = "wire"] /\ due' = due
  BY <1>1 DEF Begin, Goto
<1>3. busy[i] = NoUnit /\ ctx' = ctx /\ age' = age /\ cut' = cut
  BY <1>1 DEF Begin
<1>4. CASE pc' = [pc EXCEPT ![u] = "wire"] /\ due' = due
  BY <1>3, <1>4, TimingKept DEF SilenceInv, TimingTypes, PortTypes
<1>5. CASE /\ elapsed < SilenceMs /\ pc' = [pc EXCEPT ![u] = "hush"]
           /\ due' = [due EXCEPT ![i] = age[PathOf[u]] + (SilenceMs - elapsed)]
  <2>1. age[PathOf[u]] + (SilenceMs - elapsed) \in {SilenceMs - 1, SilenceMs}
    <3>1. age[PathOf[u]] \in Int /\ SilenceMs \in Int
      BY DEF SilenceInv, TimingTypes
    <3> QED
      BY <3>1 DEF Counted
  <2>2. SilenceMs - 1 \in 0 .. SilenceMs /\ SilenceMs \in 0 .. SilenceMs
    OBVIOUS
  <2>3. due' \in [Records -> 0 .. SilenceMs]
    BY <1>5, <2>1, <2>2 DEF SilenceInv, TimingTypes
  <2>4. ASSUME NEW v \in Units, pc'[v] = "hush"
        PROVE  due'[ctx'[v].bus] \in {SilenceMs - 1, SilenceMs}
    <3>1. CASE v = u
      BY <1>1, <1>3, <1>5, <2>1, <3>1 DEF SilenceInv, TimingTypes
    <3>2. CASE v # u
      <4>1. pc[v] = "hush"
        BY <1>5, <2>4, <3>2 DEF PortTypes
      <4>2. ctx[v].bus # i
        BY <1>3, <4>1, PortAssumption DEF BusyIsOnWire, InTransaction
      <4> QED
        BY <1>3, <1>5, <4>1, <4>2 DEF SilenceInv, WaitIsLongEnough, TimingTypes, ContextFollowsThread
    <3> QED
      BY <3>1, <3>2
  <2> QED
    BY <1>3, <2>3, <2>4 DEF SilenceInv, TimingTypes, WaitIsLongEnough
<1> QED
  BY <1>2, <1>4, <1>5

\* The end of a wait clears the time of that record, whose only user it was.
LEMMA SendTiming ==
  ASSUME IInv, SilenceInv, NEW u \in Units, Send(u) \/ Interrupted(u)
  PROVE  SilenceInv'
<1> USE PortAssumption DEF IInv
<1>1. /\ pc[u] = "hush" /\ pc' = [pc EXCEPT ![u] = "wire"] /\ ctx' = ctx /\ age' = age
      /\ due' = [due EXCEPT ![ctx[u].bus] = 0] /\ cut' \subseteq Units
  BY DEF Send, Interrupted, Goto, SilenceInv, TimingTypes
<1>2. due' \in [Records -> 0 .. SilenceMs]
  <2>1. 0 \in 0 .. SilenceMs
    OBVIOUS
  <2> QED
    BY <1>1, <2>1 DEF SilenceInv, TimingTypes
<1>3. ASSUME NEW v \in Units, pc'[v] = "hush"
      PROVE  due'[ctx'[v].bus] \in {SilenceMs - 1, SilenceMs}
  <2>1. v # u /\ pc[v] = "hush"
    BY <1>1, <1>3 DEF PortTypes
  <2>2. ctx[v].bus # ctx[u].bus
    BY <1>1, <2>1 DEF BusyIsOnWire, InTransaction
  <2> QED
    BY <1>1, <2>1, <2>2 DEF SilenceInv, WaitIsLongEnough, TimingTypes, ContextFollowsThread
<1> QED
  BY <1>1, <1>2, <1>3 DEF SilenceInv, TimingTypes, WaitIsLongEnough

\* Every step keeps the waits long enough.
LEMMA NextTiming == IInv /\ SilenceInv /\ [Next]_vars => SilenceInv'
<1> SUFFICES ASSUME IInv, SilenceInv, [Next]_vars PROVE SilenceInv'
  OBVIOUS
<1> USE PortAssumption
<1>1. CASE UNCHANGED vars
  BY <1>1, TimingKept DEF vars, SilenceInv, TimingTypes
<1>2. ASSUME NEW u \in Units,
             \/ ConnectFound(u) \/ ConnectNewRecord(u) \/ ConnectRegistryFull(u)
             \/ Open(u) \/ Share(u) \/ AttachFails(u)
      PROVE  SilenceInv'
  <2>1. /\ pc[u] \in {"idle", "attach"}
        /\ pc' = pc \/ \E l \in {"idle", "attach", "up"} : pc' = [pc EXCEPT ![u] = l]
        /\ \E c : ctx' = [ctx EXCEPT ![u] = c]
        /\ due' = due /\ age' = age /\ cut' = cut
    BY <1>2 DEF ConnectFound, ConnectNewRecord, ConnectRegistryFull, Open, Share, AttachFails,
                Goto, timing
  <2>2. \A v \in Units : pc'[v] = "hush" => pc[v] = "hush" /\ ctx'[v] = ctx[v]
    BY <2>1 DEF IInv, PortTypes
  <2> QED
    BY <2>1, <2>2, TimingKept DEF SilenceInv, TimingTypes
<1>3. ASSUME NEW u \in Units, Drop(u) \/ Stop(u) PROVE SilenceInv'
  <2>1. /\ pc[u] \in {"idle", "up", "drop"}
        /\ \E l \in {"idle", "done"} : pc' = [pc EXCEPT ![u] = l]
        /\ \E c : ctx' = [ctx EXCEPT ![u] = c]
        /\ due' = due /\ age' = age /\ cut' = cut
    BY <1>3 DEF Drop, Stop, Disconnect, Goto, timing
  <2>2. \A v \in Units : pc'[v] = "hush" => pc[v] = "hush" /\ ctx'[v] = ctx[v]
    BY <2>1 DEF IInv, PortTypes
  <2> QED
    BY <2>1, <2>2, TimingKept DEF SilenceInv, TimingTypes
<1>4. ASSUME NEW u \in Units, Finish(u) PROVE SilenceInv'
  <2>1. /\ \E l \in {"up", "drop"} : pc' = [pc EXCEPT ![u] = l]
        /\ ctx' = ctx /\ due' = due /\ cut' = cut \ {u}
        /\ age' = age \/ age' = [age EXCEPT ![PathOf[u]] = 0]
    BY <1>4 DEF Finish, Ended, Goto
  <2>2. \A v \in Units : pc'[v] = "hush" => pc[v] = "hush" /\ ctx'[v] = ctx[v]
    BY <2>1 DEF IInv, PortTypes
  <2>3. 0 \in 0 .. SilenceMs
    OBVIOUS
  <2>4. age' \in [Paths -> 0 .. SilenceMs] /\ cut' \subseteq Units
    BY <2>1, <2>3 DEF SilenceInv, TimingTypes
  <2> QED
    BY <2>1, <2>2, <2>4, TimingKept
<1>5. ASSUME NEW p \in Paths, Tick(p) PROVE SilenceInv'
  <2>1. /\ age[p] < SilenceMs /\ age' = [age EXCEPT ![p] = age[p] + 1]
        /\ pc' = pc /\ ctx' = ctx /\ due' = due /\ cut' = cut
    BY <1>5 DEF Tick
  <2>2. age[p] + 1 \in 0 .. SilenceMs
    BY <2>1 DEF SilenceInv, TimingTypes
  <2>3. age' \in [Paths -> 0 .. SilenceMs] /\ cut' \subseteq Units
    BY <2>1, <2>2 DEF SilenceInv, TimingTypes
  <2> QED
    BY <2>1, <2>3, TimingKept
<1> QED
  BY <1>1, <1>2, <1>3, <1>4, <1>5, BeginTiming, SendTiming DEF Next, AllDone

\* Whoever waits for the silence has set the end of the wait late enough.
LEMMA WaitInvariance == Spec => []SilenceInv
<1>1. Init => SilenceInv
  BY PortAssumption DEF Init, SilenceInv, TimingTypes, WaitIsLongEnough
<1> QED
  BY <1>1, NextTiming, Invariance, PTL DEF Spec

\* The state of the registry, of the contexts and of the clocks keeps its type.
THEOREM Typing == Spec => []TypeOK
<1>1. IInv /\ SilenceInv => TypeOK
  BY DEF IInv, SilenceInv, TypeOK
<1> QED
  BY <1>1, Invariance, WaitInvariance, PTL

\* refcnt is the number of contexts attached to the port, and the port is open
\* exactly while there is one.
THEOREM ExactRefcount == Spec => []RefcountExact
<1>1. IInv => RefcountExact
  BY DEF IInv
<1> QED
  BY <1>1, Invariance, PTL

\* A context's descriptor is the open port of its own path, at its own rate.
THEOREM FreshDescriptor == Spec => []NoStaleDescriptor
<1>1. IInv => NoStaleDescriptor
  BY DEF IInv
<1> QED
  BY <1>1, Invariance, PTL

\* A context's own lock, which its failed connect or its disconnect has destroyed, is
\* never locked by the connects that follow; only the last disconnect of the thread
\* may do so.
THEOREM SoundLock == Spec => []ReconnectsOnSoundLock
<1>1. IInv => ReconnectsOnSoundLock
  BY DEF IInv
<1> QED
  BY <1>1, Invariance, PTL

\* do_transaction: one transaction at a time on every serial path.
THEOREM OneTransaction == Spec => []OneTransactionPerPath
<1>1. IInv => OneTransactionPerPath
  BY PortAssumption DEF IInv, ContextFollowsThread, OneRecordPerPath, BusyIsOnWire,
                        InTransaction, OneTransactionPerPath
<1> QED
  BY <1>1, Invariance, PTL

\* The handoff silence: unless a signal ended its wait, a unit transmits only where
\* another unit's transaction on the open port ended at least SilenceMs - 1 whole
\* milliseconds ago, for any units, paths and silence.
THEOREM Silences == Spec => HandoffSilence
<1>1. IInv /\ SilenceInv /\ [Next]_vars
        => [\A u \in Units : (pc[u] # "wire" /\ pc'[u] = "wire" /\ u \notin cut')
                               => \/ recent[PathOf[u]] \in {NoUnit, u}
                                  \/ age[PathOf[u]] >= SilenceMs - 1]_vars
  <2> SUFFICES ASSUME IInv, SilenceInv, Next,
                      NEW u \in Units, pc[u] # "wire", pc'[u] = "wire", u \notin cut'
               PROVE  \/ recent[PathOf[u]] \in {NoUnit, u}
                      \/ age[PathOf[u]] >= SilenceMs - 1
    OBVIOUS
  <2> USE PortAssumption
  <2>1. Begin(u) \/ Send(u)
    <3>1. pc \in [Units -> {"idle", "attach", "up", "hush", "wire", "drop", "done"}]
      BY DEF IInv, PortTypes
    <3>2. ASSUME NEW v \in Units,
                 \/ ConnectFound(v) \/ ConnectNewRecord(v) \/ ConnectRegistryFull(v)
                 \/ Open(v) \/ Share(v) \/ AttachFails(v) \/ Finish(v) \/ Drop(v) \/ Stop(v)
          PROVE  FALSE
      <4>1. pc' = pc \/ \E l \in {"idle", "attach", "up", "drop", "done"} :
                         pc' = [pc EXCEPT ![v] = l]
        BY <3>2 DEF ConnectFound, ConnectNewRecord, ConnectRegistryFull, Open, Share, AttachFails,
                    Finish, Ended, Drop, Stop, Disconnect, Goto
      <4> QED
        BY <3>1, <4>1
    <3>3. ASSUME NEW v \in Units, Begin(v) \/ Send(v) PROVE v = u
      <4>1. \E l \in {"hush", "wire"} : pc' = [pc EXCEPT ![v] = l]
        BY <3>3 DEF Begin, Send, Goto
      <4> QED
        BY <3>1, <4>1
    <3>4. ASSUME NEW v \in Units, Interrupted(v) PROVE FALSE
      <4>1. pc' = [pc EXCEPT ![v] = "wire"] /\ v \in cut'
        BY <3>4 DEF Interrupted, Goto
      <4> QED
        BY <3>1, <4>1
    <3>5. pc' # pc
      OBVIOUS
    <3> QED
      BY <3>2, <3>3, <3>4, <3>5 DEF Next, Tick, AllDone, vars
  <2>2. age[PathOf[u]] \in Int
    BY DEF SilenceInv, TimingTypes
  <2>3. CASE Send(u)
    <3>1. pc[u] = "hush" /\ age[PathOf[u]] >= due[ctx[u].bus]
      BY <2>3 DEF Send
    <3>2. due[ctx[u].bus] \in {SilenceMs - 1, SilenceMs}
      BY <3>1 DEF SilenceInv, WaitIsLongEnough
    <3> QED
      BY <2>2, <3>1, <3>2
  <2>4. CASE Begin(u)
    <3>1. PICK i \in Records : i = ctx[u].bus /\ bus[i].path = PathOf[u]
      BY <2>4 DEF IInv, ContextFollowsThread, Begin
    <3>2. bus[i].last \notin {NoUnit, u}
            => \E elapsed \in Counted(u) : elapsed >= SilenceMs
      BY <2>4, <3>1 DEF Begin, MustWait, Goto, IInv, PortTypes
    <3>3. bus[i].last \notin {NoUnit, u} => age[PathOf[u]] >= SilenceMs - 1
      BY <2>2, <3>2 DEF Counted
    <3>4. recent[PathOf[u]] # NoUnit => bus[i].last = recent[PathOf[u]]
      BY <3>1 DEF IInv, RecentIsLast, OneRecordPerPath
    <3> QED
      BY <3>3, <3>4
  <2> QED
    BY <2>1, <2>3, <2>4
<1> QED
  BY <1>1, Invariance, WaitInvariance, PTL DEF Spec, HandoffSilence

-----------------------------------------------------------------------------
(* The inductive invariant. On TCP everything hangs on the ids: what is still *)
(* unread has none of those the next requests will get, because every failed *)
(* read brings the link closer to being closed and every good one has read   *)
(* all there was.                                                            *)

Answers == [unit : Uids, fc : {3, 6, 16}, qty : Nat, exc : BOOLEAN,
            tid : 0 .. MaxTid, stamp : 1 .. LastStamp]
Pieces  == [of : Answers, part : {1, 2}, old : BOOLEAN]

Types ==
  /\ link \in {"rtu", "tcp"} /\ (link = "tcp" => \A a, b \in users : a = b)
  /\ open \in [Uids -> {"closed", "probe", "open"}]
  /\ fails \in [Uids -> 0 .. FailThreshold - 1]
  /\ tid \in 0 .. MaxTid
  /\ got \in Seq(Pieces) /\ line \in Seq(Pieces) /\ wire \in Seq(Pieces)

\* Nothing is read outside a transaction, and a link is closed only between two.
RequestInv ==
  /\ req = NoRequest => got = <<>>
  /\ req # NoRequest =>
       /\ ok = FALSE /\ req.unit \in users \cap Uids /\ open[req.unit] # "closed"
       /\ link = "tcp" => req.tid = tid

\* What is on its way has not arrived, and RTU keeps nothing that had.
NoneOld(s) == \A i \in DOMAIN s : s[i].old = FALSE
OldInv == NoneOld(wire) /\ (link = "rtu" => NoneOld(got) /\ NoneOld(line))

\* The next n transaction ids after t.
Ahead(t, n) == {((t + k - 1) % MaxTid) + 1 : k \in 1 .. n}

\* All that is unread, in the order in which it will be read.
Stream == got \o line \o wire

\* No piece has an id of T.
Without(s, T) == \A i \in DOMAIN s : s[i].of.tid \notin T

\* What has the id of request q answers q, and comes last; nothing after it had
\* arrived before q.
OwnLast(s, q) ==
  \A i \in DOMAIN s : s[i].of.tid = q.tid =>
    /\ i >= Len(s) - 1 /\ \A j \in i .. Len(s) : s[j].old = FALSE
    /\ s[i].of.unit = q.unit /\ s[i].of.stamp = q.stamp
    /\ s[i].of.fc = q.fc /\ s[i].of.qty = q.qty

\* The pieces of an answer to q that has not arrived.
Replies(q) ==
  {n \in Seq(Pieces) :
     /\ Len(n) <= 2
     /\ \A i \in DOMAIN n :
          /\ n[i].old = FALSE
          /\ n[i].of.tid = q.tid /\ n[i].of.unit = q.unit /\ n[i].of.stamp = q.stamp
          /\ n[i].of.fc = q.fc /\ n[i].of.qty = q.qty}

\* The reads that may still fail before the link is closed; the one under way
\* counts as failed.
Left(u) == FailThreshold - fails[u] - (IF req # NoRequest /\ req.counted THEN 1 ELSE 0)

IdInv ==
  link = "tcp" =>
    /\ \A u \in users \cap Uids : open[u] # "closed" => Without(Stream, Ahead(tid, Left(u)))
    /\ req # NoRequest => OwnLast(Stream, req)

LinkInv == Types /\ RequestInv /\ OldInv /\ IdInv

-----------------------------------------------------------------------------
(* Transaction ids.                                                          *)

\* One turn of the ids at most.
LEMMA OneTurn ==
  ASSUME NEW x \in 0 .. 2 * MaxTid - 1
  PROVE  x % MaxTid = IF x < MaxTid THEN x ELSE x - MaxTid
<1>1. MaxTid \in Nat \ {0}
  BY LagAssumption
<1>2. CASE x < MaxTid
  BY <1>1, <1>2
<1>3. CASE x >= MaxTid
  BY <1>1, <1>3
<1> QED
  BY <1>1, <1>2, <1>3

\* The ids ahead, without the remainder.
LEMMA AheadIs ==
  ASSUME NEW t \in 0 .. MaxTid, NEW k \in 1 .. FailThreshold + 1
  PROVE  ((t + k - 1) % MaxTid) + 1 = IF t + k - 1 < MaxTid THEN t + k ELSE t + k - MaxTid
<1>1. /\ MaxTid \in Nat /\ FailThreshold \in Nat /\ MaxTid > FailThreshold + 1
      /\ t + k - 1 \in 0 .. 2 * MaxTid - 1
  BY LagAssumption
<1>2. PICK x \in 0 .. 2 * MaxTid - 1 : x = t + k - 1
  BY <1>1
<1>3. x % MaxTid = IF x < MaxTid THEN x ELSE x - MaxTid
  BY OneTurn
<1>4. CASE x < MaxTid
  BY <1>1, <1>2, <1>3, <1>4
<1>5. CASE ~(x < MaxTid)
  BY <1>1, <1>2, <1>3, <1>5
<1> QED
  BY <1>4, <1>5

\* The next id is one of those ahead, none of those after it, and leaves one less.
LEMMA NextAhead ==
  ASSUME NEW t \in 0 .. MaxTid, NEW n \in 0 .. FailThreshold
  PROVE  /\ NextTid(t) \in 1 .. MaxTid
         /\ NextTid(t) \in Ahead(t, n + 1)
         /\ Ahead(NextTid(t), n) \subseteq Ahead(t, n + 1)
         /\ NextTid(t) \notin Ahead(NextTid(t), n)
<1>0. /\ MaxTid \in Nat /\ FailThreshold \in Nat /\ MaxTid > FailThreshold + 1
      /\ t \in Nat /\ t <= MaxTid /\ n \in Nat /\ n <= FailThreshold
  BY LagAssumption
<1> DEFINE s == NextTid(t)
<1>1. s \in 1 .. MaxTid /\ s = IF t < MaxTid THEN t + 1 ELSE 1
  BY <1>0 DEF NextTid
<1>2. \A k \in 1 .. FailThreshold + 1 :
        ((t + k - 1) % MaxTid) + 1 = IF t + k - 1 < MaxTid THEN t + k ELSE t + k - MaxTid
  BY AheadIs
<1>3. \A k \in 1 .. FailThreshold + 1 :
        ((s + k - 1) % MaxTid) + 1 = IF s + k - 1 < MaxTid THEN s + k ELSE s + k - MaxTid
  <2>1. s \in 0 .. MaxTid
    BY <1>1
  <2> HIDE DEF s
  <2> QED
    BY <2>1, AheadIs
<1> HIDE DEF s
<1>4. s \in Ahead(t, n + 1)
  <2>1. 1 \in 1 .. n + 1 /\ 1 \in 1 .. FailThreshold + 1
    BY <1>0
  <2>2. ((t + 1 - 1) % MaxTid) + 1 = s
    BY <1>0, <1>1, <1>2, <2>1
  <2> QED
    BY <2>1, <2>2 DEF Ahead
<1>5. ASSUME NEW k \in 1 .. n
      PROVE  ((s + k - 1) % MaxTid) + 1 \in Ahead(t, n + 1) /\ ((s + k - 1) % MaxTid) + 1 # s
  <2>1. k \in 1 .. FailThreshold + 1 /\ k + 1 \in 1 .. FailThreshold + 1 /\ k + 1 \in 1 .. n + 1
    BY <1>0
  <2>2. PICK x : x = ((s + k - 1) % MaxTid) + 1
    OBVIOUS
  <2>3. x = IF s + k - 1 < MaxTid THEN s + k ELSE s + k - MaxTid
    BY <1>3, <2>1, <2>2
  <2>4. ((t + (k + 1) - 1) % MaxTid) + 1
          = IF t + (k + 1) - 1 < MaxTid THEN t + (k + 1) ELSE t + (k + 1) - MaxTid
    BY <1>2, <2>1
  <2>5. (IF t + (k + 1) - 1 < MaxTid THEN t + (k + 1) ELSE t + (k + 1) - MaxTid) = x
    BY <1>0, <1>1, <2>1, <2>3
  <2>6. x # s
    BY <1>0, <1>1, <2>1, <2>3
  <2>7. x \in Ahead(t, n + 1)
    BY <2>1, <2>4, <2>5 DEF Ahead
  <2> QED
    BY <2>2, <2>6, <2>7
<1>6. Ahead(s, n) \subseteq Ahead(t, n + 1) /\ s \notin Ahead(s, n)
  BY <1>5 DEF Ahead
<1> QED
  BY <1>1, <1>4, <1>6 DEF s

\* Fewer ids ahead are some of them.
LEMMA AheadGrows ==
  ASSUME NEW t, NEW n \in Nat, NEW m \in Nat, n <= m
  PROVE  Ahead(t, n) \subseteq Ahead(t, m)
<1>1. 1 .. n \subseteq 1 .. m
  OBVIOUS
<1> QED
  BY <1>1 DEF Ahead

-----------------------------------------------------------------------------
(* The stream.                                                               *)

LEMMA Pieced ==
  ASSUME NEW p \in Pieces
  PROVE  /\ p.of \in Answers /\ p.part \in {1, 2} /\ p.old \in BOOLEAN
         /\ [p EXCEPT !.old = TRUE] \in Pieces /\ [p EXCEPT !.old = TRUE].of = p.of
         /\ [p EXCEPT !.part = 2] \in Pieces /\ [p EXCEPT !.part = 2].of = p.of
         /\ [p EXCEPT !.part = 2].old = p.old
  BY DEF Pieces

\* Three sequences one after the other.
LEMMA InARow ==
  ASSUME NEW a \in Seq(Pieces), NEW b \in Seq(Pieces), NEW c \in Seq(Pieces)
  PROVE  /\ a \o b \o c \in Seq(Pieces)
         /\ Len(a \o b \o c) = Len(a) + Len(b) + Len(c)
         /\ \A i \in 1 .. Len(a) : (a \o b \o c)[i] = a[i]
         /\ \A i \in 1 .. Len(b) : (a \o b \o c)[Len(a) + i] = b[i]
         /\ \A i \in 1 .. Len(c) : (a \o b \o c)[Len(a) + Len(b) + i] = c[i]
<1>1. /\ a \o b \in Seq(Pieces) /\ Len(a \o b) = Len(a) + Len(b)
      /\ \A i \in 1 .. Len(a) : (a \o b)[i] = a[i]
      /\ \A i \in 1 .. Len(b) : (a \o b)[Len(a) + i] = b[i]
  OBVIOUS
<1> DEFINE ab == a \o b
<1> HIDE DEF ab
<1>2. /\ ab \o c \in Seq(Pieces) /\ Len(ab \o c) = Len(ab) + Len(c)
      /\ \A i \in 1 .. Len(ab) : (ab \o c)[i] = ab[i]
      /\ \A i \in 1 .. Len(c) : (ab \o c)[Len(ab) + i] = c[i]
  BY <1>1 DEF ab
<1>3. Len(a) \in Nat /\ Len(b) \in Nat /\ Len(c) \in Nat
  OBVIOUS
<1> QED
  BY <1>1, <1>2, <1>3 DEF ab

\* A piece read, or arrived, leaves the row as it is.
LEMMA MovedOn ==
  ASSUME NEW a \in Seq(Pieces), NEW b \in Seq(Pieces), b # <<>>
  PROVE  /\ Append(a, Head(b)) \in Seq(Pieces) /\ Tail(b) \in Seq(Pieces)
         /\ Append(a, Head(b)) \o Tail(b) = a \o b
<1>1. /\ Head(b) \in Pieces /\ Head(b) = b[1] /\ Tail(b) \in Seq(Pieces)
      /\ Len(b) \in Nat \ {0} /\ Len(Tail(b)) = Len(b) - 1
      /\ \A i \in 1 .. Len(b) - 1 : Tail(b)[i] = b[i + 1]
  OBVIOUS
<1> DEFINE h == Head(b)
           t == Tail(b)
<1> HIDE DEF h, t
<1>2. /\ Append(a, h) \in Seq(Pieces) /\ Len(Append(a, h)) = Len(a) + 1
      /\ Append(a, h)[Len(a) + 1] = h
      /\ \A i \in 1 .. Len(a) : Append(a, h)[i] = a[i]
  BY <1>1 DEF h
<1> DEFINE ah == Append(a, h)
<1> HIDE DEF ah
<1>3. /\ ah \o t \in Seq(Pieces) /\ Len(ah \o t) = Len(ah) + Len(t)
      /\ \A i \in 1 .. Len(ah) : (ah \o t)[i] = ah[i]
      /\ \A i \in Len(ah) + 1 .. Len(ah) + Len(t) : (ah \o t)[i] = t[i - Len(ah)]
  BY <1>1, <1>2 DEF ah, t
<1>4. /\ a \o b \in Seq(Pieces) /\ Len(a \o b) = Len(a) + Len(b)
      /\ \A i \in 1 .. Len(a) : (a \o b)[i] = a[i]
      /\ \A i \in Len(a) + 1 .. Len(a) + Len(b) : (a \o b)[i] = b[i - Len(a)]
  OBVIOUS
<1>5. Len(a) \in Nat /\ Len(ah) = Len(a) + 1 /\ Len(t) = Len(b) - 1
  BY <1>1, <1>2 DEF ah, t
<1>6. ASSUME NEW i \in 1 .. Len(a) + Len(b)
      PROVE  (ah \o t)[i] = (a \o b)[i]
  <2>1. CASE i <= Len(a)
    BY <1>2, <1>3, <1>4, <1>5, <2>1 DEF ah
  <2>2. CASE i = Len(a) + 1
    <3>1. (ah \o t)[i] = h /\ (a \o b)[i] = b[i - Len(a)] /\ i - Len(a) = 1
      BY <1>1, <1>2, <1>3, <1>4, <1>5, <2>2 DEF ah
    <3> QED
      BY <1>1, <3>1 DEF h
  <2>3. CASE i > Len(a) + 1
    <3>1. i - Len(ah) \in 1 .. Len(b) - 1 /\ (i - Len(ah)) + 1 = i - Len(a)
      BY <1>1, <1>5, <2>3
    <3>2. (ah \o t)[i] = t[i - Len(ah)] /\ (a \o b)[i] = b[i - Len(a)]
      BY <1>1, <1>3, <1>4, <1>5, <2>3
    <3> QED
      BY <1>1, <3>1, <3>2 DEF t
  <2> QED
    BY <1>1, <1>5, <2>1, <2>2, <2>3
<1>7. ah \o t = a \o b
  <2>1. Len(ah \o t) = Len(a \o b)
    BY <1>1, <1>3, <1>4, <1>5
  <2>2. \A i \in 1 .. Len(a \o b) : (ah \o t)[i] = (a \o b)[i]
    BY <1>4, <1>6
  <2> HIDE DEF ah, t
  <2> DEFINE x == ah \o t
             y == a \o b
  <2>3. x \in Seq(Pieces) /\ y \in Seq(Pieces)
    BY <1>3, <1>4
  <2> HIDE DEF x, y
  <2>4. Len(x) = Len(y) /\ \A i \in 1 .. Len(y) : x[i] = y[i]
    BY <2>1, <2>2 DEF x, y
  <2>5. x = y
    BY <2>3, <2>4, SeqEqual
  <2> QED
    BY <2>5 DEF x, y
<1> QED
  BY <1>1, <1>2, <1>7 DEF ah, t, h

\* What is said of ids is said of each part of the row.
LEMMA WithoutEach ==
  ASSUME NEW a \in Seq(Pieces), NEW b \in Seq(Pieces), NEW c \in Seq(Pieces), NEW T
  PROVE  Without(a \o b \o c, T) <=> Without(a, T) /\ Without(b, T) /\ Without(c, T)
<1> DEFINE s == a \o b \o c
<1>1. /\ s \in Seq(Pieces) /\ Len(s) = Len(a) + Len(b) + Len(c)
      /\ \A i \in 1 .. Len(a) : s[i] = a[i]
      /\ \A i \in 1 .. Len(b) : s[Len(a) + i] = b[i]
      /\ \A i \in 1 .. Len(c) : s[Len(a) + Len(b) + i] = c[i]
  BY InARow
<1> HIDE DEF s
<1>2. /\ DOMAIN s = 1 .. Len(s) /\ DOMAIN a = 1 .. Len(a) /\ DOMAIN b = 1 .. Len(b)
      /\ DOMAIN c = 1 .. Len(c) /\ Len(a) \in Nat /\ Len(b) \in Nat /\ Len(c) \in Nat
  BY <1>1
<1>3. ASSUME Without(s, T) PROVE Without(a, T) /\ Without(b, T) /\ Without(c, T)
  <2>1. \A i \in 1 .. Len(a) : i \in DOMAIN s
    BY <1>1, <1>2
  <2>2. \A i \in 1 .. Len(b) : Len(a) + i \in DOMAIN s
    BY <1>1, <1>2
  <2>3. \A i \in 1 .. Len(c) : Len(a) + Len(b) + i \in DOMAIN s
    BY <1>1, <1>2
  <2> QED
    BY <1>1, <1>2, <1>3, <2>1, <2>2, <2>3 DEF Without
<1>4. ASSUME Without(a, T), Without(b, T), Without(c, T) PROVE Without(s, T)
  <2> SUFFICES ASSUME NEW i \in DOMAIN s PROVE s[i].of.tid \notin T
    BY DEF Without
  <2>1. CASE i \in 1 .. Len(a)
    BY <1>1, <1>2, <1>4, <2>1 DEF Without
  <2>2. CASE i - Len(a) \in 1 .. Len(b)
    <3>1. PICK j \in 1 .. Len(b) : i = Len(a) + j
      BY <1>2, <2>2
    <3> QED
      BY <1>1, <1>2, <1>4, <3>1 DEF Without
  <2>3. CASE i - Len(a) - Len(b) \in 1 .. Len(c)
    <3>1. PICK j \in 1 .. Len(c) : i = Len(a) + Len(b) + j
      BY <1>2, <2>3
    <3> QED
      BY <1>1, <1>2, <1>4, <3>1 DEF Without
  <2> QED
    BY <1>1, <1>2, <2>1, <2>2, <2>3
<1> QED
  BY <1>3, <1>4 DEF s

\* The answer to a request is the only one with its id, and comes last.
LEMMA NewLast ==
  ASSUME NEW s \in Seq(Pieces), NEW q, NEW n \in Replies(q), Without(s, {q.tid})
  PROVE  OwnLast(s \o n, q)
<1>9. /\ n \in Seq(Pieces) /\ Len(n) <= 2
      /\ \A i \in DOMAIN n : /\ n[i].old = FALSE
                             /\ n[i].of.unit = q.unit /\ n[i].of.stamp = q.stamp
                             /\ n[i].of.fc = q.fc /\ n[i].of.qty = q.qty
  BY DEF Replies
<1> DEFINE r == s \o n
<1>1. /\ r \in Seq(Pieces) /\ Len(r) = Len(s) + Len(n)
      /\ \A i \in 1 .. Len(s) : r[i] = s[i]
      /\ \A i \in 1 .. Len(n) : r[Len(s) + i] = n[i]
      /\ Len(s) \in Nat /\ Len(n) \in Nat
  BY <1>9
<1> SUFFICES OwnLast(r, q)
  OBVIOUS
<1> HIDE DEF r
<1> SUFFICES ASSUME NEW i \in DOMAIN r, r[i].of.tid = q.tid
             PROVE  /\ i >= Len(r) - 1 /\ \A j \in i .. Len(r) : r[j].old = FALSE
                    /\ r[i].of.unit = q.unit /\ r[i].of.stamp = q.stamp
                    /\ r[i].of.fc = q.fc /\ r[i].of.qty = q.qty
  BY DEF OwnLast
<1>0. i \in 1 .. Len(s) + Len(n) /\ Len(s) \in Nat /\ Len(n) \in Nat
  BY <1>1
<1>2. ~(i <= Len(s))
  BY <1>0, <1>1 DEF Without
<1>3. PICK j \in 1 .. Len(n) : i = Len(s) + j
  <2>1. PICK l \in Nat, m \in Nat, k \in Int : k = i - Len(s) /\ l = Len(s) /\ m = Len(n)
    BY <1>0
  <2>2. k \in 1 .. m /\ i = l + k
    BY <1>0, <1>2, <2>1
  <2> QED
    BY <2>1, <2>2
<1>4. r[i] = n[j] /\ j \in DOMAIN n
  BY <1>9, <1>1, <1>3
<1>5. i >= Len(r) - 1
  BY <1>9, <1>1, <1>3
<1>6. ASSUME NEW k \in i .. Len(r) PROVE r[k].old = FALSE
  <2>1. PICK m \in 1 .. Len(n) : k = Len(s) + m
    <3>1. PICK l \in Nat, c \in Nat, b \in Int : l = Len(s) /\ c = Len(n) /\ b = k - Len(s)
      <4>1. k \in Int /\ Len(s) \in Int
        BY <1>0, <1>1
      <4>2. k - Len(s) \in Int
        BY <4>1
      <4> QED
        BY <1>0, <4>2
    <3>2. Len(r) = l + c /\ k \in i .. l + c /\ i = l + j /\ j >= 1 /\ j \in Nat
      BY <1>1, <1>3, <3>1
    <3>3. b \in 1 .. c /\ k = l + b
      BY <3>1, <3>2
    <3> QED
      BY <3>1, <3>3
  <2>2. r[k] = n[m] /\ m \in DOMAIN n
    BY <1>9, <1>1, <2>1
  <2> QED
    BY <1>9, <2>2
<1> QED
  BY <1>9, <1>4, <1>5, <1>6

\* Once the answer has been read nothing is left.
LEMMA NothingLeft ==
  ASSUME NEW a \in Seq(Pieces), NEW b \in Seq(Pieces), NEW c \in Seq(Pieces), NEW q,
         OwnLast(a \o b \o c, q), Len(a) > 1, a[1].of.tid = q.tid
  PROVE  /\ Len(a) = 2 /\ b = <<>> /\ c = <<>>
         /\ a[1].of.stamp = q.stamp /\ a[1].of.unit = q.unit
         /\ a[1].of.fc = q.fc /\ a[1].of.qty = q.qty
         /\ \A i \in DOMAIN a : a[i].old = FALSE
<1> DEFINE s == a \o b \o c
<1>1. /\ s \in Seq(Pieces) /\ Len(s) = Len(a) + Len(b) + Len(c)
      /\ \A i \in 1 .. Len(a) : s[i] = a[i]
      /\ Len(a) \in Nat /\ Len(b) \in Nat /\ Len(c) \in Nat /\ OwnLast(s, q)
  BY InARow
<1> HIDE DEF s
<1>2. 1 \in DOMAIN s /\ s[1] = a[1]
  BY <1>1
<1>3. 1 >= Len(s) - 1
  BY <1>1, <1>2 DEF OwnLast
<1>5. /\ a[1].of.stamp = q.stamp /\ a[1].of.unit = q.unit
      /\ a[1].of.fc = q.fc /\ a[1].of.qty = q.qty
  BY <1>1, <1>2 DEF OwnLast
<1>6. \A j \in 1 .. Len(s) : s[j].old = FALSE
  BY <1>1, <1>2 DEF OwnLast
<1>4. Len(a) = 2 /\ Len(b) = 0 /\ Len(c) = 0
  <2>1. PICK l \in Nat, m \in Nat, n \in Nat : l = Len(a) /\ m = Len(b) /\ n = Len(c)
    BY <1>1
  <2>2. 1 >= l + m + n - 1 /\ l > 1
    BY <1>1, <1>3, <2>1
  <2> QED
    BY <2>1, <2>2
<1>7. \A i \in DOMAIN a : a[i].old = FALSE
  BY <1>1, <1>4, <1>6
<1> QED
  BY <1>4, <1>5, <1>7

\* An answer that is cut short comes last all the more.
LEMMA CutShort ==
  ASSUME NEW a \in Seq(Pieces), NEW b \in Seq(Pieces), NEW c \in Seq(Pieces), NEW q,
         OwnLast(a \o b \o c, q)
  PROVE  OwnLast(a \o b \o <<>>, q)
<1> DEFINE s == a \o b
           t == a \o b \o c
           u == a \o b \o <<>>
<1>1. s \in Seq(Pieces) /\ u = s /\ Len(s) \in Nat
  OBVIOUS
<1>2. /\ t \in Seq(Pieces) /\ Len(t) = Len(s) + Len(c) /\ Len(c) \in Nat
      /\ \A i \in 1 .. Len(s) : t[i] = s[i]
  <2> HIDE DEF s
  <2>1. t = s \o c
    BY DEF s
  <2> HIDE DEF t
  <2> QED
    BY <1>1, <2>1
<1>3. OwnLast(t, q)
  OBVIOUS
<1> HIDE DEF s, t, u
<1>4. OwnLast(s, q)
  <2>0. DOMAIN s = 1 .. Len(s)
    BY <1>1
  <2> SUFFICES ASSUME NEW i \in 1 .. Len(s), s[i].of.tid = q.tid
               PROVE  /\ i >= Len(s) - 1 /\ \A j \in i .. Len(s) : s[j].old = FALSE
                      /\ s[i].of.unit = q.unit /\ s[i].of.stamp = q.stamp
                      /\ s[i].of.fc = q.fc /\ s[i].of.qty = q.qty
    BY <2>0 DEF OwnLast
  <2>1. i \in DOMAIN t /\ t[i] = s[i]
    BY <1>1, <1>2
  <2>2. /\ i >= Len(t) - 1 /\ \A j \in i .. Len(t) : t[j].old = FALSE
        /\ t[i].of.unit = q.unit /\ t[i].of.stamp = q.stamp
        /\ t[i].of.fc = q.fc /\ t[i].of.qty = q.qty
    BY <1>3, <2>1 DEF OwnLast
  <2>3. i >= Len(s) - 1
    BY <1>1, <1>2, <2>2
  <2>4. \A j \in i .. Len(s) : j \in i .. Len(t) /\ t[j] = s[j]
    BY <1>1, <1>2
  <2> QED
    BY <2>1, <2>2, <2>3, <2>4
<1> QED
  BY <1>1, <1>4 DEF u

\* What a transaction's start leaves behind is the same but for its mark.
LEMMA Marked ==
  ASSUME NEW s \in Seq(Pieces), NEW m, m = [i \in DOMAIN s |-> [s[i] EXCEPT !.old = TRUE]]
  PROVE  m \in Seq(Pieces) /\ \A T : Without(s, T) => Without(m, T)
<1>1. DOMAIN s = 1 .. Len(s) /\ Len(s) \in Nat
  OBVIOUS
<1>2. \A i \in DOMAIN s : m[i] \in Pieces /\ m[i].of = s[i].of
  <2> TAKE i \in DOMAIN s
  <2>1. s[i] \in Pieces
    BY <1>1
  <2>2. PICK p \in Pieces : p = s[i]
    BY <2>1
  <2>3. m[i] = [p EXCEPT !.old = TRUE]
    BY <2>2
  <2>4. [p EXCEPT !.old = TRUE] \in Pieces /\ [p EXCEPT !.old = TRUE].of = p.of
    BY Pieced
  <2> QED
    BY <2>2, <2>3, <2>4
<1>3. m \in [1 .. Len(s) -> Pieces]
  BY <1>1, <1>2
<1>4. m \in Seq(Pieces) /\ DOMAIN m = DOMAIN s
  BY <1>1, <1>3, SeqDef
<1> QED
  BY <1>2, <1>4 DEF Without

\* What a device sends is of the request it was asked.
LEMMA Reacts ==
  ASSUME NEW q, q.unit \in Uids, q.fc \in {3, 6, 16}, q.qty \in Nat, q.tid \in 0 .. MaxTid,
         q.stamp \in 1 .. LastStamp, NEW x \in {"answered", "refused", "silent"}
  PROVE  Reactions(q)[x] \in Replies(q)
<1>1. ASSUME NEW b \in Answers, b.tid = q.tid, b.unit = q.unit, b.stamp = q.stamp,
             b.fc = q.fc, b.qty = q.qty
      PROVE  Parts(b) \in Replies(q)
  <2>1. PICK n : n = Parts(b)
    OBVIOUS
  <2>2. /\ n \in Seq(Pieces) /\ Len(n) = 2 /\ DOMAIN n = 1 .. 2
        /\ \A i \in 1 .. 2 : n[i].of = b /\ n[i].old = FALSE
    BY <2>1 DEF Parts, Pieces
  <2>3. \A i \in DOMAIN n : n[i].of = b /\ n[i].old = FALSE
    BY <2>2
  <2>4. \A i \in DOMAIN n :
          /\ n[i].old = FALSE
          /\ n[i].of.tid = q.tid /\ n[i].of.unit = q.unit /\ n[i].of.stamp = q.stamp
          /\ n[i].of.fc = q.fc /\ n[i].of.qty = q.qty
    BY <1>1, <2>3
  <2>5. n \in Seq(Pieces) /\ Len(n) <= 2
    BY <2>2
  <2> QED
    BY <2>1, <2>4, <2>5 DEF Replies
<1>2. PICK yes, no :
        /\ yes = [unit |-> q.unit, fc |-> q.fc, qty |-> q.qty, exc |-> FALSE,
                  tid |-> q.tid, stamp |-> q.stamp]
        /\ no = [unit |-> q.unit, fc |-> q.fc, qty |-> q.qty, exc |-> TRUE,
                 tid |-> q.tid, stamp |-> q.stamp]
  OBVIOUS
<1>3. ASSUME NEW b, b = yes \/ b = no
      PROVE  Parts(b) \in Replies(q)
  <2>1. PICK e \in BOOLEAN :
          b = [unit |-> q.unit, fc |-> q.fc, qty |-> q.qty, exc |-> e,
               tid |-> q.tid, stamp |-> q.stamp]
    BY <1>2, <1>3
  <2>2. /\ b \in Answers /\ b.tid = q.tid /\ b.unit = q.unit
        /\ b.stamp = q.stamp /\ b.fc = q.fc /\ b.qty = q.qty
    BY <2>1 DEF Answers
  <2> QED
    BY <1>1, <2>2
<1>4. <<>> \in Replies(q)
  BY DEF Replies
<1>5. Reactions(q) = [silent |-> <<>>, answered |-> Parts(yes), refused |-> Parts(no)]
  BY <1>2 DEF Reactions
<1>6. PICK y, z : y = Parts(yes) /\ z = Parts(no)
  OBVIOUS
<1>7. y \in Replies(q) /\ z \in Replies(q)
  BY <1>3, <1>6
<1> QED
  BY <1>4, <1>5, <1>6, <1>7

\* A reply has the id of its request alone.
LEMMA ReplyWithout ==
  ASSUME NEW q, NEW n \in Replies(q), NEW T, q.tid \notin T
  PROVE  n \in Seq(Pieces) /\ Without(n, T)
BY DEF Replies, Without

\* The stamp of the next request.
LEMMA FreshStamp == Fresh \in 1 .. LastStamp
<1>1. LastStamp \in 1 .. LastStamp
  BY LagAssumption DEF LastStamp
<1> QED
  BY <1>1 DEF Fresh

-----------------------------------------------------------------------------
(* The invariant holds.                                                      *)

LEMMA RowAssociative ==
  ASSUME NEW a \in Seq(Pieces), NEW b \in Seq(Pieces), NEW c \in Seq(Pieces)
  PROVE  (a \o b) \o c = a \o (b \o c)
BY ConcatAssociative

LEMMA WithoutLess ==
  ASSUME NEW s, NEW T, NEW U, U \subseteq T, Without(s, T)
  PROVE  Without(s, U)
BY DEF Without

LEMMA WithoutBoth ==
  ASSUME NEW a \in Seq(Pieces), NEW b \in Seq(Pieces), NEW T, Without(a, T), Without(b, T)
  PROVE  Without(a \o b, T)
<1>1. <<>> \in Seq(Pieces) /\ a \o b \in Seq(Pieces) /\ (a \o b) \o <<>> = a \o b
  BY ConcatEmptySeq, ConcatProperties, EmptySeq
<1>2. Without(<<>>, T)
  BY DEF Without
<1>3. Without(a \o b \o <<>>, T)
  BY <1>1, <1>2, WithoutEach
<1> QED
  BY <1>1, <1>3

LEMMA NoneOldBoth ==
  ASSUME NEW a \in Seq(Pieces), NEW b \in Seq(Pieces), NoneOld(a), NoneOld(b)
  PROVE  NoneOld(a \o b)
<1> DEFINE s == a \o b
<1>1. /\ s \in Seq(Pieces) /\ Len(s) = Len(a) + Len(b) /\ Len(a) \in Nat /\ Len(b) \in Nat
      /\ \A i \in 1 .. Len(s) : s[i] = IF i <= Len(a) THEN a[i] ELSE b[i - Len(a)]
  BY ConcatProperties
<1> HIDE DEF s
<1>2. ASSUME NEW i \in 1 .. Len(s) PROVE s[i].old = FALSE
  <2>1. CASE i <= Len(a)
    <3>1. i \in DOMAIN a /\ s[i] = a[i]
      BY <1>1, <2>1
    <3> QED
      BY <3>1 DEF NoneOld
  <2>2. CASE ~(i <= Len(a))
    <3>1. i - Len(a) \in DOMAIN b /\ s[i] = b[i - Len(a)]
      BY <1>1, <2>2
    <3> QED
      BY <3>1 DEF NoneOld
  <2> QED
    BY <2>1, <2>2
<1>3. DOMAIN s = 1 .. Len(s)
  BY <1>1
<1> QED
  BY <1>2, <1>3 DEF NoneOld, s

\* The first piece moves on, and nothing is old that was not.
LEMMA NoneOldMoved ==
  ASSUME NEW a \in Seq(Pieces), NEW b \in Seq(Pieces), b # <<>>, NoneOld(b)
  PROVE  NoneOld(Tail(b)) /\ (NoneOld(a) => NoneOld(Append(a, Head(b))))
<1>1. /\ Head(b) \in Pieces /\ Head(b) = b[1] /\ Tail(b) \in Seq(Pieces)
      /\ Len(b) \in Nat \ {0} /\ Len(Tail(b)) = Len(b) - 1
      /\ \A i \in 1 .. Len(b) - 1 : Tail(b)[i] = b[i + 1]
  OBVIOUS
<1>2. \A i \in DOMAIN Tail(b) : i + 1 \in DOMAIN b /\ Tail(b)[i] = b[i + 1]
  BY <1>1
<1>3. NoneOld(Tail(b))
  BY <1>2 DEF NoneOld
<1>4. Head(b).old = FALSE
  <2>1. 1 \in DOMAIN b
    BY <1>1
  <2> QED
    BY <1>1, <2>1 DEF NoneOld
<1>5. PICK h \in Pieces : h = Head(b)
  BY <1>1
<1>6. ASSUME NoneOld(a) PROVE NoneOld(Append(a, h))
  <2>1. /\ Append(a, h) \in Seq(Pieces) /\ DOMAIN Append(a, h) = 1 .. Len(a) + 1
        /\ Append(a, h)[Len(a) + 1] = h
        /\ \A i \in 1 .. Len(a) : Append(a, h)[i] = a[i]
        /\ DOMAIN a = 1 .. Len(a) /\ Len(a) \in Nat
    OBVIOUS
  <2> QED
    BY <1>4, <1>5, <1>6, <2>1 DEF NoneOld
<1> QED
  BY <1>3, <1>5, <1>6

LEMMA InitLinkInv == LinkInit => LinkInv
<1> SUFFICES ASSUME LinkInit PROVE LinkInv
  OBVIOUS
<1> USE LagAssumption
<1>1. Types
  BY EmptySeq DEF LinkInit, Types
<1>2. RequestInv /\ OldInv
  BY DEF LinkInit, RequestInv, OldInv, NoneOld
<1>3. IdInv
  BY DEF LinkInit, IdInv
<1> QED
  BY <1>1, <1>2, <1>3 DEF LinkInv

\* What follows from the start of a transaction.
LEMMA StartsTo ==
  ASSUME LinkInv, NEW u \in Uids, NEW r \in Requests, Starts(u, r)
  PROVE  /\ req = NoRequest /\ got = <<>> /\ u \in users /\ open[u] # "closed"
         /\ line' \in Seq(Pieces) /\ tid' \in 0 .. MaxTid
         /\ link = "rtu" => line' = <<>>
         /\ link = "tcp" =>
              /\ Without(got \o line' \o wire, {tid'})
              /\ Without(got \o line' \o wire, Ahead(tid', FailThreshold - fails[u] - 1))
              /\ ~r.counted => Without(got \o line' \o wire, Ahead(tid', FailThreshold - fails[u]))
              /\ \A n \in 0 .. FailThreshold : tid' \notin Ahead(tid', n)
<1>1. /\ link \in {"rtu", "tcp"} /\ got \in Seq(Pieces) /\ line \in Seq(Pieces)
      /\ wire \in Seq(Pieces) /\ tid \in 0 .. MaxTid /\ fails[u] \in 0 .. FailThreshold - 1
      /\ FailThreshold \in Nat
  BY LagAssumption DEF LinkInv, Types
<1>2. /\ req = NoRequest /\ got = <<>> /\ u \in users /\ open[u] # "closed"
      /\ ~r.counted => ~CycleLate
      /\ line' = [i \in DOMAIN Flushed |-> [Flushed[i] EXCEPT !.old = TRUE]]
      /\ tid' = IF link = "tcp" THEN NextTid(tid) ELSE tid
  BY DEF Starts, Allowed, LinkInv, RequestInv
<1>3. Flushed \in Seq(Pieces)
  BY <1>1, EmptySeq DEF Flushed
<1>4. line' \in Seq(Pieces) /\ \A T : Without(Flushed, T) => Without(line', T)
  BY <1>2, <1>3, Marked
<1>5. tid' \in 0 .. MaxTid
  <2>1. 0 \in 0 .. FailThreshold
    BY <1>1
  <2>2. NextTid(tid) \in 1 .. MaxTid
    BY <1>1, <2>1, NextAhead
  <2> QED
    BY <1>1, <1>2, <2>2
<1>6. ASSUME link = "rtu" PROVE line' = <<>>
  <2>1. DOMAIN line' = DOMAIN <<>>
    BY <1>2, <1>6 DEF Flushed
  <2> QED
    BY <1>4, <2>1
<1>7. ASSUME link = "tcp"
      PROVE  /\ Without(got \o line' \o wire, {tid'})
             /\ Without(got \o line' \o wire, Ahead(tid', FailThreshold - fails[u] - 1))
             /\ ~r.counted => Without(got \o line' \o wire, Ahead(tid', FailThreshold - fails[u]))
             /\ \A n \in 0 .. FailThreshold : tid' \notin Ahead(tid', n)
  <2>1. Flushed = line /\ tid' = NextTid(tid)
    BY <1>2, <1>7 DEF Flushed
  <2>2. ASSUME NEW T, Without(Stream, T) PROVE Without(got \o line' \o wire, T)
    <3>1. Without(got, T) /\ Without(line, T) /\ Without(wire, T)
      BY <1>1, <2>2, WithoutEach DEF Stream
    <3> QED
      BY <1>1, <1>4, <2>1, <3>1, WithoutEach
  <2>3. Without(Stream, Ahead(tid, FailThreshold - fails[u]))
    <3>1. Left(u) = FailThreshold - fails[u]
      BY <1>1, <1>2 DEF Left
    <3> QED
      BY <1>2, <1>7, <3>1 DEF LinkInv, IdInv
  <2>4. PICK t \in 0 .. MaxTid, n \in 0 .. FailThreshold :
          t = tid /\ n = FailThreshold - fails[u] - 1 /\ n + 1 = FailThreshold - fails[u]
          /\ n + 1 \in 0 .. FailThreshold
    BY <1>1
  <2>5. /\ NextTid(t) \in Ahead(t, n + 1) /\ Ahead(NextTid(t), n) \subseteq Ahead(t, n + 1)
        /\ Ahead(NextTid(t), n + 1) \subseteq Ahead(t, (n + 1) + 1)
    BY <2>4, NextAhead
  <2>6. {NextTid(t)} \subseteq Ahead(t, n + 1)
    BY <2>5
  <2>7. /\ Without(Stream, {NextTid(t)}) /\ Without(Stream, Ahead(NextTid(t), n))
    BY <2>3, <2>4, <2>5, <2>6, WithoutLess
  <2>8. ASSUME ~r.counted PROVE Without(Stream, Ahead(NextTid(t), n + 1))
    <3>1. Without(Stream, SoonReused)
      BY <1>2, <1>7, <2>8 DEF CycleLate, Unread, Stream, Without
    <3>2. SoonReused = Ahead(t, FailThreshold + 1)
      BY <2>4 DEF SoonReused, Ahead
    <3>3. (n + 1) + 1 \in Nat /\ FailThreshold + 1 \in Nat /\ (n + 1) + 1 <= FailThreshold + 1
      BY <1>1, <2>4
    <3>4. Ahead(t, (n + 1) + 1) \subseteq Ahead(t, FailThreshold + 1)
      BY <3>3, AheadGrows
    <3> QED
      BY <2>5, <3>1, <3>2, <3>4, WithoutLess
  <2>9. \A m \in 0 .. FailThreshold : NextTid(t) \notin Ahead(NextTid(t), m)
    BY NextAhead
  <2> QED
    BY <2>1, <2>2, <2>4, <2>7, <2>8, <2>9
<1> QED
  BY <1>2, <1>4, <1>5, <1>6, <1>7

\* What a verdict makes of the unit.
LEMMA JudgedTo ==
  ASSUME Types, NEW u \in Uids, NEW r, NEW res, Judged(u, r, res), open[u] # "closed"
  PROVE  /\ open' \in [Uids -> {"closed", "probe", "open"}]
         /\ fails' \in [Uids -> 0 .. FailThreshold - 1]
         /\ (open'[u] # "closed" /\ res # "ok")
              => FailThreshold - fails'[u]
                   = FailThreshold - fails[u] - (IF r.counted THEN 1 ELSE 0)
<1>1. /\ open \in [Uids -> {"closed", "probe", "open"}]
      /\ fails \in [Uids -> 0 .. FailThreshold - 1]
      /\ fails[u] \in 0 .. FailThreshold - 1 /\ FailThreshold \in Nat \ {0}
  BY LagAssumption DEF Types
<1>2. CASE r.counted
  <2>1. PICK n : n = Failures(res, fails[u])
    OBVIOUS
  <2>2. n \in Nat /\ (res # "ok" => n = fails[u] + 1)
    BY <1>1, <2>1 DEF Failures
  <2>3. CASE (open[u] = "probe" /\ res # "ok") \/ n >= FailThreshold
    <3>1. /\ open' = [open EXCEPT ![u] = "closed"]
          /\ fails' = [fails EXCEPT ![u] = 0]
      BY <1>2, <2>1, <2>3 DEF Judged
    <3> QED
      BY <1>1, <3>1
  <2>4. CASE ~((open[u] = "probe" /\ res # "ok") \/ n >= FailThreshold)
    <3>1. /\ open' = [open EXCEPT ![u] = "open"]
          /\ fails' = [fails EXCEPT ![u] = n]
      BY <1>2, <2>1, <2>4 DEF Judged
    <3>2. n \in 0 .. FailThreshold - 1
      BY <1>1, <2>2, <2>4
    <3>3. /\ open' \in [Uids -> {"closed", "probe", "open"}]
          /\ fails' \in [Uids -> 0 .. FailThreshold - 1] /\ fails'[u] = n
      BY <1>1, <3>1, <3>2
    <3> QED
      BY <1>1, <1>2, <2>2, <3>2, <3>3
  <2> QED
    BY <2>3, <2>4
<1>3. CASE ~r.counted
  <2>1. open' = open /\ fails' = fails
    BY <1>3 DEF Judged
  <2> QED
    BY <1>1, <1>3, <2>1
<1> QED
  BY <1>2, <1>3

\* The request gets an id that nothing unread has, nor will the next ones have.
LEMMA AskIInv ==
  ASSUME LinkInv, NEW u \in Uids, NEW r \in Requests, NEW x \in {"answered", "refused", "silent"},
         Ask(u, r, x)
  PROVE  LinkInv'
<1>1. /\ link \in {"rtu", "tcp"} /\ got \in Seq(Pieces) /\ wire \in Seq(Pieces)
      /\ fails[u] \in 0 .. FailThreshold - 1 /\ FailThreshold \in Nat
  BY LagAssumption DEF LinkInv, Types
<1>2. /\ Starts(u, r)
      /\ req' = [unit |-> u, fc |-> r.fc, qty |-> r.qty, counted |-> r.counted,
                 tid |-> tid', stamp |-> Fresh]
      /\ wire' = wire \o Reactions(req')[x] /\ ok' = FALSE
      /\ link' = link /\ users' = users /\ open' = open /\ got' = got /\ fails' = fails
  BY DEF Ask
<1>3. /\ req = NoRequest /\ got = <<>> /\ u \in users /\ open[u] # "closed"
      /\ line' \in Seq(Pieces) /\ tid' \in 0 .. MaxTid
      /\ link = "rtu" => line' = <<>>
      /\ link = "tcp" =>
           /\ Without(got \o line' \o wire, {tid'})
           /\ Without(got \o line' \o wire, Ahead(tid', FailThreshold - fails[u] - 1))
           /\ ~r.counted => Without(got \o line' \o wire, Ahead(tid', FailThreshold - fails[u]))
           /\ \A n \in 0 .. FailThreshold : tid' \notin Ahead(tid', n)
  BY <1>2, StartsTo
<1>4. PICK q, t, f, a : q = req' /\ t = tid' /\ f = Fresh /\ a = Reactions(q)[x]
  OBVIOUS
<1>5. /\ q = [unit |-> u, fc |-> r.fc, qty |-> r.qty, counted |-> r.counted,
              tid |-> t, stamp |-> f]
      /\ r \in [fc : {3, 6, 16}, qty : Nat, counted : BOOLEAN]
      /\ t \in 0 .. MaxTid /\ f \in 1 .. LastStamp
  BY <1>2, <1>3, <1>4, FreshStamp, LagAssumption
<1>6. /\ q.unit = u /\ q.fc \in {3, 6, 16} /\ q.qty \in Nat /\ q.tid = t /\ q.stamp = f
      /\ q.counted = r.counted
      /\ q \in [unit : Uids, fc : {3, 6, 16}, qty : Nat, counted : BOOLEAN,
                tid : 0 .. MaxTid, stamp : 1 .. LastStamp]
  BY <1>5
<1>7. req' # NoRequest /\ q # NoRequest
  BY <1>4, <1>6, LagAssumption
<1>8. a \in Replies(q) /\ a \in Seq(Pieces) /\ NoneOld(a)
  <2>1. a \in Replies(q)
    BY <1>4, <1>5, <1>6, Reacts
  <2> QED
    BY <2>1 DEF Replies, NoneOld
<1>9. wire' = wire \o a /\ wire' \in Seq(Pieces)
  BY <1>1, <1>2, <1>4, <1>8, ConcatProperties
<1>10. Types'
  BY <1>2, <1>3, <1>9 DEF LinkInv, Types
<1>11. RequestInv'
  BY <1>2, <1>3, <1>4, <1>6, <1>7 DEF RequestInv
<1>12. OldInv'
  <2>1. NoneOld(wire)
    BY DEF LinkInv, OldInv
  <2>2. NoneOld(wire')
    BY <1>1, <1>8, <1>9, <2>1, NoneOldBoth
  <2>3. link = "rtu" => NoneOld(got') /\ NoneOld(line')
    BY <1>2, <1>3 DEF NoneOld
  <2> QED
    BY <1>2, <2>2, <2>3 DEF OldInv, NoneOld
<1>13. IdInv'
  <2> SUFFICES ASSUME link = "tcp"
               PROVE  /\ \A v \in users \cap Uids :
                           open[v] # "closed" => Without(Stream', Ahead(tid', Left(v)'))
                      /\ OwnLast(Stream', req')
    BY <1>2 DEF IdInv, Without, Ahead, OwnLast, Left
  <2>1. PICK s, l : s = got \o l \o wire /\ l = line'
    OBVIOUS
  <2>2. got \o l \in Seq(Pieces) /\ s \in Seq(Pieces)
    BY <1>1, <1>3, <2>1, ConcatProperties
  <2>3. Stream' = s \o a
    <3>1. Stream' = (got \o l) \o (wire \o a)
      BY <1>2, <1>9, <2>1 DEF Stream
    <3> QED
      <4>1. PICK g, w : g = got \o l /\ w = wire /\ g \in Seq(Pieces) /\ w \in Seq(Pieces)
        BY <1>1, <2>2
      <4>2. (g \o w) \o a = g \o (w \o a)
        BY <1>8, <4>1, RowAssociative
      <4> QED
        BY <2>1, <3>1, <4>1, <4>2
  <2>4. Without(s, {t}) /\ q.tid = t
    BY <1>3, <1>4, <1>6, <2>1
  <2>5. OwnLast(s \o a, q)
    BY <1>8, <2>2, <2>4, NewLast
  <2>6. ASSUME NEW v \in users \cap Uids PROVE Without(Stream', Ahead(tid', Left(v)'))
    <3>1. v = u
      BY <1>3 DEF LinkInv, Types
    <3>2. PICK n : n = FailThreshold - fails[u] - (IF r.counted THEN 1 ELSE 0)
      OBVIOUS
    <3>3. n \in 0 .. FailThreshold /\ Left(v)' = n
      BY <1>1, <1>2, <1>4, <1>6, <1>7, <3>1, <3>2 DEF Left
    <3>4. n = IF r.counted THEN FailThreshold - fails[u] - 1 ELSE FailThreshold - fails[u]
      BY <1>1, <3>2
    <3>5. Without(s, Ahead(t, n))
      BY <1>3, <1>4, <2>1, <3>4
    <3>6. Without(a, Ahead(t, n))
      BY <1>3, <1>4, <1>6, <1>8, <3>3, ReplyWithout
    <3> QED
      BY <1>4, <1>8, <2>2, <2>3, <3>3, <3>5, <3>6, WithoutBoth
  <2> QED
    BY <1>4, <2>3, <2>5, <2>6
<1> QED
  BY <1>10, <1>11, <1>12, <1>13 DEF LinkInv

\* A request that cannot be sent has used up its id, and counts if it is a read.
LEMMA SendFailsIInv ==
  ASSUME LinkInv, NEW u \in Uids, NEW r \in Requests, SendFails(u, r)
  PROVE  LinkInv'
<1>1. /\ got \in Seq(Pieces) /\ wire \in Seq(Pieces) /\ Types
      /\ fails[u] \in 0 .. FailThreshold - 1 /\ FailThreshold \in Nat
  BY LagAssumption DEF LinkInv, Types
<1>2. /\ Starts(u, r) /\ Judged(u, r, "transport")
      /\ link' = link /\ users' = users /\ req' = req /\ got' = got /\ wire' = wire
  BY DEF SendFails
<1>3. /\ req = NoRequest /\ got = <<>> /\ u \in users /\ open[u] # "closed"
      /\ line' \in Seq(Pieces) /\ tid' \in 0 .. MaxTid
      /\ link = "rtu" => line' = <<>>
      /\ link = "tcp" =>
           /\ Without(got \o line' \o wire, Ahead(tid', FailThreshold - fails[u] - 1))
           /\ ~r.counted => Without(got \o line' \o wire, Ahead(tid', FailThreshold - fails[u]))
  BY <1>2, StartsTo
<1>4. /\ open' \in [Uids -> {"closed", "probe", "open"}]
      /\ fails' \in [Uids -> 0 .. FailThreshold - 1]
      /\ open'[u] # "closed"
           => FailThreshold - fails'[u] = FailThreshold - fails[u] - (IF r.counted THEN 1 ELSE 0)
  BY <1>1, <1>2, <1>3, JudgedTo
<1>5. Types'
  BY <1>1, <1>2, <1>3, <1>4 DEF Types
<1>6. RequestInv'
  BY <1>2, <1>3 DEF RequestInv
<1>7. OldInv'
  <2>1. NoneOld(wire)
    BY DEF LinkInv, OldInv
  <2> QED
    BY <1>2, <1>3, <2>1 DEF OldInv, NoneOld
<1>8. IdInv'
  <2> SUFFICES ASSUME link = "tcp", NEW v \in users \cap Uids, open'[v] # "closed"
               PROVE  Without(Stream', Ahead(tid', Left(v)'))
    BY <1>2, <1>3 DEF IdInv
  <2>1. v = u
    BY <1>3 DEF LinkInv, Types
  <2>2. PICK n : n = FailThreshold - fails[u] - (IF r.counted THEN 1 ELSE 0)
    OBVIOUS
  <2>3. n = IF r.counted THEN FailThreshold - fails[u] - 1 ELSE FailThreshold - fails[u]
    BY <1>1, <2>2
  <2>4. Left(v)' = n
    <3>1. fails'[u] \in 0 .. FailThreshold - 1
      BY <1>4
    <3> QED
      BY <1>1, <1>2, <1>3, <1>4, <2>1, <2>2, <3>1 DEF Left
  <2>5. Stream' = got \o line' \o wire
    BY <1>2 DEF Stream
  <2> QED
    BY <1>3, <2>3, <2>4, <2>5
<1> QED
  BY <1>5, <1>6, <1>7, <1>8 DEF LinkInv

\* What is read or arrives only moves.
LEMMA ArriveIInv ==
  ASSUME LinkInv, Arrive
  PROVE  LinkInv'
<1>1. /\ got \in Seq(Pieces) /\ line \in Seq(Pieces) /\ wire \in Seq(Pieces) /\ wire # <<>>
      /\ line' = Append(line, Head(wire)) /\ wire' = Tail(wire)
      /\ link' = link /\ users' = users /\ open' = open /\ tid' = tid /\ req' = req
      /\ got' = got /\ fails' = fails /\ ok' = ok
  BY DEF LinkInv, Types, Arrive
<1>2. line' \in Seq(Pieces) /\ wire' \in Seq(Pieces) /\ line' \o wire' = line \o wire
  BY <1>1, MovedOn
<1>3. Stream' = Stream
  <2>1. (got \o line) \o wire = got \o (line \o wire)
    BY <1>1, RowAssociative
  <2>2. (got \o line') \o wire' = got \o (line' \o wire')
    BY <1>1, <1>2, RowAssociative
  <2> QED
    BY <1>1, <1>2, <2>1, <2>2 DEF Stream
<1>4. Types' /\ RequestInv'
  BY <1>1, <1>2 DEF LinkInv, Types, RequestInv
<1>5. OldInv'
  <2>1. NoneOld(wire') /\ (NoneOld(line) => NoneOld(line'))
    BY <1>1, NoneOldMoved DEF LinkInv, OldInv
  <2> QED
    BY <1>1, <2>1 DEF LinkInv, OldInv, NoneOld
<1>6. IdInv'
  BY <1>1, <1>3 DEF LinkInv, IdInv, Left, Without, OwnLast, Ahead
<1> QED
  BY <1>4, <1>5, <1>6 DEF LinkInv

LEMMA ReadIInv ==
  ASSUME LinkInv, Read
  PROVE  LinkInv'
<1>1. /\ got \in Seq(Pieces) /\ line \in Seq(Pieces) /\ wire \in Seq(Pieces) /\ line # <<>>
      /\ got' = Append(got, Head(line)) /\ line' = Tail(line) /\ req # NoRequest
      /\ link' = link /\ users' = users /\ open' = open /\ tid' = tid /\ req' = req
      /\ wire' = wire /\ fails' = fails /\ ok' = ok
  BY DEF LinkInv, Types, Read
<1>2. got' \in Seq(Pieces) /\ line' \in Seq(Pieces) /\ got' \o line' = got \o line
  BY <1>1, MovedOn
<1>3. Stream' = Stream
  BY <1>1, <1>2 DEF Stream
<1>4. Types' /\ RequestInv'
  BY <1>1, <1>2 DEF LinkInv, Types, RequestInv
<1>5. OldInv'
  <2>1. NoneOld(line) => NoneOld(line') /\ (NoneOld(got) => NoneOld(got'))
    BY <1>1, NoneOldMoved
  <2> QED
    BY <1>1, <2>1 DEF LinkInv, OldInv, NoneOld
<1>6. IdInv'
  BY <1>1, <1>3 DEF LinkInv, IdInv, Left, Without, OwnLast, Ahead
<1> QED
  BY <1>4, <1>5, <1>6 DEF LinkInv

\* Only an RTU line loses anything, and it has no ids.
LEMMA LoseIInv ==
  ASSUME LinkInv, Lose
  PROVE  LinkInv'
<1>1. /\ wire \in Seq(Pieces) /\ wire # <<>> /\ wire' = Tail(wire) /\ link = "rtu"
      /\ link' = link /\ users' = users /\ open' = open /\ tid' = tid /\ req' = req
      /\ got' = got /\ line' = line /\ fails' = fails /\ ok' = ok
  BY DEF LinkInv, Types, Lose
<1>2. wire' \in Seq(Pieces) /\ NoneOld(wire')
  BY <1>1, NoneOldMoved, MovedOn DEF LinkInv, OldInv
<1>3. Types' /\ RequestInv'
  BY <1>1, <1>2 DEF LinkInv, Types, RequestInv
<1>4. OldInv'
  BY <1>1, <1>2 DEF LinkInv, OldInv, NoneOld
<1>5. IdInv'
  BY <1>1 DEF IdInv
<1> QED
  BY <1>3, <1>4, <1>5 DEF LinkInv

\* What a closed connection has not delivered is gone.
LEMMA PeerClosesIInv ==
  ASSUME LinkInv, PeerCloses
  PROVE  LinkInv'
<1>1. /\ got \in Seq(Pieces) /\ line \in Seq(Pieces) /\ wire \in Seq(Pieces)
      /\ wire' = <<>> /\ link' = link /\ users' = users /\ open' = open /\ tid' = tid
      /\ req' = req /\ got' = got /\ line' = line /\ fails' = fails /\ ok' = ok
  BY DEF LinkInv, Types, PeerCloses
<1>2. Types' /\ RequestInv' /\ OldInv'
  BY <1>1, EmptySeq DEF LinkInv, Types, RequestInv, OldInv, NoneOld
<1>3. ASSUME NEW T, Without(Stream, T) PROVE Without(Stream', T)
  <2>1. Without(got, T) /\ Without(line, T)
    BY <1>1, <1>3, WithoutEach DEF Stream
  <2>2. Without(<<>>, T) /\ <<>> \in Seq(Pieces)
    BY DEF Without
  <2>3. Stream' = got \o line \o <<>>
    BY <1>1 DEF Stream
  <2> QED
    BY <1>1, <2>1, <2>2, <2>3, WithoutEach
<1>4. ASSUME NEW q, OwnLast(Stream, q) PROVE OwnLast(Stream', q)
  BY <1>1, <1>4, CutShort DEF Stream
<1>5. IdInv'
  <2> SUFFICES ASSUME link = "tcp"
               PROVE  /\ \A v \in users \cap Uids :
                           open[v] # "closed" => Without(Stream', Ahead(tid, Left(v)'))
                      /\ req # NoRequest => OwnLast(Stream', req)
    BY <1>1 DEF IdInv
  <2>1. \A v \in users \cap Uids : Left(v)' = Left(v)
    BY <1>1 DEF Left
  <2> QED
    BY <1>3, <1>4, <2>1 DEF LinkInv, IdInv
<1> QED
  BY <1>2, <1>5 DEF LinkInv

\* A new connection starts from nothing; a serial line has no ids.
LEMMA ReconnectIInv ==
  ASSUME LinkInv, NEW u \in Uids, Reconnect(u)
  PROVE  LinkInv'
<1>1. /\ Types /\ RequestInv /\ OldInv
      /\ u \in users /\ open[u] = "closed"
      /\ open' = [open EXCEPT ![u] = IF link = "rtu" THEN "probe" ELSE "open"]
      /\ IF link = "tcp" THEN tid' = 0 /\ line' = <<>> /\ wire' = <<>>
         ELSE tid' = tid /\ line' = line /\ wire' = wire
      /\ link' = link /\ users' = users /\ req' = req /\ got' = got /\ fails' = fails
      /\ ok' = ok
  BY DEF LinkInv, Reconnect
<1>2. Types'
  <2>1. open' \in [Uids -> {"closed", "probe", "open"}]
    BY <1>1 DEF Types
  <2>2. tid' \in 0 .. MaxTid /\ line' \in Seq(Pieces) /\ wire' \in Seq(Pieces)
    <3>1. 0 \in 0 .. MaxTid /\ <<>> \in Seq(Pieces)
      BY LagAssumption
    <3>2. tid \in 0 .. MaxTid /\ line \in Seq(Pieces) /\ wire \in Seq(Pieces)
      BY <1>1 DEF Types
    <3> QED
      BY <1>1, <3>1, <3>2
  <2> QED
    BY <1>1, <2>1, <2>2 DEF Types
<1>3. link = "tcp" => req = NoRequest
  BY <1>1 DEF Types, RequestInv
<1>4. RequestInv'
  <2>1. \A v \in Uids : open[v] # "closed" => open'[v] # "closed"
    BY <1>1 DEF Types
  <2> QED
    BY <1>1, <1>3, <2>1 DEF RequestInv
<1>5. OldInv'
  BY <1>1 DEF OldInv, NoneOld
<1>6. IdInv'
  <2> SUFFICES ASSUME link = "tcp"
               PROVE  \A v \in users \cap Uids : Without(Stream', Ahead(tid', Left(v)'))
    BY <1>1, <1>3 DEF IdInv
  <2>1. Stream' = <<>> \o <<>> \o <<>> /\ <<>> \in Seq(Pieces)
    BY <1>1, <1>3 DEF Stream, RequestInv
  <2>2. Stream' = <<>>
    BY <2>1
  <2> QED
    BY <2>2 DEF Without
<1> QED
  BY <1>2, <1>4, <1>5, <1>6 DEF LinkInv

\* The end of a transaction leaves what it has not read, and a failed read one
\* chance less; a success has read all there was.
LEMMA CompleteIInv ==
  ASSUME LinkInv, NEW res, req # NoRequest, Complete(res),
         line' \in Seq(Pieces), \A T : Without(line, T) => Without(line', T),
         link = "rtu" => NoneOld(line'),
         (link = "tcp" /\ res = "ok") => line' = <<>> /\ wire = <<>>
  PROVE  LinkInv'
<1>1. /\ Types /\ RequestInv /\ OldInv /\ IdInv
      /\ req' = NoRequest /\ got' = <<>> /\ Judged(req.unit, req, res)
      /\ link' = link /\ users' = users /\ tid' = tid /\ wire' = wire
  BY DEF LinkInv, Complete
<1>2. PICK q : q = req
  OBVIOUS
<1>3. q.unit \in users \cap Uids /\ open[q.unit] # "closed"
  BY <1>1, <1>2 DEF RequestInv
<1>4. Judged(q.unit, q, res)
  BY <1>1, <1>2 DEF Judged
<1>5. /\ open' \in [Uids -> {"closed", "probe", "open"}]
      /\ fails' \in [Uids -> 0 .. FailThreshold - 1]
      /\ (open'[q.unit] # "closed" /\ res # "ok")
           => FailThreshold - fails'[q.unit]
                = FailThreshold - fails[q.unit] - (IF q.counted THEN 1 ELSE 0)
  <2>1. q.unit \in Uids
    BY <1>3
  <2> QED
    BY <1>1, <1>3, <1>4, <2>1, JudgedTo
<1>6. Types'
  BY <1>1, <1>5, EmptySeq DEF Types
<1>7. RequestInv'
  BY <1>1 DEF RequestInv
<1>8. OldInv'
  BY <1>1 DEF OldInv, NoneOld
<1>9. IdInv'
  <2> SUFFICES ASSUME link = "tcp", NEW v \in users \cap Uids, open'[v] # "closed"
               PROVE  Without(Stream', Ahead(tid', Left(v)'))
    BY <1>1 DEF IdInv
  <2>1. v = q.unit
    BY <1>1, <1>3 DEF Types
  <2>2. CASE res = "ok"
    <3>1. Stream' = <<>> \o <<>> \o <<>>
      BY <1>1, <2>2 DEF Stream
    <3>2. Stream' = <<>>
      BY <3>1
    <3> QED
      BY <3>2 DEF Without
  <2>3. CASE res # "ok"
    <3>1. Left(v)' = Left(v)
      <4>1. fails'[v] \in 0 .. FailThreshold - 1 /\ FailThreshold \in Nat
        BY <1>5, LagAssumption
      <4>2. Left(v)' = FailThreshold - fails'[v]
        BY <1>1, <4>1 DEF Left
      <4> QED
        BY <1>2, <1>5, <2>1, <2>3, <4>2 DEF Left
    <3>2. Without(Stream, Ahead(tid, Left(v)))
      BY <1>1, <1>3, <2>1 DEF IdInv
    <3>3. ASSUME NEW T, Without(Stream, T) PROVE Without(Stream', T)
      <4>1. got \in Seq(Pieces) /\ line \in Seq(Pieces) /\ wire \in Seq(Pieces)
        BY <1>1 DEF Types
      <4>2. Without(line, T) /\ Without(wire, T)
        BY <3>3, <4>1, WithoutEach DEF Stream
      <4>3. Without(<<>>, T) /\ <<>> \in Seq(Pieces)
        BY DEF Without
      <4>4. Without(line', T)
        BY <4>2
      <4>5. Stream' = <<>> \o line' \o wire
        BY <1>1 DEF Stream
      <4> QED
        BY <4>1, <4>2, <4>3, <4>4, <4>5, WithoutEach
    <3> QED
      BY <1>1, <3>1, <3>2, <3>3
  <2> QED
    BY <2>2, <2>3
<1> QED
  BY <1>6, <1>7, <1>8, <1>9 DEF LinkInv

LEMMA TimeoutIInv ==
  ASSUME LinkInv, Timeout
  PROVE  LinkInv'
<1>1. PICK res : Complete(res) /\ res # "ok" /\ req # NoRequest /\ line' = line
  BY DEF Timeout
<1>2. line \in Seq(Pieces) /\ (link = "rtu" => NoneOld(line))
  BY DEF LinkInv, Types, OldInv
<1> QED
  BY <1>1, <1>2, CompleteIInv

\* The TCP client takes only the answer to its request, and it was all there was.
LEMMA TcpTakes ==
  ASSUME LinkInv, req # NoRequest, link = "tcp", ~Missing, JudgeTcp = "ok"
  PROVE  /\ line = <<>> /\ wire = <<>> /\ Len(got) = 2
         /\ got[1].of.stamp = req.stamp /\ got[1].of.unit = req.unit
         /\ got[1].of.fc = req.fc /\ got[1].of.qty = req.qty
         /\ ~got[1].of.exc
         /\ \A i \in DOMAIN got : got[i].old = FALSE
<1>1. Len(got) > 1
  BY DEF Missing
<1>2. got[1].of.tid = req.tid /\ ~got[1].of.exc
  BY DEF JudgeTcp
<1>3. PICK q : q = req
  OBVIOUS
<1>4. /\ got \in Seq(Pieces) /\ line \in Seq(Pieces) /\ wire \in Seq(Pieces)
      /\ OwnLast(got \o line \o wire, q)
  BY <1>3 DEF LinkInv, Types, IdInv, Stream
<1>5. got[1].of.tid = q.tid
  BY <1>2, <1>3
<1>6. /\ Len(got) = 2 /\ line = <<>> /\ wire = <<>>
      /\ got[1].of.stamp = q.stamp /\ got[1].of.unit = q.unit
      /\ got[1].of.fc = q.fc /\ got[1].of.qty = q.qty
      /\ \A i \in DOMAIN got : got[i].old = FALSE
  BY <1>1, <1>4, <1>5, NothingLeft
<1> QED
  BY <1>2, <1>3, <1>6

LEMMA JudgeIInv ==
  ASSUME LinkInv, Judge
  PROVE  LinkInv'
<1>1. PICK res : /\ res = IF link = "rtu" THEN JudgeRtu ELSE JudgeTcp
                 /\ Complete(res) /\ req # NoRequest /\ ~Missing /\ line' = line
  BY DEF Judge
<1>2. line \in Seq(Pieces) /\ (link = "rtu" => NoneOld(line))
  BY DEF LinkInv, Types, OldInv
<1>3. (link = "tcp" /\ res = "ok") => line' = <<>> /\ wire = <<>>
  BY <1>1, TcpTakes
<1> QED
  BY <1>1, <1>2, <1>3, CompleteIInv

LEMMA OutOfStepIInv ==
  ASSUME LinkInv, OutOfStep
  PROVE  LinkInv'
<1>1. /\ Complete("frame") /\ req # NoRequest /\ link = "tcp" /\ line \in Seq(Pieces)
      /\ line' = line \/ (line # <<>> /\ line' = [line EXCEPT ![1].part = 2])
  BY DEF OutOfStep, LinkInv, Types
<1>2. line' \in Seq(Pieces) /\ \A T : Without(line, T) => Without(line', T)
  <2>1. CASE line' = line
    BY <1>1, <2>1
  <2>2. CASE line # <<>> /\ line' = [line EXCEPT ![1].part = 2]
    <3>1. PICK s : s = line
      OBVIOUS
    <3>2. s \in Seq(Pieces) /\ s # <<>> /\ s[1] \in Pieces /\ DOMAIN s = 1 .. Len(s)
      BY <1>1, <2>2, <3>1
    <3>3. PICK p \in Pieces : p = s[1]
      BY <3>2
    <3>4. PICK m : m = [p EXCEPT !.part = 2]
      OBVIOUS
    <3>5. m \in Pieces /\ m.of = p.of
      BY <3>4, Pieced
    <3>6. line' = [s EXCEPT ![1] = m]
      BY <2>2, <3>1, <3>3, <3>4
    <3>7. line' \in Seq(Pieces) /\ DOMAIN line' = DOMAIN s
      BY <3>2, <3>5, <3>6, ExceptSeq
    <3>8. \A i \in DOMAIN s : line'[i].of = s[i].of
      BY <3>2, <3>3, <3>5, <3>6
    <3> QED
      BY <3>1, <3>7, <3>8 DEF Without
  <2> QED
    BY <1>1, <2>1, <2>2
<1> QED
  BY <1>1, <1>2, CompleteIInv

LEMMA NextLinkInv == LinkInv /\ [LinkNext]_linkVars => LinkInv'
<1> SUFFICES ASSUME LinkInv, [LinkNext]_linkVars PROVE LinkInv'
  OBVIOUS
<1>1. CASE \E u \in Uids, x \in {"answered", "refused", "silent"} :
             ReadsOf(u, x) \/ OthersOf(u, x)
  BY <1>1, AskIInv DEF ReadsOf, OthersOf
<1>2. CASE \E u \in Uids, r \in Requests : SendFails(u, r)
  BY <1>2, SendFailsIInv
<1>3. CASE \E u \in Uids : Reconnect(u)
  BY <1>3, ReconnectIInv
<1>4. CASE PeerCloses
  BY <1>4, PeerClosesIInv
<1>5. CASE Arrive
  BY <1>5, ArriveIInv
<1>6. CASE Lose
  BY <1>6, LoseIInv
<1>7. CASE Read
  BY <1>7, ReadIInv
<1>8. CASE Timeout
  BY <1>8, TimeoutIInv
<1>9. CASE Judge
  BY <1>9, JudgeIInv
<1>10. CASE OutOfStep
  BY <1>10, OutOfStepIInv
<1>11. CASE UNCHANGED linkVars
  <2>1. /\ link' = link /\ users' = users /\ open' = open /\ tid' = tid /\ req' = req
        /\ got' = got /\ line' = line /\ wire' = wire /\ fails' = fails /\ ok' = ok
    BY <1>11 DEF linkVars
  <2>2. Types' /\ RequestInv' /\ OldInv'
    BY <2>1 DEF LinkInv, Types, RequestInv, OldInv, NoneOld
  <2>3. IdInv'
    <3>1. Stream' = Stream /\ \A v : Left(v)' = Left(v)
      BY <2>1 DEF Stream, Left
    <3> QED
      BY <2>1, <3>1 DEF LinkInv, IdInv
  <2> QED
    BY <2>2, <2>3 DEF LinkInv
<1> QED
  BY <1>1, <1>2, <1>3, <1>4, <1>5, <1>6, <1>7, <1>8, <1>9, <1>10, <1>11 DEF LinkNext

\* The inductive invariant: at every moment, whatever is still unread on a TCP
\* connection has none of the ids that can be given out before the link is closed,
\* and what has the id of the request under way is its answer and comes last.
THEOREM LinkInvariance == LinkSpec => []LinkInv
BY InitLinkInv, NextLinkInv, PTL DEF LinkSpec

\* Only a verdict ends a transaction well.
LEMMA OkIsJudged ==
  ASSUME LinkInv, [LinkNext]_linkVars, req # NoRequest, ok'
  PROVE  /\ ~Missing /\ Judge
         /\ (IF link = "rtu" THEN JudgeRtu ELSE JudgeTcp) = "ok"
<1>1. ok = FALSE
  BY DEF LinkInv, RequestInv
<1>2. ok' # ok
  BY <1>1
<1>3. ASSUME NEW u \in Uids
      PROVE  /\ \A x \in {"answered", "refused", "silent"} : ~ReadsOf(u, x) /\ ~OthersOf(u, x)
             /\ \A r \in Requests : ~SendFails(u, r)
             /\ ~Reconnect(u)
  BY <1>2 DEF ReadsOf, OthersOf, Ask, SendFails, Starts, Reconnect
<1>4. ~PeerCloses /\ ~Arrive /\ ~Lose /\ ~Read /\ ~(UNCHANGED linkVars)
  BY <1>2 DEF PeerCloses, Arrive, Lose, Read, linkVars
<1>5. ~Timeout /\ ~OutOfStep
  BY DEF Timeout, OutOfStep, Complete
<1>6. Judge
  BY <1>3, <1>4, <1>5 DEF LinkNext
<1> QED
  BY <1>6 DEF Judge, Complete

\* What the RTU client takes: the whole frame, from its first byte to its last.
LEMMA RtuTakes ==
  ASSUME LinkInv, req # NoRequest, link = "rtu", JudgeRtu = "ok"
  PROVE  /\ ~got[1].of.exc /\ got[1].of.unit = req.unit /\ got[1].of.fc = req.fc
         /\ req.fc = 3 => got[1].of.qty = req.qty
         /\ \A i \in DOMAIN got : got[i].old = FALSE
<1>1. /\ ~got[1].of.exc /\ got[1].of.unit = req.unit /\ SameFunction(got[1].of)
  BY DEF JudgeRtu
<1>2. \A i \in DOMAIN got : got[i].old = FALSE
  BY DEF LinkInv, OldInv, NoneOld
<1> QED
  BY <1>1, <1>2 DEF SameFunction

\* A TCP request never gets an id that something still unread has: next_tid only
\* counts, and no earlier id is remembered.
IdsAreFree ==
  [][(link = "tcp" /\ req = NoRequest /\ req' # NoRequest)
       => Without(got \o line' \o wire, {req'.tid})]_linkVars

\* Failed reads close the link before their ids come round; for writes, which do not
\* count, that is the bound CycleLate: no answer is late by a whole cycle of ids.
THEOREM FreeIds == LinkSpec => IdsAreFree
<1>1. LinkInv /\ [LinkNext]_linkVars
        => [(link = "tcp" /\ req = NoRequest /\ req' # NoRequest)
              => Without(got \o line' \o wire, {req'.tid})]_linkVars
  <2> SUFFICES ASSUME LinkInv, [LinkNext]_linkVars, link = "tcp", req = NoRequest, req' # NoRequest
               PROVE  Without(got \o line' \o wire, {req'.tid})
    OBVIOUS
  <2>1. ASSUME NEW u \in Uids, NEW r \in Requests, NEW x \in {"answered", "refused", "silent"},
               Ask(u, r, x)
        PROVE  Without(got \o line' \o wire, {req'.tid})
    <3>1. Starts(u, r) /\ req'.tid = tid'
      BY <2>1 DEF Ask
    <3> QED
      BY <3>1, StartsTo
  <2>2. /\ ~(\E u \in Uids, r \in Requests : SendFails(u, r)) /\ ~(\E u \in Uids : Reconnect(u))
        /\ ~PeerCloses /\ ~Arrive /\ ~Lose /\ ~Read /\ ~Timeout /\ ~Judge /\ ~OutOfStep
        /\ ~(UNCHANGED linkVars)
    BY DEF SendFails, Reconnect, PeerCloses, Arrive, Lose, Read, Timeout, Judge, OutOfStep, linkVars
  <2> QED
    BY <2>1, <2>2 DEF LinkNext, ReadsOf, OthersOf
<1> QED
  BY <1>1, LinkInvariance, PTL DEF LinkSpec, IdsAreFree

\* An accepted answer fits the request, for any number of units and of ids, any
\* threshold and any answers still about: modbus_rtu_transact, recv_response.
THEOREM Accepted == LinkSpec => AcceptedFits
<1>1. LinkInv /\ [LinkNext]_linkVars => [(req # NoRequest /\ ok') => Fits(got[1].of)]_linkVars
  <2> SUFFICES ASSUME LinkInv, [LinkNext]_linkVars, req # NoRequest, ok' PROVE Fits(got[1].of)
    OBVIOUS
  <2>1. /\ ~Missing /\ (IF link = "rtu" THEN JudgeRtu ELSE JudgeTcp) = "ok"
    BY OkIsJudged
  <2>2. CASE link = "rtu"
    BY <2>1, <2>2, RtuTakes DEF Fits
  <2>3. CASE link # "rtu"
    <3>1. link = "tcp"
      BY <2>3 DEF LinkInv, Types
    <3> QED
      BY <2>1, <2>3, <3>1, TcpTakes DEF Fits
  <2> QED
    BY <2>2, <2>3
<1> QED
  BY <1>1, LinkInvariance, PTL DEF LinkSpec, AcceptedFits

\* Nothing that had arrived before the request went out is part of what is taken
\* for its answer: tcflush on RTU, the ids and the count of failures on TCP.
THEOREM NothingOld == LinkSpec => NothingFromBefore
<1>1. LinkInv /\ [LinkNext]_linkVars
        => [(req # NoRequest /\ ok') => \A i \in DOMAIN got : ~got[i].old]_linkVars
  <2> SUFFICES ASSUME LinkInv, [LinkNext]_linkVars, req # NoRequest, ok'
               PROVE  \A i \in DOMAIN got : ~got[i].old
    OBVIOUS
  <2>1. /\ ~Missing /\ (IF link = "rtu" THEN JudgeRtu ELSE JudgeTcp) = "ok"
    BY OkIsJudged
  <2>2. CASE link = "rtu"
    BY <2>1, <2>2, RtuTakes
  <2>3. CASE link # "rtu"
    <3>1. link = "tcp"
      BY <2>3 DEF LinkInv, Types
    <3> QED
      BY <2>1, <2>3, <3>1, TcpTakes
  <2> QED
    BY <2>2, <2>3
<1> QED
  BY <1>1, LinkInvariance, PTL DEF LinkSpec, NothingFromBefore
=============================================================================

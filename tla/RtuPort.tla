------------------------------ MODULE RtuPort -------------------------------
(***************************************************************************)
(* The shared serial ports of src/lib/modbus/modbus_rtu_client.c: contexts *)
(* on one serial path share a registry record with one descriptor, a       *)
(* reference count, a mutex and the memory of the last transaction.  The   *)
(* contexts are driven as unit_connect, unit_disconnect and the poll       *)
(* threads of the two modules drive them.                                  *)
(*                                                                         *)
(* The registry lock and the record's mutex are held for single steps,     *)
(* except that a transaction keeps the record's mutex from before the      *)
(* silence it waits for to its result.                                     *)
(***************************************************************************)
EXTENDS Integers, FiniteSets

CONSTANTS
  Units,      \* the units, each with one context; the unit stands for its unit_id
  NoUnit,
  Paths,
  NoPath,     \* an unused registry record
  PathOf,     \* cfg->path
  BaudOf,     \* cfg->baud_rate
  MaxBuses,   \* MB_RTU_MAX_SHARED_BUSES
  SilenceMs   \* RTU_MIN_BUS_HANDOFF_SILENCE_MS

ASSUME PortAssumption ==
  /\ NoUnit \notin Units
  /\ NoPath \notin Paths
  /\ PathOf \in [Units -> Paths]
  /\ MaxBuses \in Nat \ {0}
  /\ SilenceMs \in Nat \ {0}
  /\ IsFiniteSet(Units)

VARIABLES
  bus,      \* shared_buses: path, fd (0: closed), refcnt, baud, last unit to transact
  busy,     \* the unit inside do_transaction on each record, or NoUnit
  due,      \* the age at which the usleep of the unit in busy is over
  ctx,      \* each context: record it refers to (0: NULL), fd (0: -1), its lock
  pc,       \* where the unit's thread is
  age,      \* whole milliseconds since last_release_time, for paths that units
            \* share; SilenceMs stands for any longer time
  recent,   \* history, for such paths: the unit that transacted last since the
            \* port is open, or NoUnit
  cut       \* history: the units whose usleep before the transaction they are in
            \* was ended early by a signal

vars == <<bus, busy, due, ctx, pc, age, recent, cut>>
timing == <<due, age, cut>>

Records == 1 .. MaxBuses
Closed  == 0
Fds     == 1 .. MaxBuses

RecordsOf(p) == {i \in Records : bus[i].path = p}
IsFirst(i, S) == i \in S /\ \A j \in S : i <= j

\* open() returns a descriptor that no port uses; which one depends on the other
\* files of the process.
FreeFds == Fds \ {bus[i].fd : i \in Records}

Attached(i) == {u \in Units : ctx[u].bus = i /\ ctx[u].fd # Closed}

Rivals(u) == {v \in Units \ {u} : PathOf[v] = PathOf[u]}

Goto(u, l) == pc' = [pc EXCEPT ![u] = l]

-----------------------------------------------------------------------------
(* start_*_modules: contexts zeroed, fd = -1. *)
Init ==
  /\ bus = [i \in Records |-> [path |-> NoPath, fd |-> Closed, refcnt |-> 0,
                               baud |-> 0, last |-> NoUnit]]
  /\ busy = [i \in Records |-> NoUnit]
  /\ due = [i \in Records |-> 0]
  /\ ctx = [u \in Units |-> [bus |-> 0, fd |-> Closed, lock |-> "zeroed"]]
  /\ pc = [u \in Units |-> "idle"]
  /\ age = [p \in Paths |-> SilenceMs]
  /\ recent = [p \in Paths |-> NoUnit]
  /\ cut = {}

\* mb_rtu_client_connect initialises the context and looks its path up in the
\* registry (acquire_shared_bus) ...
ConnectFound(u) ==
  /\ pc[u] = "idle"
  /\ \E i \in Records :
       /\ IsFirst(i, RecordsOf(PathOf[u]))
       /\ ctx' = [ctx EXCEPT ![u] = [bus |-> i, fd |-> Closed, lock |-> "live"]]
  /\ Goto(u, "attach")
  /\ UNCHANGED <<bus, busy, recent, timing>>

ConnectNewRecord(u) ==
  /\ pc[u] = "idle"
  /\ RecordsOf(PathOf[u]) = {}
  /\ \E i \in Records :
       /\ IsFirst(i, RecordsOf(NoPath))
       /\ bus' = [bus EXCEPT ![i] = [path |-> PathOf[u], fd |-> Closed, refcnt |-> 0,
                                     baud |-> 0, last |-> NoUnit]]
       /\ ctx' = [ctx EXCEPT ![u] = [bus |-> i, fd |-> Closed, lock |-> "live"]]
  /\ Goto(u, "attach")
  /\ UNCHANGED <<busy, recent, timing>>

\* ... and fails on a full registry, with ctx->lock destroyed.
NotConnected == [bus |-> 0, fd |-> Closed, lock |-> "destroyed"]

ConnectRegistryFull(u) ==
  /\ pc[u] = "idle"
  /\ RecordsOf(PathOf[u]) = {} /\ RecordsOf(NoPath) = {}
  /\ ctx' = [ctx EXCEPT ![u] = NotConnected]
  /\ UNCHANGED <<bus, busy, pc, recent, timing>>

\* shared_bus_attach_port, under the record's mutex: the first context opens the
\* port ...
Open(u) ==
  LET i == ctx[u].bus
  IN  /\ pc[u] = "attach" /\ busy[i] = NoUnit
      /\ bus[i].fd = Closed
      /\ \E f \in FreeFds :
           /\ bus' = [bus EXCEPT ![i] = [path |-> bus[i].path, fd |-> f, refcnt |-> 1,
                                         baud |-> BaudOf[u], last |-> NoUnit]]
           /\ ctx' = [ctx EXCEPT ![u] = [bus |-> i, fd |-> f, lock |-> "live"]]
      /\ Goto(u, "up")
      /\ UNCHANGED <<busy, recent, timing>>

\* Mutant of Share: the new reference is not counted.
ShareUncounted(u) ==
  LET i == ctx[u].bus
  IN  /\ pc[u] = "attach" /\ busy[i] = NoUnit
      /\ bus[i].fd # Closed
      /\ bus[i].baud = BaudOf[u]
      /\ ctx' = [ctx EXCEPT ![u] = [bus |-> i, fd |-> bus[i].fd, lock |-> "live"]]
      /\ Goto(u, "up")
      /\ UNCHANGED <<bus, busy, recent, timing>>

\* ... a later one shares its descriptor if the baud rates agree ...
Share(u) ==
  LET i == ctx[u].bus
  IN  /\ pc[u] = "attach" /\ busy[i] = NoUnit
      /\ bus[i].fd # Closed
      /\ bus[i].baud = BaudOf[u]
      /\ bus' = [bus EXCEPT ![i] = [path |-> bus[i].path, fd |-> bus[i].fd,
                                    refcnt |-> bus[i].refcnt + 1,
                                    baud |-> bus[i].baud, last |-> bus[i].last]]
      /\ ctx' = [ctx EXCEPT ![u] = [bus |-> i, fd |-> bus[i].fd, lock |-> "live"]]
      /\ Goto(u, "up")
      /\ UNCHANGED <<busy, recent, timing>>

\* Mutant of AttachFails: the caller disconnects after a failed connect too.
AttachFailsDropped(u) ==
  LET i == ctx[u].bus
  IN  /\ pc[u] = "attach" /\ busy[i] = NoUnit
      /\ bus[i].fd = Closed \/ bus[i].baud # BaudOf[u]
      /\ ctx' = [ctx EXCEPT ![u] = NotConnected]
      /\ Goto(u, "drop")
      /\ UNCHANGED <<bus, busy, recent, timing>>

\* ... and a failed open or configure, or a different baud rate, fails the
\* connect.
AttachFails(u) ==
  LET i == ctx[u].bus
  IN  /\ pc[u] = "attach" /\ busy[i] = NoUnit
      /\ bus[i].fd = Closed \/ bus[i].baud # BaudOf[u]
      /\ ctx' = [ctx EXCEPT ![u] = NotConnected]
      /\ Goto(u, "idle")
      /\ UNCHANGED <<bus, busy, recent, timing>>

\* do_transaction locks the record; enforce_bus_handoff_silence then sleeps if the
\* last transaction on the open port was another unit's and not long enough ago.
\* Seconds and nanoseconds are subtracted apart and the nanoseconds truncated toward
\* zero, so the time counted is the whole milliseconds that passed or, when a second
\* began in between, up to one more.
MustWait(i, u) == bus[i].last \notin {NoUnit, u}
Counted(u) == {age[PathOf[u]], age[PathOf[u]] + 1}

Begin(u) ==
  LET i == ctx[u].bus
  IN  /\ pc[u] = "up" /\ busy[i] = NoUnit
      /\ busy' = [busy EXCEPT ![i] = u]
      /\ \E elapsed \in Counted(u) :
           \/ /\ MustWait(i, u) /\ elapsed < SilenceMs
              /\ due' = [due EXCEPT ![i] = age[PathOf[u]] + (SilenceMs - elapsed)]
              /\ Goto(u, "hush")
           \/ /\ ~MustWait(i, u) \/ elapsed >= SilenceMs
              /\ UNCHANGED due
              /\ Goto(u, "wire")
      /\ UNCHANGED <<bus, ctx, age, recent, cut>>

\* The usleep is over ...
Send(u) ==
  /\ pc[u] = "hush" /\ age[PathOf[u]] >= due[ctx[u].bus]
  /\ due' = [due EXCEPT ![ctx[u].bus] = 0]
  /\ Goto(u, "wire")
  /\ UNCHANGED <<bus, busy, ctx, age, recent, cut>>

\* ... or SIGINT or SIGTERM, which the poll threads do not block, ends it early; the
\* result of usleep is not looked at.
Interrupted(u) ==
  /\ pc[u] = "hush"
  /\ due' = [due EXCEPT ![ctx[u].bus] = 0]
  /\ cut' = cut \union {u}
  /\ Goto(u, "wire")
  /\ UNCHANGED <<bus, busy, ctx, age, recent>>

\* What the end of u's transaction leaves behind besides the record.
Ended(u) ==
  /\ IF Rivals(u) = {}
     THEN UNCHANGED <<age, recent>>
     ELSE /\ age' = [age EXCEPT ![PathOf[u]] = 0]
          /\ recent' = [recent EXCEPT ![PathOf[u]] = u]
  /\ cut' = cut \ {u}
  /\ \E l \in {"up", "drop"} : Goto(u, l)
  /\ UNCHANGED <<due, ctx>>

\* Mutant of Finish: only the first transaction since the port was opened is
\* remembered.
FinishFirst(u) ==
  LET i == ctx[u].bus
  IN  /\ pc[u] = "wire"
      /\ busy' = [busy EXCEPT ![i] = NoUnit]
      /\ bus' = [bus EXCEPT ![i].last = IF @ = NoUnit THEN u ELSE @]
      /\ Ended(u)

\* The result, good or bad, ends it and is remembered.  After a good one the unit
\* goes on; after a bad one it may go on, or give up its connection.
Finish(u) ==
  LET i == ctx[u].bus
  IN  /\ pc[u] = "wire"
      /\ busy' = [busy EXCEPT ![i] = NoUnit]
      /\ bus' = [bus EXCEPT ![i] = [path |-> bus[i].path, fd |-> bus[i].fd,
                                    refcnt |-> bus[i].refcnt,
                                    baud |-> bus[i].baud, last |-> u]]
      /\ Ended(u)

\* A millisecond passes on p, in a transaction, in a usleep or between them.
Tick(p) ==
  /\ age[p] < SilenceMs
  /\ age' = [age EXCEPT ![p] = age[p] + 1]
  /\ UNCHANGED <<bus, busy, due, ctx, pc, recent, cut>>

\* Mutant of Detached: the first context that leaves closes the port.
DetachedCloses(i) ==
  [path |-> bus[i].path, refcnt |-> bus[i].refcnt - 1, baud |-> bus[i].baud,
   fd |-> Closed, last |-> NoUnit]

\* shared_bus_detach_port: the last context closes the port.
Detached(i) ==
  LET n == IF bus[i].refcnt > 0 THEN bus[i].refcnt - 1 ELSE 0
  IN  [path |-> bus[i].path, refcnt |-> n, baud |-> bus[i].baud,
       fd   |-> IF n = 0 THEN Closed ELSE bus[i].fd,
       last |-> IF n = 0 /\ bus[i].fd # Closed THEN NoUnit ELSE bus[i].last]

\* mb_rtu_client_disconnect: detach if open, then destroy ctx->lock.  To lock a
\* lock destroyed before is undefined ("misused"); the descriptor is gone then,
\* and the call does nothing else.
AfterDisconnect(lock) == IF lock \in {"destroyed", "misused"} THEN "misused" ELSE "destroyed"

Disconnect(u, l) ==
  LET i == ctx[u].bus
  IN  /\ \/ /\ i # 0 /\ ctx[u].fd # Closed
            /\ busy[i] = NoUnit
            /\ bus' = [bus EXCEPT ![i] = Detached(i)]
            /\ recent' = [recent EXCEPT ![bus[i].path] = IF bus'[i].fd = Closed THEN NoUnit ELSE @]
         \/ /\ i = 0 \/ ctx[u].fd = Closed
            /\ UNCHANGED <<bus, recent>>
      /\ ctx' = [ctx EXCEPT ![u] = [bus |-> i, fd |-> Closed,
                                  lock |-> AfterDisconnect(ctx[u].lock)]]
      /\ Goto(u, l)
      /\ UNCHANGED <<busy, timing>>

\* A failed probe, or error_callback: disconnect, then try again.
Drop(u) == pc[u] = "drop" /\ Disconnect(u, "idle")

\* The thread ends, from the poll loop or from the connect loop, with one more
\* unit_disconnect.
Stop(u) == pc[u] \in {"idle", "up"} /\ Disconnect(u, "done")

AllDone == (\A u \in Units : pc[u] = "done") /\ UNCHANGED vars

Next ==
  \/ \E u \in Units :
       \/ ConnectFound(u) \/ ConnectNewRecord(u) \/ ConnectRegistryFull(u)
       \/ Open(u) \/ Share(u) \/ AttachFails(u)
       \/ Begin(u) \/ Send(u) \/ Interrupted(u) \/ Finish(u) \/ Drop(u) \/ Stop(u)
  \/ \E p \in Paths : Tick(p)
  \/ AllDone

Spec == Init /\ [][Next]_vars

-----------------------------------------------------------------------------
\* The types of the records, the contexts and the threads.
PortTypes ==
  /\ bus \in [Records -> [path : Paths \union {NoPath}, fd : Fds \union {Closed},
                          refcnt : Nat, baud : {BaudOf[u] : u \in Units} \union {0},
                          last : Units \union {NoUnit}]]
  /\ busy \in [Records -> Units \union {NoUnit}]
  /\ ctx \in [Units -> [bus : Records \union {0}, fd : Fds \union {Closed},
                        lock : {"zeroed", "live", "destroyed", "misused"}]]
  /\ pc \in [Units -> {"idle", "attach", "up", "hush", "wire", "drop", "done"}]
  /\ recent \in [Paths -> Units \union {NoUnit}]
TimingTypes ==
  /\ due \in [Records -> 0 .. SilenceMs]
  /\ age \in [Paths -> 0 .. SilenceMs]
  /\ cut \subseteq Units
TypeOK == PortTypes /\ TimingTypes

\* The reference count is exactly the number of contexts that use the port, and
\* the port is open as long as there is one: whichever context leaves first,
\* and however often it leaves.
RefcountExact ==
  \A i \in Records :
    /\ bus[i].refcnt = Cardinality(Attached(i))
    /\ (bus[i].fd # Closed) <=> (bus[i].refcnt > 0)

\* No context keeps a descriptor that was closed, perhaps opened again for
\* another path or at another rate: the one it transacts on is its own path's open
\* port, at the rate it was configured with.
NoStaleDescriptor ==
  \A u \in Units :
    LET port == bus[ctx[u].bus]
    IN  ctx[u].fd # Closed =>
          /\ ctx[u].bus # 0
          /\ port.fd = ctx[u].fd /\ port.path = PathOf[u] /\ port.baud = BaudOf[u]

\* "Minimum bus silence between consecutive transactions from contexts with
\* different unit_id values on the same serial_path", as far as the code keeps it:
\* while the port stays open, a unit transmits after another unit's transaction only
\* when all but one of the milliseconds of the silence have passed, however the two
\* alternate, fail and reconnect; only a signal during the usleep lets it go earlier.
\* (Closing the port forgets who came last.)
HandoffSilence ==
  [][\A u \in Units :
       (pc[u] # "wire" /\ pc'[u] = "wire" /\ u \notin cut')
         => \/ recent[PathOf[u]] \in {NoUnit, u}
            \/ age[PathOf[u]] >= SilenceMs - 1]_vars

\* A thread that connects, fails, drops and connects again never locks a mutex
\* that a failed connect or an earlier disconnect destroyed; the one call that may
\* is the disconnect at the end of the thread.
ReconnectsOnSoundLock ==
  \A u \in Units : ctx[u].lock = "misused" => pc[u] = "done"
=============================================================================

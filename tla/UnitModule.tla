----------------------------- MODULE UnitModule -----------------------------
(***************************************************************************)
(* The device units of src/src/inverter_module.c and src/src/ups_module.c: *)
(* one poll thread per unit, which connects, drains the command queue,     *)
(* scans the register map into the shared pool, and reconnects after a     *)
(* communication loss, together with the subscriber's requests and with    *)
(* the stop sequence of main.c.  RTU units share their bus through         *)
(* bus_coord.c (module BusCoord); each of its calls is a step of its own,  *)
(* so the threads interleave everywhere the code lets them.                *)
(*                                                                         *)
(* A Modbus transaction is one step that succeeds or fails.  A unit's      *)
(* register map is Segments runs of contiguous registers, each one read.   *)
(***************************************************************************)
EXTENDS Integers, FiniteSets

CONSTANTS
  Units,          \* the units of the configuration files
  Configurations, \* which of them are enabled together
  Kind,           \* "inverter" or "ups"
  NoThread, Paths, NoPath, PathOf, MaxBuses,   \* see BusCoord
  Segments,       \* contiguous runs in the register map
  FailThreshold,  \* of each unit: MODBUS_DEFAULT_COMM_FAIL_THRESHOLD
  QueueCapacity,  \* MODBUS_DEFAULT_CMD_QUEUE_CAPACITY
  Requests        \* what the subscriber asks of each unit: "init", "reboot", "write"

ASSUME UnitAssumption ==
  /\ Kind \in [Units -> {"inverter", "ups"}]
  /\ NoThread \notin Units
  /\ NoPath \notin Paths
  /\ PathOf \in [Units -> Paths \union {NoPath}]
  /\ MaxBuses \in Nat \ {0}
  /\ Segments \in Nat \ {0}
  /\ QueueCapacity \in Nat \ {0}

ASSUME ConfigAssumption ==
  /\ Configurations \subseteq SUBSET Units
  /\ FailThreshold \in [Units -> Nat \ {0}]
  /\ Requests \in [Units -> SUBSET {"init", "reboot", "write"}]

VARIABLES
  slot, wait, held,   \* the bus coordinator
  pc,          \* where each thread is
  running,     \* unit->running
  conn,        \* unit->connection_state and its mirror in the pool
  fails,       \* unit->comm_fail_count
  pool,        \* the pool slots of each segment: "zero", "live" or "lost" (0xFFFF)
  initFlag,    \* int_*_init_flag_reg
  initReq, rebootReq,   \* the atomic request flags
  queued,      \* commands waiting in cmd_queue
  seg,         \* segment being read                   \ locals of the thread's
  track,       \* the scan's track_comm_fail argument   | functions, back at their
  ok,          \* result of the last transaction or scan| default when those return
  stage,       \* step of the UPS reboot sequence       /
  main,        \* progress of stop_inverter_modules / stop_ups_modules
  broken       \* history: a read succeeded since the failures in fails began

busVars == <<slot, wait, held>>
dataVars == <<running, conn, fails, pool, initFlag, initReq, rebootReq, queued,
              seg, track, ok, stage, main, broken>>
vars == <<slot, wait, held, pc, running, conn, fails, pool, initFlag, initReq,
          rebootReq, queued, seg, track, ok, stage, main, broken>>

\* One outer level for a scan and one for each read_device_value inside it.
Bus == INSTANCE BusCoord WITH Threads <- Units, MaxDepth <- 2

Segs == 1 .. Segments

Goto(u, l) == pc' = [pc EXCEPT ![u] = l]
Set(f, u, v) == [f EXCEPT ![u] = v]

-----------------------------------------------------------------------------
(* start_*_modules: the enabled units initialised, their threads created. *)
Init ==
  /\ Bus!Init
  /\ \E enabled \in Configurations :
       /\ pc = [u \in Units |-> IF u \in enabled THEN "top" ELSE "done"]
       /\ running = [u \in Units |-> u \in enabled]
  /\ conn = [u \in Units |-> 0]
  /\ fails = [u \in Units |-> 0]
  /\ pool = [u \in Units |-> [s \in Segs |-> "zero"]]
  /\ initFlag = [u \in Units |-> 0]
  /\ initReq = [u \in Units |-> FALSE]
  /\ rebootReq = [u \in Units |-> FALSE]
  /\ queued = [u \in Units |-> 0]
  /\ seg = [u \in Units |-> 1]
  /\ track = [u \in Units |-> FALSE]
  /\ ok = [u \in Units |-> TRUE]
  /\ stage = [u \in Units |-> "restart"]
  /\ main = "run"
  /\ broken = [u \in Units |-> FALSE]

-----------------------------------------------------------------------------
(* bus_coord_acquire and bus_coord_release as the callers place them.        *)

\* Where the thread goes once the acquire at a label has returned.
AfterAcquire ==
  [probe_acq |-> "probe", iseq_acq |-> "iseq_freq", reboot_acq |-> "reboot_io",
   drain_acq |-> "drain_io", scan_acq |-> "seg_acq", seg_acq |-> "seg_io"]

AfterRelease ==
  [probe_fail |-> "probe_close", probe_rel |-> "connected", iseq_rel |-> "iseq_done",
   reboot_rel |-> "reboot_next", drain_rel |-> "scan_start", seg_rel |-> "seg_eval",
   scan_rel |-> "scan_done"]

Acquiring(u) == pc[u] \in DOMAIN AfterAcquire
Advance(u) ==
  pc' = [pc EXCEPT ![u] = IF wait'[u] = "run" THEN AfterAcquire[@] ELSE @]

AcquireBus(u) == Acquiring(u) /\ Bus!Acquire(u) /\ Advance(u) /\ UNCHANGED dataVars
RetryBus(u)   == Acquiring(u) /\ Bus!Retry(u) /\ Advance(u) /\ UNCHANGED dataVars
SpuriousWake(u) == Bus!SpuriousWake(u) /\ UNCHANGED <<pc, dataVars>>

ReleaseBus(u) ==
  /\ pc[u] \in DOMAIN AfterRelease
  /\ Bus!Release(u)
  /\ Goto(u, AfterRelease[pc[u]])
  /\ UNCHANGED dataVars

-----------------------------------------------------------------------------
(* The poll thread: connecting.                                              *)

\* The while (unit->running) of inverter_thread / ups_thread.
Top(u) ==
  /\ pc[u] = "top"
  /\ Goto(u, IF running[u] THEN "connect" ELSE "exit")
  /\ UNCHANGED <<busVars, dataVars>>

\* unit_connect opens the transport; a TCP unit is then connected, an RTU unit
\* goes on to probe its device under the bus.
Connect(u) ==
  /\ pc[u] = "connect"
  /\ \/ Goto(u, "retry")
     \/ Goto(u, IF PathOf[u] = NoPath THEN "connected" ELSE "probe_acq")
  /\ UNCHANGED <<busVars, dataVars>>

\* A read of the device succeeds or fails.
Read(u, good) == broken' = Set(broken, u, broken[u] \/ (good /\ fails[u] > 0))

\* comm_fail_count = 0.
ResetFails(u) == fails' = Set(fails, u, 0) /\ broken' = Set(broken, u, FALSE)

Probe(u) ==
  /\ pc[u] = "probe"
  /\ \E good \in BOOLEAN :
       /\ Read(u, good)
       /\ Goto(u, IF ~good THEN "probe_fail"
                  ELSE IF Kind[u] = "inverter" THEN "init_reg" ELSE "probe_rel")
  /\ UNCHANGED <<busVars, running, conn, fails, pool, initFlag, initReq, rebootReq,
                 queued, seg, track, ok, stage, main>>

\* init_inverter_reg: sixteen writes under the bus, whose failures are ignored.
InitInverterReg(u) ==
  /\ pc[u] = "init_reg"
  /\ Goto(u, "probe_rel")
  /\ UNCHANGED <<busVars, dataVars>>

\* The probe failed: after the release the port is closed again.
ProbeClose(u) ==
  /\ pc[u] = "probe_close"
  /\ Goto(u, "retry")
  /\ UNCHANGED <<busVars, dataVars>>

\* The end of init_callback.
Connected(u) ==
  /\ pc[u] = "connected"
  /\ ResetFails(u)
  /\ conn' = Set(conn, u, 1)
  /\ Goto(u, "loop")
  /\ UNCHANGED <<busVars, running, pool, initFlag, initReq, rebootReq, queued, seg,
                 track, ok, stage, main>>

-----------------------------------------------------------------------------
(* process_callback: init request, reboot request, queue, scan.              *)

\* Mutant of Loop: the poll loop does not look at the running flag.
LoopForever(u) ==
  /\ pc[u] = "loop"
  /\ Goto(u, "init_check")
  /\ UNCHANGED <<busVars, dataVars>>

Loop(u) ==
  /\ pc[u] = "loop"
  /\ Goto(u, IF running[u] THEN "init_check" ELSE "exit")
  /\ UNCHANGED <<busVars, dataVars>>

\* Mutant of InitCheck: the request is read and not taken.
InitCheckKeeps(u) ==
  /\ pc[u] = "init_check"
  /\ initFlag' = IF initReq[u] THEN Set(initFlag, u, 0) ELSE initFlag
  /\ Goto(u, IF ~initReq[u] THEN "reboot_check"
             ELSE IF Kind[u] = "inverter" THEN "iseq_acq" ELSE "scan_acq")
  /\ UNCHANGED <<busVars, running, conn, fails, pool, initReq, rebootReq, queued, seg,
                 track, ok, stage, main, broken>>

\* atomic_exchange(&init_requested, false), and run_init_sequence: the flag goes
\* to 0, then an inverter is written to and a UPS is scanned.
InitCheck(u) ==
  /\ pc[u] = "init_check"
  /\ initReq' = Set(initReq, u, FALSE)
  /\ initFlag' = IF initReq[u] THEN Set(initFlag, u, 0) ELSE initFlag
  /\ Goto(u, IF ~initReq[u] THEN "reboot_check"
             ELSE IF Kind[u] = "inverter" THEN "iseq_acq" ELSE "scan_acq")
  /\ UNCHANGED <<busVars, running, conn, fails, pool, rebootReq, queued, seg, track,
                 ok, stage, main, broken>>

\* The two writes of the inverter's init sequence; the second is skipped when
\* the first fails.
InitWrite(u) ==
  /\ pc[u] \in {"iseq_freq", "iseq_op"}
  /\ \E good \in BOOLEAN :
       /\ ok' = Set(ok, u, good)
       /\ Goto(u, IF good /\ pc[u] = "iseq_freq" THEN "iseq_op" ELSE "iseq_rel")
  /\ UNCHANGED <<busVars, running, conn, fails, pool, initFlag, initReq, rebootReq,
                 queued, seg, track, stage, main, broken>>

InitDone(u) ==
  /\ pc[u] = "iseq_done"
  /\ initFlag' = IF ok[u] THEN Set(initFlag, u, 1) ELSE initFlag
  /\ ok' = Set(ok, u, TRUE)
  /\ Goto(u, "reboot_check")
  /\ UNCHANGED <<busVars, running, conn, fails, pool, initReq, rebootReq, queued,
                 seg, track, stage, main, broken>>

\* atomic_exchange(&reboot_requested, false); the inverter has no such request.
RebootCheck(u) ==
  /\ pc[u] = "reboot_check"
  /\ rebootReq' = Set(rebootReq, u, FALSE)
  /\ Goto(u, IF rebootReq[u] THEN "reboot_acq" ELSE "drain_check")
  /\ UNCHANGED <<busVars, running, conn, fails, pool, initFlag, initReq, queued, seg,
                 track, ok, stage, main, broken>>

\* run_reboot_sequence: restart written, read back, shutdown written, read back,
\* each with its own acquire and release of the bus.
StageAfter == [restart |-> "restart_verify", restart_verify |-> "shutdown",
               shutdown |-> "shutdown_verify"]

RebootIO(u) ==
  /\ pc[u] = "reboot_io"
  /\ \E good \in BOOLEAN :
       /\ ok' = Set(ok, u, good)
       /\ IF stage[u] \in {"restart_verify", "shutdown_verify"}
          THEN \E answered \in {good, TRUE} : Read(u, answered)
          ELSE UNCHANGED broken
  /\ Goto(u, "reboot_rel")
  /\ UNCHANGED <<busVars, running, conn, fails, pool, initFlag, initReq, rebootReq,
                 queued, seg, track, stage, main>>

\* A step that failed, in the write, in the read or in the verify bit, ends the
\* sequence.
RebootNext(u) ==
  /\ pc[u] = "reboot_next"
  /\ IF ok[u] /\ stage[u] \in DOMAIN StageAfter
     THEN stage' = Set(stage, u, StageAfter[stage[u]]) /\ Goto(u, "reboot_acq")
     ELSE stage' = Set(stage, u, "restart") /\ Goto(u, "drain_check")
  /\ ok' = Set(ok, u, TRUE)
  /\ UNCHANGED <<busVars, running, conn, fails, pool, initFlag, initReq, rebootReq,
                 queued, seg, track, main, broken>>

\* Mutant of DrainCheck: the first command is written without the bus.
DrainCheckNoBus(u) ==
  /\ pc[u] = "drain_check"
  /\ \/ /\ queued[u] = 0
        /\ Goto(u, "scan_start")
        /\ UNCHANGED queued
     \/ /\ queued[u] > 0
        /\ queued' = Set(queued, u, queued[u] - 1)
        /\ Goto(u, "drain_io")
  /\ UNCHANGED <<busVars, running, conn, fails, pool, initFlag, initReq, rebootReq,
                 seg, track, ok, stage, main, broken>>

\* The first queue_pop is made without the bus; the later ones follow a write
\* under it.  A failed write is only logged.
DrainCheck(u) ==
  /\ pc[u] = "drain_check"
  /\ \/ /\ queued[u] = 0
        /\ Goto(u, "scan_start")
        /\ UNCHANGED queued
     \/ /\ queued[u] > 0
        /\ queued' = Set(queued, u, queued[u] - 1)
        /\ Goto(u, "drain_acq")
  /\ UNCHANGED <<busVars, running, conn, fails, pool, initFlag, initReq, rebootReq,
                 seg, track, ok, stage, main, broken>>

DrainWrite(u) ==
  /\ pc[u] = "drain_io"
  /\ \/ /\ queued[u] = 0
        /\ Goto(u, "drain_rel")
        /\ UNCHANGED queued
     \/ /\ queued[u] > 0
        /\ queued' = Set(queued, u, queued[u] - 1)
        /\ UNCHANGED pc
  /\ UNCHANGED <<busVars, running, conn, fails, pool, initFlag, initReq, rebootReq,
                 seg, track, ok, stage, main, broken>>

-----------------------------------------------------------------------------
(* read_profile_to_pool.                                                     *)

\* Mutant of ScanStart: the scan takes the bus for each read only.
ScanStartNoBus(u) ==
  /\ pc[u] = "scan_start"
  /\ track' = Set(track, u, TRUE)
  /\ Goto(u, "seg_acq")
  /\ UNCHANGED <<busVars, running, conn, fails, pool, initFlag, initReq, rebootReq,
                 queued, seg, ok, stage, main, broken>>

ScanStart(u) ==
  /\ pc[u] = "scan_start"
  /\ track' = Set(track, u, TRUE)
  /\ Goto(u, "scan_acq")
  /\ UNCHANGED <<busVars, running, conn, fails, pool, initFlag, initReq, rebootReq,
                 queued, seg, ok, stage, main, broken>>

ReadSegment(u) ==
  /\ pc[u] = "seg_io"
  /\ \E good \in BOOLEAN : Read(u, good) /\ ok' = Set(ok, u, good)
  /\ Goto(u, "seg_rel")
  /\ UNCHANGED <<busVars, running, conn, fails, pool, initFlag, initReq, rebootReq,
                 queued, seg, track, stage, main>>

\* On to the next segment; after the last the scan ends with rc = 0.
NextSegment(u) ==
  /\ IF seg[u] < Segments
     THEN seg' = Set(seg, u, seg[u] + 1) /\ Goto(u, "seg_acq")
     ELSE UNCHANGED seg /\ Goto(u, "scan_rel")
  /\ ok' = Set(ok, u, TRUE)

\* Mutant of SegmentRead: a good read does not reset the failure count.
SegmentReadNoReset(u) ==
  /\ pc[u] = "seg_eval" /\ ok[u]
  /\ pool' = [pool EXCEPT ![u][seg[u]] = "live"]
  /\ NextSegment(u)
  /\ UNCHANGED <<busVars, running, conn, fails, broken, initFlag, initReq, rebootReq,
                 queued, track, stage, main>>

\* device_map_read_to_pool, after the failure count was reset by a tracked read.
SegmentRead(u) ==
  /\ pc[u] = "seg_eval" /\ ok[u]
  /\ IF track[u] THEN ResetFails(u) ELSE UNCHANGED <<fails, broken>>
  /\ pool' = [pool EXCEPT ![u][seg[u]] = "live"]
  /\ NextSegment(u)
  /\ UNCHANGED <<busVars, running, conn, initFlag, initReq, rebootReq, queued, track,
                 stage, main>>

\* Mutant of SegmentFailedUntracked: the early return forgets the bus.
SegmentFailedLeaks(u) ==
  /\ pc[u] = "seg_eval" /\ ~ok[u] /\ ~track[u]
  /\ Goto(u, "scan_done")
  /\ UNCHANGED <<busVars, dataVars>>

\* A failed segment: an untracked scan (a UPS's init sequence) ends ...
SegmentFailedUntracked(u) ==
  /\ pc[u] = "seg_eval" /\ ~ok[u] /\ ~track[u]
  /\ Goto(u, "scan_rel")
  /\ UNCHANGED <<busVars, dataVars>>

\* Mutant of SegmentFailed: only the segment that failed last is marked.
SegmentFailedMarksOne(u) ==
  /\ pc[u] = "seg_eval" /\ ~ok[u] /\ track[u]
  /\ fails' = Set(fails, u, fails[u] + 1)
  /\ IF fails[u] + 1 >= FailThreshold[u]
     THEN /\ pool' = [pool EXCEPT ![u][seg[u]] = "lost"]
          /\ Goto(u, "scan_rel")
          /\ UNCHANGED <<seg, ok>>
     ELSE NextSegment(u) /\ UNCHANGED pool
  /\ UNCHANGED <<busVars, running, conn, initFlag, initReq, rebootReq, queued, track,
                 stage, main, broken>>

\* ... a tracked one counts the failure and goes on, until the threshold: then
\* every slot of the profile becomes 0xFFFF and the scan ends.
SegmentFailed(u) ==
  /\ pc[u] = "seg_eval" /\ ~ok[u] /\ track[u]
  /\ fails' = Set(fails, u, fails[u] + 1)
  /\ IF fails[u] + 1 >= FailThreshold[u]
     THEN /\ pool' = Set(pool, u, [s \in Segs |-> "lost"])
          /\ Goto(u, "scan_rel")
          /\ UNCHANGED <<seg, ok>>
     ELSE NextSegment(u) /\ UNCHANGED pool
  /\ UNCHANGED <<busVars, running, conn, initFlag, initReq, rebootReq, queued, track,
                 stage, main, broken>>

\* The scan returned: to the init sequence, to error_callback or to the pause of
\* the poll cycle.
ScanDone(u) ==
  /\ pc[u] = "scan_done"
  /\ Goto(u, IF ~track[u] THEN "iseq_done" ELSE IF ok[u] THEN "pause" ELSE "error")
  /\ track' = Set(track, u, FALSE)
  /\ seg' = Set(seg, u, 1)
  /\ UNCHANGED <<busVars, running, conn, fails, pool, initFlag, initReq, rebootReq,
                 queued, ok, stage, main, broken>>

-----------------------------------------------------------------------------
(* Pauses, error_callback and the end of the thread.                         *)

\* usleep after a scan; interruptible_sleep_ms before a reconnect.
Pause(u) ==
  /\ pc[u] \in {"pause", "retry"}
  /\ Goto(u, IF pc[u] = "pause" THEN "loop" ELSE "top")
  /\ UNCHANGED <<busVars, dataVars>>

ErrorCallback(u) ==
  /\ pc[u] = "error"
  /\ ResetFails(u)
  /\ conn' = Set(conn, u, 0)
  /\ ok' = Set(ok, u, TRUE)
  /\ Goto(u, "retry")
  /\ UNCHANGED <<busVars, running, pool, initFlag, initReq, rebootReq, queued, seg,
                 track, stage, main>>

\* unit_disconnect; the connection state in the pool is left as it is.
Exit(u) ==
  /\ pc[u] = "exit"
  /\ Goto(u, "done")
  /\ UNCHANGED <<busVars, dataVars>>

Thread(u) ==
  \/ AcquireBus(u) \/ RetryBus(u) \/ ReleaseBus(u)
  \/ Top(u) \/ Connect(u) \/ Probe(u) \/ InitInverterReg(u) \/ ProbeClose(u) \/ Connected(u)
  \/ Loop(u) \/ InitCheck(u) \/ InitWrite(u) \/ InitDone(u)
  \/ RebootCheck(u) \/ RebootIO(u) \/ RebootNext(u)
  \/ DrainCheck(u) \/ DrainWrite(u)
  \/ ScanStart(u) \/ ReadSegment(u) \/ SegmentRead(u)
  \/ SegmentFailedUntracked(u) \/ SegmentFailed(u) \/ ScanDone(u)
  \/ Pause(u) \/ ErrorCallback(u) \/ Exit(u)

-----------------------------------------------------------------------------
(* The subscriber thread of the unit's family, alive until the family is     *)
(* stopped, and the main thread.                                             *)

Subscribed(u, r) == running[u] /\ r \in Requests[u]

\* inverter_init_request / ups_init_request.
InitRequest(u) ==
  /\ Subscribed(u, "init")
  /\ initReq' = Set(initReq, u, TRUE)
  /\ UNCHANGED <<busVars, pc, running, conn, fails, pool, initFlag, rebootReq, queued,
                 seg, track, ok, stage, main, broken>>

RebootRequest(u) ==
  /\ Subscribed(u, "reboot") /\ Kind[u] = "ups"
  /\ rebootReq' = Set(rebootReq, u, TRUE)
  /\ UNCHANGED <<busVars, pc, running, conn, fails, pool, initFlag, initReq, queued,
                 seg, track, ok, stage, main, broken>>

\* inverter_cmd_push; nothing pushes to a UPS, whose profile is read-only.
CmdPush(u) ==
  /\ Subscribed(u, "write") /\ Kind[u] = "inverter"
  /\ queued[u] < QueueCapacity
  /\ queued' = Set(queued, u, queued[u] + 1)
  /\ UNCHANGED <<busVars, pc, running, conn, fails, pool, initFlag, initReq, rebootReq,
                 seg, track, ok, stage, main, broken>>

\* stop_inverter_modules, then stop_ups_modules: clear the running flags of the
\* family, then join its threads.
StopFamily(k, from, to) ==
  /\ main = from
  /\ main' = to
  /\ running' = [u \in Units |-> running[u] /\ Kind[u] # k]
  /\ UNCHANGED <<busVars, pc, conn, fails, pool, initFlag, initReq, rebootReq, queued,
                 seg, track, ok, stage, broken>>

JoinFamily(k, from, to) ==
  /\ main = from
  /\ \A u \in Units : Kind[u] = k => pc[u] = "done"
  /\ main' = to
  /\ UNCHANGED <<busVars, pc, running, conn, fails, pool, initFlag, initReq, rebootReq,
                 queued, seg, track, ok, stage, broken>>

Shutdown == StopFamily("inverter", "run", "join_inverter")
Main ==
  \/ JoinFamily("inverter", "join_inverter", "stop_ups")
  \/ StopFamily("ups", "stop_ups", "join_ups")
  \/ JoinFamily("ups", "join_ups", "end")

\* Everything is joined and nothing is left to do.
Terminated == main = "end" /\ UNCHANGED vars

Next ==
  \/ \E u \in Units : Thread(u) \/ SpuriousWake(u)
  \/ \E u \in Units : InitRequest(u) \/ RebootRequest(u) \/ CmdPush(u)
  \/ Shutdown \/ Main \/ Terminated

\* A thread keeps running.  A thread that waits for the bus gets it if the bus
\* is free again and again: every holder sleeps 200 ms or 5 s off the bus in each
\* round, which is ample for a woken waiter to take g_lock.
GetBus(u) == (AcquireBus(u) \/ RetryBus(u)) /\ wait'[u] = "run"
Fairness ==
  /\ \A u \in Units : WF_vars(Thread(u)) /\ SF_vars(GetBus(u))
  /\ WF_vars(Main)

Spec == Init /\ [][Next]_vars /\ Fairness

-----------------------------------------------------------------------------
Labels ==
  DOMAIN AfterAcquire \union DOMAIN AfterRelease \union
  {"top", "connect", "probe", "init_reg", "probe_close", "connected", "loop",
   "init_check", "iseq_freq", "iseq_op", "iseq_done", "reboot_check", "reboot_io",
   "reboot_next", "drain_check", "drain_io", "scan_start", "seg_io", "seg_eval",
   "scan_done", "pause", "retry", "error", "exit", "done"}

\* The types of the thread's fields, the pool and the requests.
DataTypes ==
  /\ pc \in [Units -> Labels]
  /\ running \in [Units -> BOOLEAN] /\ conn \in [Units -> {0, 1}]
  /\ fails \in [Units -> Nat]
  /\ pool \in [Units -> [Segs -> {"zero", "live", "lost"}]]
  /\ initFlag \in [Units -> {0, 1}]
  /\ initReq \in [Units -> BOOLEAN] /\ rebootReq \in [Units -> BOOLEAN]
  /\ queued \in [Units -> 0 .. QueueCapacity]
  /\ seg \in [Units -> Segs] /\ track \in [Units -> BOOLEAN] /\ ok \in [Units -> BOOLEAN]
  /\ stage \in [Units -> {"restart", "restart_verify", "shutdown", "shutdown_verify"}]
  /\ main \in {"run", "join_inverter", "stop_ups", "join_ups", "end"}
  /\ broken \in [Units -> BOOLEAN]
TypeOK == Bus!TypeOK /\ DataTypes

OnWire(u) == pc[u] \in {"probe", "init_reg", "iseq_freq", "iseq_op", "reboot_io",
                        "drain_io", "seg_io"}
Scanning(u) == pc[u] \in {"seg_acq", "seg_io", "seg_rel", "seg_eval", "scan_rel"}
Share(u, v) == u # v /\ PathOf[u] = PathOf[v] /\ PathOf[u] # NoPath

\* "Hold the bus for the whole scan so other units cannot interleave": while one
\* unit is anywhere in a scan, no other unit on its path is in a transaction.
ScanUninterrupted ==
  \A u, v \in Units : (Share(u, v) /\ Scanning(u)) => ~OnWire(v)

\* Two units on one path are never both in a Modbus transaction: every caller of
\* the *_locked helpers took the bus first.
WireExclusive ==
  \A u, v \in Units : (Share(u, v) /\ OnWire(u)) => ~OnWire(v)

\* No early return leaks the bus: between its operations, in its pauses and when
\* it ends, a thread holds nothing.
BusFreeAtRest ==
  \A u \in Units :
    pc[u] \in {"top", "connect", "connected", "probe_close", "loop", "init_check",
               "iseq_done", "reboot_check", "reboot_next", "drain_check", "scan_start",
               "scan_done", "pause", "retry", "error", "exit", "done"}
      => held[u] = 0

\* Comm loss marker: a unit whose connection status reads disconnected has no
\* register left in the pool that looks like a live reading.
OfflineHasNoLiveData ==
  \A u \in Units : conn[u] = 0 => \A s \in Segs : pool[u][s] # "live"

\* "Consecutive read failures before marking pool slots as 0xFFFF": the pool of an
\* inverter is marked lost only when no read of the device succeeded since the first
\* of the FailThreshold failures that comm_fail_count has counted.
LossOnlyAfterConsecutiveFailures ==
  [][\A u \in Units :
       (Kind[u] = "inverter" /\ pool'[u] # pool[u] /\ \A s \in Segs : pool'[u][s] = "lost")
         => ~broken[u]]_vars

\* Unless commands keep coming for ever, a request made to a connected unit is
\* taken up, or the link is lost or the daemon stops first.
InitRequestServed ==
  (<>[][\A u \in Units : ~CmdPush(u)]_vars)
    => \A u \in Units :
         (initReq[u] /\ conn[u] = 1) ~> (~initReq[u] \/ conn[u] = 0 \/ ~running[u])

\* Once main has begun to stop, every thread ends and is joined, whatever it was
\* doing and whoever holds the bus.
ShutdownCompletes == (main # "run") ~> (main = "end")
=============================================================================

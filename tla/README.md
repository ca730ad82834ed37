# CM_LFB_RS485: TLA+ models and proofs

The daemon polls an inverter and a UPS over Modbus (RTU on a shared RS-485 line,
or TCP), keeps their registers in a pool shared with two publisher processes,
takes commands from the CMOS message bus and evaluates alarms. This directory
models the daemon from the configuration file and the wire up to what it
publishes, checks the models with TLC, and proves the safety properties of ten
of its components with TLAPS for every value of their constants.

## The system

| Component | State | Operations | Talks to |
|---|---|---|---|
| bus coordinator, `src/bus_coord.c` | 8 slots: path, depth, owner, condition | init, acquire (reentrant, blocking), release | poll threads, under one mutex |
| command queue, `*_module.c` | ring of write commands, head, tail, count | push (merging), pop | subscriber thread pushes, poll thread pops |
| poll threads, `*_module.c` | running flag, connection state, failure count, request flags | connect and probe, init sequence, reboot sequence, drain, scan, reconnect, stop | coordinator, queue, Modbus clients, pool |
| RTU client, `lib/modbus/modbus_rtu_client.c` | registry of shared ports: fd, reference count, baud, last transaction | connect, disconnect, transaction | poll threads, under one mutex per port |
| TCP client, `lib/modbus/modbus_tcp_client.c` | socket, transaction id | connect, request | poll threads |
| register map, `lib/device_map`, `devices/` | pool in shared memory, registered profiles | register, read, write, lookup | everyone |
| bridges, `src/*_cmos_bridge.c` | subscriber thread, publisher process | command handlers, conversions, publishing | queue, request flags, pool |
| alarms, `lib/alarm`, `src/alarm_manager.c`, `src/*_alarm.c` | per entry: active flag, previous value; database slots; rows | register, evaluate, log, stop | pool, SQLite |
| process, `src/main.c` | child pids, `g_running` | start, serve, stop, signals | all of the above |
| configuration, `src/config_loader.c` | global configuration | load, validate | read once at start |
| message bus, `lib/cmos` | master connection, table of publisher connections | look up, connect, spin, publish | bridges, the CMOS master |

What is hard here: two units on one line with nested acquires and early returns;
requests and commands that arrive while a unit waits, scans or reconnects; ports
opened and closed under one another; failures counted over several scans; a
stop, or a signal, at any of these points; publishers that are separate
processes; answers that come after their timeout; values that pass from a device
through a scan, the pool and a publisher without ever being held together.
`PROJECT.json` lists these hazards at their lines, with the
properties that would catch each one.

## Modules

**BusCoord** (`bus_coord.c`). `slot` is `g_buses`, `wait` says whether a thread
is inside `pthread_cond_wait`, `held` counts the acquires of a thread that have
returned and are not yet released. All code between two waits runs under
`g_lock`, so it is one action: `AcquireFound`, `AcquireAlloc`, `AcquireNoop`,
`ReleaseOwned`, `ReleaseIgnored`, and `Retry` for a woken waiter; a wait may end
spuriously. **BusMutex** is what the header promises, one reentrant lock per
path, and `ImplementsMutex` states that BusCoord implements it.

**CmdQueue** (`queue_push`, `queue_pop`, `*_queue_merge_allowed`). The ring with
its indices, one action per outcome, and two histories (last command accepted
and last popped for each key) for *last write wins*. **CmdFifo** is the bounded
merging FIFO it implements, under the mapping of the ring to a sequence.

**UnitModule** (`inverter_module.c`, `ups_module.c`) composes units with the
coordinator, by `INSTANCE BusCoord`. `pc` follows the poll thread: each call of
the coordinator, each Modbus transaction and each decision between them is a
step. `AfterAcquire` and `AfterRelease` say where the code continues after each
call of the coordinator. A transaction succeeds or fails. The subscriber's
requests and the stop sequence of `main.c` are separate actors. `pool` tells for
each segment of the map whether its slots hold zero, a reading or 0xFFFF. `Init`
chooses which units are enabled (`Configurations`); threshold and requests are
given for each unit.

**RtuPort** (`modbus_rtu_client.c`). `bus` is the registry, `ctx` each unit's
context, `busy` the record's mutex from the wait for the handoff silence to the
result of the transaction. On paths that are shared `age` is the time since the
last transaction in whole milliseconds, which `Tick` lets pass anywhere. `Begin` is
`enforce_bus_handoff_silence` up to its `usleep`: it counts the time that passed as
the code does, with up to a millisecond too much (`Counted`), and `due` says when
the sleep is over; `Send` follows it, or `Interrupted`, when a signal ends the sleep
early. `recent` (who transacted last on the open port) and `cut` (whose sleep was
ended early) are histories. The lock
of a context is tracked through its life (`zeroed`, `live`, `destroyed`), since
locking a destroyed mutex is undefined. Any descriptor that no port uses may be
the result of `open`.

**Lifecycle** (`main.c`, `*_cmos_pub_run`). The parent's steps in their order
(`After`), the two publishers, and signals, which reach the parent alone or the
whole process group. A signal reaches a publisher that still has the parent's
handler, one that is in `cmos_pub_init`, or one in its loop; one that reaches the
parent in `waitpid` interrupts it. The configuration is a choice of `Init`.

**Bridge** (`inverter_cmos_bridge.c`, with the parts of `inverter_module.c` and
the register map that commands meet). The handlers are actions of the
subscriber; a frequency or duty command is two pushes, and a duty command first
reads the two limits from the pool, each a step of its own. The queue is
`INSTANCE CmdFifo`, the specification CmdQueue implements. The poll thread
serves an init request, drains, scans the limits, loses the connection and
connects again. Two histories record events only: `want` is what the last accepted
message asks of each register, whatever happens to it afterwards, and `fate` whether
that is `waiting` (from acceptance to the pop of a write of the register), `taken`,
or `undone`, which a failed write of a value taken, a connect or an init that writes
the register over, and a refused or cancelled second push make it.

**Alarm** (`lib/alarm`, `alarm_manager.c`, `*_alarm.c`). The monitor thread
evaluates one entry per step, since the poll threads write the pool in between;
an event and its log row belong to that step. `rows` holds each log's timestamps
by row id, `dbs` the slots of open or failed databases. `seen` and `told` are
histories of the last value read and the last event about an entry.

**ModbusLink** (`modbus_rtu_client.c`, `modbus_tcp_client.c`, and the failure
count of the scan). One link, RTU with two units or TCP with one, and one
transaction at a time, since the calls block. An answer travels in two parts;
`wire` is on its way, `line` has arrived, `got` is read. What the client does with
them depends on lengths (RTU: `read_exact` wants so many bytes, whatever they
are) or on headers (TCP), and on the checks in the order of the code. `stamp` and
`old` are history and tell the properties which request an answer belongs to. A
device answers, refuses or is silent; parts of RTU frames get lost; a TCP peer
closes. A request is `counted` when its failure counts (the scan and the probe),
and not when it is a write or a read of the init sequence. A TCP body that is
taken for a header is refused sooner or later: it is never mistaken for a header
with the right id.

**RegisterMap** and **DataPath** (`config_loader.c`, `device_register_map.c`, the
scan, the publisher). The file decides which units start; `start_unit` starts
one, which registers its table or is left out, and `family_started` is the return
of `start_*_modules`. Meanwhile each poll thread that runs reads
its table segment by segment and stores one register per step; a lost device's
rows become 0xFFFF one by one; the publisher process reads the status, then the
value. Every device register has a value of its own, so that one in the wrong
place is seen, and one register is watched: it changes, its device may stop and
return, and what its publisher says last is recorded. The bus and the requests are
left to the modules above: here a request succeeds when the device answers.

**Cmos** (`cmos_sub.c`, `cmos_pub.c`). The subscriber thread with its slots, its
connection table and its loop (wait for events, now and then look for the master
and for publishers, handle the events), the publishers, and, as surroundings, the
master, which forgets everybody in a restart, and a network that breaks
connections. A message is its number. The publishers of one answer are added in
the order the master lists them, which the model leaves open (`ctx_add_pub` says
which tables of connections may come of it).

Lifecycle and ModbusLink name their parts `ProcInit`, `ProcNext`, `ProcSpec` and
`LinkInit`, `LinkNext`, `LinkSpec`, so that one module of proofs can speak of two
components that belong together (`DaemonProofs`, `ModbusProofs`).

`MC*.tla` and the `.cfg` files are the instances. Definitions introduced as
*mutant of* another one are variants with a plausible mistake; the property named
with each in `PROJECT.json` fails when the mutant takes the original's place. No
specification uses them.

## Runs

| Run | Instance | Shows |
|---|---|---|
| `bus_coord` | 5 threads (2 on one path, 2 alone, 1 on TCP), 3 paths, 2 slots, nesting 2 | exclusion, depth, wake-ups, no split of a path, with the table full |
| `cmd_queue` | capacity 3, a mergeable and a plain register, one- and two-register writes | merge, last write wins, refinement of the FIFO |
| `units_shared` | inverter and UPS on one path, all requests | no transaction within another unit's scan, one transaction at a time, no leaked bus |
| `units_stop` | an inverter alone with 5 failures and all requests, or an inverter and a UPS on one path with 1 failure and reboots; 3 segments, queue of 1 | comm loss leaves no live register; only consecutive failures count; requests are taken up; a stop ends every thread, whoever holds the bus |
| `rtu_port` | 5 contexts, 3 paths, 2 records, 2 rates, a silence of 2 ms | reference count, descriptors and rates, silence between units, sound locks through reconnects |
| `link` | 2 RTU units or 1 TCP unit, reads and writes, ids 1 to 4, 2 failures | only fitting answers are accepted, nothing from before a request, recovery when the device behaves again |
| `data_path` | 15 files, 2 builds of 3 + 1 and 2 + 1 registers, 2 failures | every register in its own row, no unit missing, the last word published is the device's value, or its loss |
| `cmos` | 2 publishers, 2 slots, 2 connections | messages in order and once per slot, every lasting publisher is heard |
| `alarm` | 2 contexts with all three conditions, 1 log of 2 rows, 2 seconds, 1 failed count | events tell the state of an entry once; the log keeps the newest rows through failures; nothing is opened after close; a lasting condition is reported |
| `commands` | all commands, queue of 2, the drive's own limits | the last accepted command stands, but where the code gives it up; frequencies within the limits; no command starves |
| `lifecycle` | every configuration and fault, 2 signals | nothing left behind, order of stops, an orderly shutdown ends |
| `failed_startup` | a module fault | **fails**: see below |

Pure functions are checked as named assumptions of the MC modules, which TLC
evaluates: `SearchFindsRow` and `SegmentsCover` (every table of addresses up to
7, chunks up to 4), `RoundTrip` (every duty) and `Monotone` (every frequency).

*Bounds.* Two threads per path are enough for contention and one waiter; nesting
2 is what the code uses (a scan and the read inside it). With two slots and
three paths the table is full for some path and the order of arrival decides for
which. (With the daemon's two families, of one unit each, the table of eight never
fills; the fallback is the module's own promise.) A ring of three entries has every combination of wrap-around, and a merge
behind the head. In `units_shared` one segment and a threshold of one failure
reach every label, with every request of both units. What depends on counting and
fairness is checked in `units_stop`, which has two configurations: the inverter alone,
with the code's own threshold, all requests and commands in its queue; and the two
units that contend for a path, where the inverter is stopped and joined first while
the UPS goes on scanning and rebooting. There the bus is waited for in a probe, a
scan, a read and each step of a reboot; commands and init requests are left to the
inverter alone, since they would multiply the states: `InitRequestServed` is
therefore not checked with another unit on the path. In `rtu_port` two milliseconds
tell the silence apart from one that is a millisecond short and from none; it uses
symmetry between the two units that are configured alike (no liveness is checked). Two signals are needed for the one that
interrupts `waitpid`. In `alarm` two rows and two seconds give rows of equal and
of different age, and a rotation of either; two contexts give a pass that goes
from one table to the next. In `commands` a queue of two is full with one
mergeable and one plain command, so either push of a pair can be the refused one;
the duties are stop, one between the limits and one above 100 %. In `link` one
answer may be late at a time, by less than a whole cycle of ids (in the code
65535 requests), and ids wrap after four requests, more than a link can fail
before it is closed; a threshold of two is one failure that is survived and one
that is not. In `data_path` the inverter fails and is watched at its last register: in one
build that is alone behind a gap, in a segment of its own, in the other next to a
register that a chunk of one parts it from. The UPS answers always; in the first
build it runs beside the inverter, in the second its row is one of the inverter's,
so that whichever family comes second is refused. The files hold a good entry of each format, a disabled one, two
enabled ones and one entry for each rule of the loader. In `cmos` one publisher
sends two messages, through sockets that hold one, and the other one none: what
it may disturb is the search for the first. The table holds just the connections
there can be.

*Fairness.* A poll thread keeps running (weak fairness), and a thread waiting for
the bus gets it if the bus is free again and again (strong fairness): each
holder sleeps 200 ms after a scan, or five seconds before a reconnect, off the
bus, which leaves a woken waiter time to take the mutex. The mutex itself does
not promise it. Nothing obliges requests, signals or the stop to come. In
Lifecycle the parent and each publisher keep running, in Alarm the monitor and
the main thread once it stops, in Bridge a connected poll thread (the drive need
not answer a connect). In ModbusLink a blocking call returns, what is on its way
arrives, and each unit reads again and again although another one may hold the
bus now (strong fairness, as above). In DataPath main, each poll thread and the
publisher run. In Cmos the thread and the publishers run, the 500 ms of the loop
pass, and a master that is asked again and again answers some time; it need not
answer any one lookup.

*What fails, and where a text of the repository says otherwise.*
`failed_startup`: `README.md:216` promises cleanup and `EXIT_FAILURE`. SIGTERM
sent to a publisher before it sets `g_pub_running = 1` is lost, and the parent
stays in `waitpid`. (The same line names the publisher's own init failure, which
only ends the publisher: `PublisherInitFails` has no effect on `main`.)

Other differences between texts and code met while modelling, no run of their own:

- `modbus_defaults.h:19` speaks of consecutive failures. Reads of the UPS init and
  reboot sequences that succeed do not reset `comm_fail_count`, so for a UPS
  `LossOnlyAfterConsecutiveFailures` fails.
- `modbus_rtu_client.h:20` and the comment at `modbus_rtu_client.c:60` promise a
  minimum silence of 30 ms. Seconds and nanoseconds are subtracted apart and the
  latter rounded toward zero (line 225), so just over 29 ms are enough when a second
  begins in between; and `usleep` ends early, its result unread, when the thread takes
  SIGINT or SIGTERM. `HandoffSilence` states what is left.
- `modbus_rtu_client.h:113` calls disconnect safe after a failed connect; it then
  locks a mutex the connect destroyed. `ReconnectsOnSoundLock` confines this to
  the last disconnect of a thread.
- `modbus_rtu_client.h:47` promises the exception code of a device. An exception
  frame is shorter than every expected answer, so `read_exact` waits for the rest
  and the call ends as a timeout (`JudgeRtu` never sees one whole).
- `cmos.h:22` says that messages with a state are kept for later subscribers;
  `cmos_publish` keeps nothing.
- `MAX_INVERTER_COUNT` is 10, but all units of a family use one table, and the
  second one is refused as a collision: the daemon then does not start
  (`NoUnitMissing` includes this case).

Some properties need a proviso. `HandoffSilence` grants the code the millisecond and
the signals just named, and is about a port that stays open:
closing it forgets who transacted last (`modbus_rtu_client.c:204`), and a unit
that opens it again transmits at once. `FrequencyWithinLimits` is about limits
read from the drive: before the first scan and after a comm loss the pool holds 0
or 0xFFFF, and the two may be read from different scans; a duty is then queued as
a frequency outside the limits. `NewestKept` needs a clock that does not run
backwards. `LastCommandStands` takes the order of writes to the drive as the order
of commands: an init request is served before commands that were given earlier and
still wait. It claims nothing about a value once the code has given it up (`undone`):
after a failed write, which is dropped, and after the second push of a message was
refused. The latter is real: fault commands do not merge, and a queue filled with
them takes the frequency 0 of a stop in its last place, or in that of a frequency that
waits, and refuses its STOP, so the drive stays in RUN at frequency 0 (`SecondOfTwo`, `on_write` only logs). `InitRequestServed` assumes that commands do not come for ever: the
drain loop ends when the queue is empty, so commands that arrive as fast as they
are written keep the bus, and everything behind it, waiting. `AcceptedFits` cannot
ask more of an RTU answer than unit, function and, for a read, length: a late
answer that arrives after the flush and agrees in these is accepted, and the
quantity that the confirmation of an FC16 write names is not compared
there (`modbus_rtu_client.c:775`). `LinkRecovers` counts
such an answer as misbehaviour of the line. `LossPublished` is about RTU: behind a
TCP gateway a silent device is reported alive and disconnected in turn.
`InOrderOncePerSlot` is per slot, since each slot has its own connection, and
`EveryPublisherHeard` supposes that the master was there when the subscriber
started (`cmos_sub_create` is tried once) and still knows the publisher, which
registers once.

## Proofs

The eight `*Proofs` modules prove ten components, for every number of units,
threads or publishers and every capacity, bound and input the named assumptions
allow: every safety invariant and every action property of a run that holds is a
theorem. All go the same way: an inductive invariant `IInv`, one lemma per action that it is
preserved, `Invariance` (`Spec => []IInv`), and from it the properties of the
runs. TLC checked every `IInv` on the run's instance first. What follows says
what the properties lack to be inductive.

**BusCoordProofs.** `Exclusion`, `OwnedDepth`, `Wakeups`, `OneSlotPerPath`,
`NoSlotWhileInside`, `Typing`. A release acts on the *first* slot of its path, so
`DepthIsOwned` needs `UniqueSlots`; a thread without a slot may have entered
uncoordinated, so it needs `NoLateCoordination` (a full table stays full, and no
slot appears under such a thread); a wake-up is only sound if a waiter's path
still has its slot (`WaitersHavePath`) and somebody else holds it
(`NoLostWakeup`). `Refinement`: `Spec => ImplementsMutex`, one lock per path, if
there are no more paths than slots (`EnoughSlots`). `SlotForEveryPath` counts
paths against slots, so `AcquireNoop` happens for TCP threads only, and each step
maps to a step of `BusMutex` or a stutter.

**CmdQueueProofs.** `OnePerKey`, `NewestWins`, `ConsistentRing`, and
`Refinement`: `Spec => ImplementsFifo`. What waits is told by walking from the
head, so an append is harmless only if the tail is where that walk ends. The
arithmetic of the ring modulo its capacity is done once (`Wraps`, `WalkInjective`,
`PopShifts`); then pop, append and merge are `Tail`, `Append` and a replacement in
the sequence `Waiting`.

**UnitModuleProofs.** `RestingThreads`, `LossHidesData`, `ConsecutiveFailures`,
`ExclusiveWire`, `UninterruptedScan`, `Typing`. The coordinator is not looked into
again: the invariant of `BusCoordProofs` is carried along, after a lemma that the
calls of the poll threads are the operations it is about. Added to it is how many
levels of the bus a thread has at each label (`NestingFollowsThread`), which says
both that it holds the bus where the `*_locked` helpers run and that no way out
of an operation keeps it. An offline unit has no live register because the
failure that reaches the threshold marks the pool and the count stays there until
`error_callback` (`LossIsMarked`, `OfflineIsConnecting`). `ExclusiveWire` and
`UninterruptedScan` suppose `EnoughSlots`, since with a full table the code lets a
thread in uncoordinated. `ConsecutiveFailures` is about the inverters of any configuration: for a
UPS it is false, as said above.

**ModbusProofs**, the ports (RtuPort). `ExactRefcount`, `FreshDescriptor`,
`SoundLock`, `OneTransaction`, `Typing`, and the action property `Silences`. The
count tells that a port in use is not closed, and that those counted are on the
record's own path is what it counts, so the two need each other, and both need to
know which contexts a thread may still use (`ContextFollowsThread`). A path has one
record (`OneRecordPerPath`), whose mutex belongs to the unit on the wire
(`BusyIsOnWire`); hence one transaction at a time. `Silences` needs that the
`recent` transaction is still the `last` one of its open port (`RecentIsLast`), so
that `Begin` sees it, and that a sleep ends late enough (`WaitIsLongEnough`): nobody
else transacts while the mutex is held, so `age` only grows from `Begin` to `Send`.

**ModbusProofs**, the transactions on a link (ModbusLink). `Accepted` and
`NothingOld`, action properties, and `FreeIds`. On RTU they come from the checks on
the frame and from `tcflush` (`OldInv`). On TCP the answer is told by its id alone,
and `next_tid` only counts: nothing in the client knows which ids are still
unanswered. What saves it is that each read that fails counts, and enough of them
close the connection. So the invariant counts too (`IdInv`): of everything unread,
in the order in which it will be read, nothing has one of the next `Left(u)` ids,
as many as reads may still fail before the link is closed; and what has the id of
the request under way is its own answer and comes last (`OwnLast`), so that a
header with the right id is followed by its own body. A success starts the count
anew, and needs no more, since its answer was the last thing there was: the stream
is then empty. A write, or a read of an init sequence, may fail without being
counted; for these the bound `CycleLate` says that no answer is late by a whole
cycle of ids (65535 requests in the code). Reads do not need it.

**DaemonProofs**, the register pool (DataPath, RegisterMap). `SearchFinds`: in every
table with increasing addresses the binary search finds the row of an address, or
none if there is none. The recursion is over ranges; that the recursive function
exists at all, and gives the right row, is shown by taking a shortest range for
which it does not (`Least`, by well-foundedness of `<`). `OwnRegisters`: a cell holds
what was read from a register whose row it is (`PoolInv`), values on their way carry
consecutive addresses that are rows of the segment (`StoreInv`, `SegmentFits`), and
families that run share no pool address (`UnitsInv`, from the collision check).
`NobodyMissing`: a family that is done runs a unit for each of its entries
(`MainInv`). `DarkWhenLost`: a unit whose status is "not connected" shows no value,
since the loss overwrites every row before the status changes (`DarkInv`); no run
checks this one by itself, `LossPublished` rests on it.

**DaemonProofs**, the processes (Lifecycle). `NothingLeft`, `MonitorInside`,
`ProcessTyping`. Which threads may run at each step of `main` (`ThreadsFollowMain`:
after a failed startup any of those wanted, so that it is the stops that empty the
set) and which publishers are gone (`WaitedFor`: those waited for, except where a
signal cut the wait short).

**AlarmProofs.** `EventsAreFaithful`, `NewestRowsStay`, `OneSlotEach`,
`StaysClosed`, `Typing`. What was last said of an entry is what the engine
remembers of it, and that is what the value last read says (`ToldFollowsState`);
no row is from the future (`RowsUntilNow`), so the row a full log overwrites is
among the oldest; the monitor runs only between its start and its join
(`MonitorJoined`). Databases that do not open and statements that fail are in the
model, so the theorems hold through them. `TableAssumption`: the alarm tables are
the static arrays of the code, not empty.

**BridgeProofs.** `LastCommand`, `Typing`, and the action property
`LimitedFrequency`. What a register comes to hold depends on the queue, the
command in the poll thread's hands, the drive, and the second half of a message
that the subscriber has not pushed yet. `LastCommandStands` for all four together
(`Stands`), with the fate of what was asked, is inductive once at most one write
waits for each register (`OneEach`) and each thread has a write in hand exactly where it should (`InHand`).
The conversion of a duty stays between the limits it was given for all words
(`DutyInsideLimits`).

**CmosProofs.** `InOrderOnce`, `Typing`. What waits on a connection is newer than
all its slot has heard of that publisher (`StreamsFollow`), which holds only
because a publisher and a slot never have two connections (`OneConnection`):
`ctx_find_conn` before each `connect`, through lost lookups and restarts of the
master. The proof does not use that the table is large enough.

Assumptions are stated in the modules and evaluated by TLC on the instances:
`ThreadAssumption`, `PathAssumption`, `BoundAssumption` (BusCoord),
`QueueAssumption`, `UnitAssumption`, `ConfigAssumption`, `PortAssumption`, `LifecycleAssumption`,
`AlarmAssumption`, `BridgeAssumption` (limits a drive can report: positive, lower
below upper, not the 0xFFFF of a loss), `ConnAssumption`, the two
`TableAssumption`s, `LagAssumption` (there are more ids than failures before a close)
and, for DataPath, `TablesAssumption` (register tables are sorted and no two rows of
one share a pool address, as in the static tables of `devices/`) and
`BoundsAssumption`. They say that "none" is none of the values, that sizes are
positive and that words are words.

Only model-checked is liveness: `ShutdownCompletes`, `InitRequestServed`,
`LinkRecovers`, `PublishedFollowsDevice`, `LossPublished`, `EveryPublisherHeard`,
`LastingConditionReported`, `EveryCommandTaken` and `OrderlyShutdownEnds`. They
depend on fairness and `ENABLED`, which the prover does not handle. The pure
functions `SegmentsCover`, `RoundTrip` and `Monotone` are assumptions TLC evaluates
over their bounded inputs; of `SegmentsCover` the proofs use, and prove, what they
need (`SegmentFits`). The counterexample of `failed_startup` is TLC's.

## Not modelled

- SQLite (`lib/sqlite3`, 237 000 of the repository's 247 000 lines) is vendored;
  `Alarm` models what `alarm_manager.c` sees of it. Because of it the modelled code
  is a small share of all lines, though most of the daemon's own.
- `lib/cmos/cmos_srv.c` and the server of `lib/modbus/modbus_tcp.c` are not used by
  the daemon. Logging is output.
- Bytes: the CRC, the text of CMOS lines (a partial `send` glues two of them),
  number formats, the split of the fault and warning word, the text of log rows.
- `check_register_access_range`, which nothing calls, and the choice between FC06
  and FC16.
- The contents of the two register tables; `DataPath` is about any sorted tables.
- SIGPIPE: the TCP client's `send` relies on the subscriber thread having told the
  process to ignore it.

## What could follow

- An abstract specification of one line with several units, a transaction at a
  time and 30 ms between units, for RtuPort to implement; and one of a request that
  is answered or fails, for ModbusLink to implement, so that UnitModule and DataPath,
  which suppose it, rest on a theorem.
- The publisher processes as a whole: the order in which a scan of the pool is
  published, beyond the one register that DataPath follows.

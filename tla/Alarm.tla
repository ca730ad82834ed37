------------------------------- MODULE Alarm --------------------------------
(***************************************************************************)
(* Alarm evaluation and its log: the monitor thread of                     *)
(* src/lib/alarm/alarm_bridge.c, the engine of alarm_engine.c, the tables  *)
(* of src/src/inverter_alarm.c and ups_alarm.c, and the SQLite log of      *)
(* src/src/alarm_manager.c.                                                *)
(*                                                                         *)
(* The poll threads write the pool at any time, so every register the      *)
(* monitor reads is a step of its own; what follows the read (condition,   *)
(* event, log row) touches only the monitor's data and belongs to it.      *)
(* 0xFFFF, which a lost connection leaves in the pool, is a value like any *)
(* other to this code.  The wall clock does not run backwards.             *)
(***************************************************************************)
EXTENDS Integers, Sequences, FiniteSets

CONSTANTS
  Configured,    \* the units, in the order of the configuration
  Table,         \* each unit's alarm entries: register, condition, limits
  Sink,          \* the log file of each unit
  Registers,     \* the registers the profiles map
  Values,        \* register values
  MaxCtxs,       \* ALARM_BRIDGE_MAX_CTXS
  MaxDbs,        \* ALARM_MANAGER_MAX_DBS
  MaxRows,       \* LOG_MAX_ROWS
  MaxClock,      \* bound: seconds the clock advances
  MaxMiscounts   \* bound: failures of the SELECT COUNT(*) query

Units == {Configured[i] : i \in DOMAIN Configured}
Sinks == {Sink[u] : u \in Units}

ASSUME AlarmAssumption ==
  /\ 0 \in Values /\ \A v \in Values : v \in Nat /\ v < 65536
  /\ {MaxCtxs, MaxDbs, MaxRows, MaxClock} \subseteq Nat \ {0}
  /\ MaxMiscounts \in Nat

\* The tables are static arrays with at least one entry.
ASSUME TableAssumption ==
  \A u \in Units : Len(Table[u]) \in Nat \ {0} /\ DOMAIN Table[u] = 1 .. Len(Table[u])

VARIABLES
  pool,        \* the shared pool
  ctxs,        \* g_ctxs: units with a registered context
  running,     \* g_running of alarm_bridge.c
  mon,         \* the monitor: "none", "warming", "sleep", "eval" or "stopped"
  cur,         \* context and entry to be evaluated next
  active,      \* is_active of each entry
  prev,        \* prev_value of each entry
  dbs,         \* g_dbs: path and whether the database is open
  rows,        \* the timestamps in each log, by row id
  clock,       \* time(NULL)
  main,        \* the main thread: "start", "serve", "join", "close" or "done"
  seen,        \* history: the value last read for an entry
  told,        \* history: what the last event about an entry said
  repeated,    \* history: an event said what the event before it had said
  dropped,     \* history: the newest timestamp overwritten in each log
  miscounts    \* history: failed counts on each log

engineVars == <<active, prev, seen, told, repeated>>
logVars    == <<dbs, rows, dropped, miscounts>>
vars == <<pool, ctxs, running, mon, cur, active, prev, dbs, rows, clock, main,
          seen, told, repeated, dropped, miscounts>>

Unread == -1
Entries(u) == DOMAIN Table[u]
PerEntry(v) == [u \in Units |-> [k \in Entries(u) |-> v]]

-----------------------------------------------------------------------------
\* *_alarm_register_all, with some of the configured positions enabled: a context
\* for each of their units, in order, while there is room.
Registered(enabled, s) ==
  \E at \in [DOMAIN s -> enabled] :
    /\ \A i, j \in DOMAIN s : i < j => at[i] < at[j]
    /\ \A c \in enabled : (\E i \in DOMAIN s : at[i] = c)
                            \/ (Len(s) = MaxCtxs /\ \A i \in DOMAIN s : at[i] < c)
    /\ s = [i \in DOMAIN s |-> Configured[at[i]]]

Init ==
  /\ pool = [r \in Registers |-> 0]
  /\ ctxs \in UNION {[1 .. n -> Units] : n \in 0 .. MaxCtxs}
  /\ \E enabled \in SUBSET DOMAIN Configured : Registered(enabled, ctxs)
  /\ running = FALSE /\ mon = "none" /\ cur = <<1, 1>> /\ main = "start"
  /\ active = PerEntry(FALSE) /\ prev = PerEntry(0)
  /\ dbs = << >> /\ clock = 1
  /\ rows = [s \in Sinks |-> << >>]
  /\ seen = PerEntry(Unread) /\ repeated = FALSE
  /\ told = [u \in Units |-> [k \in Entries(u) |->
               IF Table[u][k].cond = "CHANGE" THEN 0 ELSE "CLEAR"]]
  /\ dropped = [s \in Sinks |-> 0] /\ miscounts = [s \in Sinks |-> 0]

-----------------------------------------------------------------------------
(* alarm_engine.c: conditions and the events they give.                      *)

Bit(v, b) == (v \div 2^b) % 2

\* All the bits of the mask, hi, are set; or the value is outside the limits.
Triggered(e, v) ==
  CASE e.cond = "BITMASK" -> \A b \in 0 .. 15 : Bit(e.hi, b) = 1 => Bit(v, b) = 1
    [] e.cond = "RANGE"   -> v < e.lo \/ v > e.hi

\* Mutant of EventFor: a sticky condition reports as long as it holds.
EventNotSticky(u, k, v) ==
  LET e == Table[u][k]
  IN  IF e.cond = "CHANGE" THEN (IF v # prev[u][k] THEN "TRIGGER" ELSE "none")
      ELSE IF Triggered(e, v) THEN "TRIGGER"
      ELSE IF active[u][k] THEN "CLEAR" ELSE "none"

EventFor(u, k, v) ==
  LET e == Table[u][k]
  IN  IF e.cond = "CHANGE" THEN (IF v # prev[u][k] THEN "TRIGGER" ELSE "none")
      ELSE IF Triggered(e, v) /\ ~active[u][k] THEN "TRIGGER"
      ELSE IF ~Triggered(e, v) /\ active[u][k] THEN "CLEAR" ELSE "none"

\* The entry's state after the evaluation of value v.
Remember(u, k, v, event) ==
  IF Table[u][k].cond = "CHANGE"
  THEN prev' = [prev EXCEPT ![u][k] = v] /\ UNCHANGED active
  ELSE /\ active' = [active EXCEPT ![u][k] = IF event = "none" THEN @ ELSE event = "TRIGGER"]
       /\ UNCHANGED prev

\* What an event says about its entry.
Saying(u, k, v, event) == IF Table[u][k].cond = "CHANGE" THEN v ELSE event

-----------------------------------------------------------------------------
(* alarm_manager.c: the log.                                                 *)

\* Mutant of Known: a slot whose database failed to open is passed over.
KnownOpen(s) == \E i \in DOMAIN dbs : dbs[i].path = s /\ dbs[i].open

Known(s) == \E i \in DOMAIN dbs : dbs[i].path = s
Usable(s) == \E i \in DOMAIN dbs : dbs[i].path = s /\ dbs[i].open

\* find_or_open_db for a log it has no slot for yet: sqlite3_open and CREATE
\* TABLE both succeed, or the slot stays marked as failed.
OpenDb(s, ok) ==
  /\ ~Known(s) /\ Len(dbs) < MaxDbs
  /\ dbs' = Append(dbs, [path |-> s, open |-> ok])

\* The row with the lowest timestamp and, among those, the lowest id.
Oldest(s) ==
  CHOOSE i \in DOMAIN rows[s] : \A j \in DOMAIN rows[s] :
    rows[s][i] < rows[s][j] \/ (rows[s][i] = rows[s][j] /\ i <= j)

Insert(s) == rows' = [rows EXCEPT ![s] = Append(@, clock)] /\ UNCHANGED dropped

\* Mutant of Rotate: overwrites the first row.
RotateFirst(s) ==
  /\ rows' = [rows EXCEPT ![s][1] = clock]
  /\ dropped' = [dropped EXCEPT ![s] = IF rows[s][1] > @ THEN rows[s][1] ELSE @]

Rotate(s) ==
  LET i == Oldest(s)
  IN  /\ rows' = [rows EXCEPT ![s][i] = clock]
      /\ dropped' = [dropped EXCEPT ![s] = IF rows[s][i] > @ THEN rows[s][i] ELSE @]

HasRoom(s) == Len(rows[s]) < MaxRows

\* write_log: INSERT below the limit, else overwrite the oldest row.  A count
\* that fails counts 0; a statement that fails writes nothing.
WriteLog(s) ==
  \/ /\ IF HasRoom(s) THEN Insert(s) ELSE Rotate(s)
     /\ UNCHANGED miscounts
  \/ /\ ~HasRoom(s) /\ miscounts[s] < MaxMiscounts
     /\ Insert(s)
     /\ miscounts' = [miscounts EXCEPT ![s] = @ + 1]
  \/ UNCHANGED <<rows, dropped, miscounts>>

\* alarm_manager_handle_event.
HandleEvent(s) ==
  \/ Usable(s) /\ WriteLog(s) /\ UNCHANGED dbs
  \/ OpenDb(s, TRUE) /\ WriteLog(s)
  \/ OpenDb(s, FALSE) /\ UNCHANGED <<rows, dropped, miscounts>>
  \/ ~Usable(s) /\ (Known(s) \/ Len(dbs) >= MaxDbs) /\ UNCHANGED logVars

-----------------------------------------------------------------------------
(* The monitor thread.                                                       *)

\* Mutant of Following: an event ends the scan of its table.
FollowingEarly(event) ==
  LET u == ctxs[cur[1]]
  IN  IF cur[2] < Len(Table[u]) /\ event = "none" THEN <<cur[1], cur[2] + 1>>
      ELSE <<cur[1] + 1, 1>>

\* The entry to be evaluated after the current one.
Following(event) ==
  LET u == ctxs[cur[1]]
  IN  IF cur[2] < Len(Table[u]) THEN <<cur[1], cur[2] + 1>>
      ELSE <<cur[1] + 1, 1>>

\* A pass ends after the last context.
Goto(next) ==
  IF next[1] > Len(ctxs) THEN mon' = "sleep" /\ cur' = <<1, 1>>
  ELSE mon' = "eval" /\ cur' = next

\* The startup delay has elapsed, or the poll interval has: a pass begins.
\* With no context registered it is over at once.
BeginPass ==
  /\ mon \in {"warming", "sleep"} /\ running
  /\ Goto(<<1, 1>>)
  /\ UNCHANGED <<pool, ctxs, running, engineVars, logVars, clock, main>>

\* alarm_engine_run, one entry: a register no profile maps is skipped.
SkipEntry ==
  /\ mon = "eval"
  /\ Table[ctxs[cur[1]]][cur[2]].reg \notin Registers
  /\ Goto(Following("none"))
  /\ UNCHANGED <<pool, ctxs, running, engineVars, logVars, clock, main>>

EvaluateEntry ==
  /\ mon = "eval"
  /\ LET u == ctxs[cur[1]]  k == cur[2]  r == Table[u][k].reg
     IN  /\ r \in Registers
         /\ LET v == pool[r]  event == EventFor(u, k, v)  says == Saying(u, k, v, event)
            IN  /\ Remember(u, k, v, event)
                /\ seen' = [seen EXCEPT ![u][k] = v]
                /\ IF event = "none" THEN UNCHANGED <<told, repeated, logVars>>
                   ELSE /\ told' = [told EXCEPT ![u][k] = says]
                        /\ repeated' = (repeated \/ told[u][k] = says)
                        /\ HandleEvent(Sink[u])
                /\ Goto(Following(event))
  /\ UNCHANGED <<pool, ctxs, running, clock, main>>

\* The loop condition, tested between passes only.
MonitorExits ==
  /\ mon \in {"warming", "sleep"} /\ ~running
  /\ mon' = "stopped"
  /\ UNCHANGED <<pool, ctxs, running, cur, engineVars, logVars, clock, main>>

Monitor == BeginPass \/ SkipEntry \/ EvaluateEntry \/ MonitorExits

-----------------------------------------------------------------------------
(* The main thread, the poll threads and the clock.                          *)

\* alarm_bridge_start; without its thread the program shuts down.
Start(ok) ==
  /\ main = "start"
  /\ running' = ok
  /\ mon' = IF ok THEN "warming" ELSE mon
  /\ main' = IF ok THEN "serve" ELSE "close"
  /\ UNCHANGED <<pool, ctxs, cur, engineVars, logVars, clock>>

\* alarm_bridge_stop: the flag, ...
Stop ==
  /\ main = "serve"
  /\ running' = FALSE
  /\ main' = "join"
  /\ UNCHANGED <<pool, ctxs, mon, cur, engineVars, logVars, clock>>

\* Mutant of Join: the monitor is not waited for.
JoinNot ==
  /\ main = "join"
  /\ main' = "close"
  /\ UNCHANGED <<pool, ctxs, running, mon, cur, engineVars, logVars, clock>>

\* ... then the join.
Join ==
  /\ main = "join" /\ mon = "stopped"
  /\ main' = "close"
  /\ UNCHANGED <<pool, ctxs, running, mon, cur, engineVars, logVars, clock>>

\* alarm_manager_close.
Close ==
  /\ main = "close"
  /\ dbs' = << >>
  /\ main' = "done"
  /\ UNCHANGED <<pool, ctxs, running, mon, cur, engineVars, rows, dropped, miscounts, clock>>

\* pool_write_register and device_map_read_to_pool, until the poll threads stop.
PoolWrite(r, v) ==
  /\ main \in {"start", "serve", "join"}
  /\ v # pool[r]
  /\ pool' = [pool EXCEPT ![r] = v]
  /\ UNCHANGED <<ctxs, running, mon, cur, engineVars, logVars, clock, main>>

Tick ==
  /\ clock < MaxClock /\ main # "done"
  /\ clock' = clock + 1
  /\ UNCHANGED <<pool, ctxs, running, mon, cur, engineVars, logVars, main>>

Terminated == main = "done" /\ mon \in {"none", "stopped"} /\ UNCHANGED vars

Next ==
  \/ Monitor
  \/ \E ok \in BOOLEAN : Start(ok)
  \/ Stop \/ Join \/ Close
  \/ \E r \in Registers, v \in Values : PoolWrite(r, v)
  \/ Tick
  \/ Terminated

\* Threads keep running; nobody has to stop the program or change a register.
Spec == Init /\ [][Next]_vars /\ WF_vars(Monitor) /\ WF_vars(Join \/ Close)

-----------------------------------------------------------------------------
\* The types of the variables.
TypeOK ==
  /\ pool \in [Registers -> Values]
  /\ ctxs \in Seq(Units) /\ Len(ctxs) <= MaxCtxs
  /\ running \in BOOLEAN /\ repeated \in BOOLEAN
  /\ mon \in {"none", "warming", "sleep", "eval", "stopped"}
  /\ cur[1] \in 1 .. MaxCtxs /\ cur[2] \in Nat \ {0}
  /\ \A u \in Units :
       /\ active[u] \in [Entries(u) -> BOOLEAN]
       /\ prev[u] \in [Entries(u) -> Values]
       /\ seen[u] \in [Entries(u) -> Values \union {Unread}]
  /\ dbs \in Seq([path : Sinks, open : BOOLEAN])
  /\ rows \in [Sinks -> Seq(1 .. MaxClock)]
  /\ main \in {"start", "serve", "join", "close", "done"}

Matches(u, k, v) ==
  told[u][k] = IF Table[u][k].cond = "CHANGE" THEN v
               ELSE IF Triggered(Table[u][k], v) THEN "TRIGGER" ELSE "CLEAR"

\* Whoever follows the events of an entry knows its condition as of the last
\* evaluation, and hears it once: the engine leaves no change of a sticky
\* condition and no new value of a watched register unreported, and repeats
\* neither.
EventsTellState ==
  /\ ~repeated
  /\ \A u \in Units : \A k \in Entries(u) :
       seen[u][k] # Unread => Matches(u, k, seen[u][k])

\* The log keeps the newest rows: no row that was overwritten is newer than a
\* row that is still there, through rotations and failed writes.
NewestKept == \A s \in Sinks : \A i \in DOMAIN rows[s] : dropped[s] <= rows[s][i]

\* A log never has two slots, so one that failed to open leaves room for the
\* other logs and no database is opened twice.
OneSlotPerLog ==
  \A i, j \in DOMAIN dbs : dbs[i].path = dbs[j].path => i = j

\* Once the logs are closed nothing opens one again: no event is still being
\* handled when alarm_manager_close runs.
ClosedForGood == main = "done" => dbs = << >>

\* A condition that lasts is reported, whatever the other entries do: the scan
\* of a table never ends early.
LastingConditionReported ==
  \A u \in Units : \A k \in Entries(u) : \A v \in Values :
    Table[u][k].reg \in Registers =>
      (<>[](main = "serve" /\ u \in {ctxs[i] : i \in DOMAIN ctxs}
             /\ pool[Table[u][k].reg] = v)
       => <>[]Matches(u, k, v))
=============================================================================

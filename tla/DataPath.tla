------------------------------ MODULE DataPath ------------------------------
(* The way of a value: the configuration file decides which units are        *)
(* started, their poll threads read the device segment by segment into the   *)
(* shared pool (device_register_map.c), and the publisher processes tell the *)
(* bus what the pool says. One register of one device is watched on its way. *)
EXTENDS RegisterMap

CONSTANTS
  Families,       \* the sections of the file, in the order of start
  Files,          \* the files considered: Families -> sequence of entries
  Builds,         \* the builds considered: [table: Families -> table, chunk: read_chunk]
  Watched,        \* the registers one of which is watched: [f, dev]
  MaxUnits,       \* MAX_INVERTER_COUNT, MAX_UPS_COUNT
  MaxProfiles,    \* DEVICE_REGISTER_MAP_MAX_PROFILES
  FailThreshold   \* MODBUS_DEFAULT_COMM_FAIL_THRESHOLD

FamilySet == {Families[i] : i \in DOMAIN Families}

\* The families are the two sections of the file, each with a static table.
ASSUME TablesAssumption ==
  /\ Families \in Seq(FamilySet) /\ Families # <<>> /\ IsInjective(Families)
  /\ \A b \in Builds : \A f \in FamilySet : IsTable(b.table[f])

ASSUME BoundsAssumption ==
  /\ MaxUnits \in Nat \ {0} /\ MaxProfiles \in Nat /\ FailThreshold \in Nat \ {0}

VARIABLES
  json, table, chunk,   \* the file as it is parsed; the tables of the build
  main,                 \* "load", "start", "serve" or "exit"
  next, unit,           \* the family being started, and the next entry of it
  config,               \* global_config: Families -> entries
  profiles,             \* registered_profiles: families, in order
  units,                \* Families -> entries of the units that run
  pool, status,         \* internal_pool, and its connection status registers
  phase, row, buf,      \* of a poll thread: step, next row, values read
  fails,                \* comm_fail_count
  answers, version,     \* the devices: do they answer; value of the watched register
  watch,                \* the watched register: [f, dev]
  pub, said             \* its publisher: the status read; the last word on the register

vars == <<json, table, chunk, main, next, unit, config, profiles, units, pool, status, phase,
          row, buf, fails, answers, version, watch, pub, said>>
startVars  == <<main, next, unit, config, profiles, units>>
deviceVars == <<answers, version>>
pollVars   == <<pool, status, phase, row, buf, fails>>
pubVars    == <<pub, said>>
fixed      == <<json, table, chunk, watch>>

-----------------------------------------------------------------------------
(* Values. Every register of a device has a value of its own, so that one    *)
(* that ends up in the wrong place is seen.                                  *)
Reading(f, a) ==
  [from |-> f, dev |-> a, v |-> IF watch.f = f /\ watch.dev = a THEN version ELSE 0]
Blank == [from |-> "nobody", dev |-> 0, v |-> 0]        \* the zeroed pool
Lost  == [from |-> "nobody", dev |-> 65535, v |-> 0]    \* 0xFFFF

Unread == -1            \* the publisher has not read the status yet

Init ==
  /\ json \in Files
  /\ \E b \in Builds : table = b.table /\ chunk = b.chunk
  /\ main = "load" /\ next = 1 /\ unit = 1
  /\ config = [f \in FamilySet |-> <<>>] /\ profiles = <<>>
  /\ units = [f \in FamilySet |-> <<>>]
  /\ pool = [a \in {r.pool : r \in UNION {Range(table[f]) : f \in FamilySet}} |-> Blank]
  /\ status = [f \in FamilySet |-> 0]
  /\ phase = [f \in FamilySet |-> "connect"] /\ row = [f \in FamilySet |-> 1]
  /\ buf = [f \in FamilySet |-> <<>>] /\ fails = [f \in FamilySet |-> 0]
  /\ answers = [f \in FamilySet |-> TRUE] /\ version = 0
  /\ watch \in Watched
  /\ pub = Unread /\ said = [state |-> 0, value |-> Blank]

-----------------------------------------------------------------------------
(* The configuration. An entry is a record of the fields that are present.   *)

Has(e, field) == field \in DOMAIN e

parse_modbus_format_value(e) == Has(e, "modbus_format") => e.modbus_format \in {"RTU", "TCP"}

Format(e) == IF Has(e, "modbus_format") THEN e.modbus_format ELSE "RTU"

validate_rtu_baud(b) == b >= 4800 /\ b <= 115200 /\ b % 100 = 0

validate_module_config(e) ==
  /\ Has(e, "name") /\ e.name # ""
  /\ Has(e, "modbus_uid") /\ e.modbus_uid \in 1 .. 247
  /\ IF Format(e) = "TCP"
     THEN Has(e, "ip") /\ e.ip # "" /\ Has(e, "port") /\ e.port \in 1 .. 65535
     ELSE Has(e, "path") /\ e.path # "" /\ Has(e, "baud_rate") /\ validate_rtu_baud(e.baud_rate)

Enabled(e) == Has(e, "enabled") /\ e.enabled

\* The entries of a section that are looked at: the first MaxUnits enabled ones.
Considered(section) ==
  LET on == SelectSeq(section, Enabled)
  IN  SubSeq(on, 1, Min({Len(on), MaxUnits}))

\* What is wrong with an entry, a missing field included, goes to config_load_fail,
\* which ends the program.
Accepted(e) == parse_modbus_format_value(e) /\ validate_module_config(e)

load_json_config ==
  /\ main = "load"
  /\ IF \A f \in FamilySet : \A e \in Range(Considered(json[f])) : Accepted(e)
     THEN /\ config' = [f \in FamilySet |-> Considered(json[f])]
          /\ main' = "start"
     ELSE main' = "exit" /\ UNCHANGED config
  /\ UNCHANGED <<next, unit, profiles, units, pollVars, deviceVars, pubVars, fixed>>

-----------------------------------------------------------------------------
(* The start of the units, family by family.                                 *)

\* Mutant of register_profile: device addresses are compared.
RegisterByDevice(f, ps) ==
  /\ \A g \in Range(ps) : {r.dev : r \in Range(table[f])} \cap {r.dev : r \in Range(table[g])} = {}
  /\ Len(ps) < MaxProfiles

\* device_register_map_register_profile accepts the table of the family: no pool
\* address of it is in a table that is registered already, and there is room.
register_profile(f, ps) ==
  /\ \A g \in Range(ps) : ~Overlap(table[f], table[g])
  /\ Len(ps) < MaxProfiles

\* One turn of the loop of start_*_modules. All units of a family have the one
\* profile of the family, so that the second is refused; a unit that is refused is
\* left out, and the poll thread of one that is not runs from here on.
start_unit ==
  LET f == Families[next]
  IN  /\ main = "start" /\ unit <= Len(config[f])
      /\ IF register_profile(f, profiles)
         THEN /\ profiles' = Append(profiles, f)
              /\ units' = [units EXCEPT ![f] = Append(@, config[f][unit])]
              /\ status' = [status EXCEPT ![f] = 0]
         ELSE UNCHANGED <<profiles, units, status>>
      /\ unit' = unit + 1
      /\ UNCHANGED <<main, next, config, pool, phase, row, buf, fails, deviceVars, pubVars, fixed>>

\* Mutant of StartedAll: a unit that is left out is no failure.
StartedAny(started, wanted) == TRUE

\* The status start_*_modules returns.
StartedAll(started, wanted) == started = wanted

\* start_*_modules returns: when a unit was left out main gives up (what
\* startup_failed then does is in Lifecycle), else the next family has its turn.
family_started ==
  LET f == Families[next]
  IN  /\ main = "start" /\ unit > Len(config[f])
      /\ main' = CASE ~StartedAll(units[f], config[f]) -> "exit"
                   [] OTHER -> IF next = Len(Families) THEN "serve" ELSE "start"
      /\ next' = next + 1 /\ unit' = 1
      /\ UNCHANGED <<config, profiles, units, pollVars, deviceVars, pubVars, fixed>>

-----------------------------------------------------------------------------
(* The poll thread of a unit. The bus is left to UnitModule, the requests to *)
(* ModbusLink: a request succeeds when the device answers.                   *)

Polls(f) == main \in {"start", "serve"} /\ units[f] # <<>>

\* The first unit of a family is the one that runs.
ByRtu(f) == Format(units[f][1]) = "RTU"

\* *_init_callback: unit_connect probes an RTU device with a read, a TCP
\* connection is opened by the gateway whether or not the device is there.
Connect(f) ==
  /\ Polls(f) /\ phase[f] = "connect"
  /\ ByRtu(f) => answers[f]
  /\ fails' = [fails EXCEPT ![f] = 0]
  /\ status' = [status EXCEPT ![f] = 1]
  /\ phase' = [phase EXCEPT ![f] = "scan"] /\ row' = [row EXCEPT ![f] = 1]
  /\ UNCHANGED <<pool, buf, startVars, deviceVars, pubVars, fixed>>

\* Mutant of RowAfter: the scan ends with one row left.
RowAfterEarly(f) ==
  LET r == row[f] + SegmentLen(table[f], chunk, row[f])
  IN  IF r >= Len(table[f]) THEN 1 ELSE r

\* The row of the next segment; the first one again when the table is done.
RowAfter(f) ==
  LET r == row[f] + SegmentLen(table[f], chunk, row[f])
  IN  IF r > Len(table[f]) THEN 1 ELSE r

\* One request of read_profile_to_pool. A segment that fails is passed over
\* until FailThreshold requests in a row have failed.
ReadSegment(f) ==
  LET start == table[f][row[f]].dev
      count == SegmentLen(table[f], chunk, row[f])
  IN  /\ Polls(f) /\ phase[f] = "scan"
      /\ \/ /\ answers[f]
            /\ buf' = [buf EXCEPT ![f] = [k \in 1 .. count |-> Reading(f, start + k - 1)]]
            /\ fails' = [fails EXCEPT ![f] = 0]
            /\ phase' = [phase EXCEPT ![f] = "store"]
            /\ UNCHANGED row
         \/ /\ ~answers[f]
            /\ fails' = [fails EXCEPT ![f] = @ + 1]
            /\ IF fails'[f] >= FailThreshold
               THEN /\ phase' = [phase EXCEPT ![f] = "fill"]
                    /\ row' = [row EXCEPT ![f] = 1]
               ELSE /\ row' = [row EXCEPT ![f] = RowAfter(f)]
                    /\ UNCHANGED phase
            /\ UNCHANGED buf
      /\ UNCHANGED <<pool, status, startVars, deviceVars, pubVars, fixed>>

\* device_map_read_to_pool: one register at a time, each found by its address.
read_to_pool(f) ==
  LET count == SegmentLen(table[f], chunk, row[f])
      addr  == table[f][row[f]].dev + count - Len(buf[f])
      slot  == device_find_slot(table[f], addr)
  IN  /\ Polls(f) /\ phase[f] = "store"
      /\ pool' = IF slot = 0 THEN pool
                 ELSE [pool EXCEPT ![table[f][slot].pool] = Head(buf[f])]
      /\ buf' = [buf EXCEPT ![f] = Tail(@)]
      /\ IF Len(buf[f]) = 1
         THEN /\ phase' = [phase EXCEPT ![f] = "scan"]
              /\ row' = [row EXCEPT ![f] = RowAfter(f)]
         ELSE UNCHANGED <<phase, row>>
      /\ UNCHANGED <<status, fails, startVars, deviceVars, pubVars, fixed>>

\* The registers of a lost device are overwritten with 0xFFFF one by one.
Fill(f) ==
  /\ Polls(f) /\ phase[f] = "fill"
  /\ pool' = [pool EXCEPT ![table[f][row[f]].pool] = Lost]
  /\ IF row[f] = Len(table[f])
     THEN phase' = [phase EXCEPT ![f] = "error"] /\ UNCHANGED row
     ELSE row' = [row EXCEPT ![f] = @ + 1] /\ UNCHANGED phase
  /\ UNCHANGED <<status, buf, fails, startVars, deviceVars, pubVars, fixed>>

\* Mutant of error_callback: the status register is left as it is.
ErrorKeepsStatus(f) ==
  /\ Polls(f) /\ phase[f] = "error"
  /\ fails' = [fails EXCEPT ![f] = 0]
  /\ phase' = [phase EXCEPT ![f] = "connect"]
  /\ UNCHANGED <<status, pool, row, buf, startVars, deviceVars, pubVars, fixed>>

error_callback(f) ==
  /\ Polls(f) /\ phase[f] = "error"
  /\ fails' = [fails EXCEPT ![f] = 0]
  /\ status' = [status EXCEPT ![f] = 0]
  /\ phase' = [phase EXCEPT ![f] = "connect"]
  /\ UNCHANGED <<pool, row, buf, startVars, deviceVars, pubVars, fixed>>

Poll(f) == Connect(f) \/ ReadSegment(f) \/ read_to_pool(f) \/ Fill(f) \/ error_callback(f)

-----------------------------------------------------------------------------
(* The publisher of the watched family, forked once the file is loaded, with *)
(* what it does for the watched register: first the status, then the value.  *)

Publishes == main \in {"start", "serve"} /\ config[watch.f] # <<>>

connection_pub_state ==
  /\ Publishes /\ pub = Unread
  /\ pub' = status[watch.f]
  /\ UNCHANGED <<said, startVars, pollVars, deviceVars, fixed>>

publish_pool_register ==
  LET slot == CHOOSE i \in DOMAIN table[watch.f] : table[watch.f][i].dev = watch.dev
  IN  /\ Publishes /\ pub # Unread
      /\ said' = [state |-> pub, value |-> pool[table[watch.f][slot].pool]]
      /\ pub' = Unread
      /\ UNCHANGED <<startVars, pollVars, deviceVars, fixed>>

-----------------------------------------------------------------------------
(* The devices.                                                              *)

StopsOrReturns(f) ==
  /\ answers' = [answers EXCEPT ![f] = ~@]
  /\ UNCHANGED <<version, startVars, pollVars, pubVars, fixed>>

ValueChanges ==
  /\ version' = 1 - version
  /\ UNCHANGED <<answers, startVars, pollVars, pubVars, fixed>>

-----------------------------------------------------------------------------
Next ==
  \/ load_json_config
  \/ start_unit
  \/ family_started
  \/ \E f \in FamilySet : Poll(f)
  \/ connection_pub_state
  \/ publish_pool_register
  \/ StopsOrReturns(watch.f)
  \/ ValueChanges

\* main, every poll thread and the publisher process go on; the devices owe nothing.
Fairness ==
  /\ WF_vars(load_json_config \/ start_unit \/ family_started)
  /\ \A f \in FamilySet : WF_vars(Poll(f))
  /\ WF_vars(connection_pub_state \/ publish_pool_register)

Spec == Init /\ [][Next]_vars /\ Fairness

-----------------------------------------------------------------------------
(* Properties.                                                               *)

\* Whatever families run together, a pool row holds what its own device register
\* read, 0xFFFF after a loss, or nothing yet: the segmented scans, the search and
\* the collision check never let two registers meet in one row.
EachRegisterItsOwn ==
  \A f \in FamilySet : units[f] # <<>> =>
    \A r \in Range(table[f]) :
      \/ pool[r.pool] \in {Blank, Lost}
      \/ pool[r.pool].from = f /\ pool[r.pool].dev = r.dev

\* The daemon serves with a unit for every enabled entry of the file (the first
\* MaxUnits of a section), in the order of the file, or it does not serve at all.
NoUnitMissing ==
  main = "serve" => \A f \in FamilySet : units[f] = Considered(json[f])

\* Once the watched device answers for good and its register rests, the last word
\* published is "alive" with just that value, whatever was lost or read before.
PublishedFollowsDevice ==
  \A v \in 0 .. 1 :
    <>[](main # "exit" /\ config[watch.f] # <<>> /\ answers[watch.f] /\ version = v)
      => <>[](said = [state |-> 1, value |-> [from |-> watch.f, dev |-> watch.dev, v |-> v]])

\* Once an RTU device is silent for good, the last word published is "disconnect"
\* and no value of it.
LossPublished ==
  <>[](main # "exit" /\ units[watch.f] # <<>> /\ ~answers[watch.f] /\ ByRtu(watch.f))
    => <>[](said.state = 0 /\ said.value \in {Blank, Lost})
=============================================================================

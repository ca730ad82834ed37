----------------------------- MODULE AlarmProofs -----------------------------
(***************************************************************************)
(* Proofs about the alarm monitor and its log, for any alarm tables, units,*)
(* registers, log sizes and clocks, and for databases and statements that  *)
(* fail at any time.                                                       *)
(***************************************************************************)
EXTENDS Alarm, SequenceTheorems, WellFoundedInduction, TLAPS

\* The engine's fields are functions of a unit and of an entry of its table.
FieldOf(f) == f = [u \in Units |-> [k \in Entries(u) |-> f[u][k]]]
EntryFields == FieldOf(active) /\ FieldOf(prev) /\ FieldOf(seen) /\ FieldOf(told)

\* The monitor is at an entry of a registered context, or between passes.
CursorInside ==
  /\ cur \in (Nat \ {0}) \X (Nat \ {0})
  /\ mon # "eval" => cur = <<1, 1>>
  /\ mon = "eval" => cur[1] \in 1 .. Len(ctxs) /\ cur[2] \in Entries(ctxs[cur[1]])

\* What was last said of an entry is what the engine remembers of it, and what it
\* remembers is what the value last read says.
ToldFollowsState ==
  /\ ~repeated
  /\ \A u \in Units : \A k \in Entries(u) :
       IF Table[u][k].cond = "CHANGE"
       THEN told[u][k] = prev[u][k] /\ (seen[u][k] # Unread => seen[u][k] = prev[u][k])
       ELSE /\ told[u][k] = IF active[u][k] THEN "TRIGGER" ELSE "CLEAR"
            /\ seen[u][k] # Unread => (active[u][k] <=> Triggered(Table[u][k], seen[u][k]))

\* No row is from the future.
RowsUntilNow ==
  /\ clock \in 1 .. MaxClock
  /\ dropped \in [Sinks -> 0 .. MaxClock] /\ miscounts \in [Sinks -> 0 .. MaxMiscounts]
  /\ \A s \in Sinks : dropped[s] <= clock /\ \A i \in DOMAIN rows[s] : rows[s][i] <= clock

\* The monitor runs only between its start and its join.
MonitorJoined ==
  /\ main = "start" => mon = "none"
  /\ main \in {"close", "done"} => mon \in {"none", "stopped"}

\* The inductive invariant, in the parts that different steps disturb.
EngineInv == EntryFields /\ ToldFollowsState
LogInv    == RowsUntilNow /\ NewestKept /\ OneSlotPerLog
IInv == TypeOK /\ CursorInside /\ EngineInv /\ LogInv /\ MonitorJoined /\ ClosedForGood

-----------------------------------------------------------------------------
\* A value that was read is not the mark of an entry never read.
LEMMA ReadValues == 0 \in Values /\ Unread \notin Values
  BY AlarmAssumption DEF Unread

\* The bounds on the log and on the clock.
LEMMA Bounds ==
  /\ MaxCtxs \in Nat \ {0} /\ MaxDbs \in Nat \ {0} /\ MaxRows \in Nat \ {0}
  /\ MaxClock \in Nat \ {0} /\ MaxMiscounts \in Nat
  BY AlarmAssumption

\* An assignment to one entry of a field leaves all the others as they were.
Put(f, u, k, v) == [f EXCEPT ![u][k] = v]
LEMMA UpdateEntry ==
  ASSUME NEW f, FieldOf(f), NEW u \in Units, NEW k \in Entries(u), NEW v
  PROVE  /\ FieldOf(Put(f, u, k, v))
         /\ Put(f, u, k, v)[u][k] = v
         /\ \A w \in Units : \A j \in Entries(w) :
              (w # u \/ j # k) => Put(f, u, k, v)[w][j] = f[w][j]
<1> DEFINE g == Put(f, u, k, v)
<1>1. f[u] = [j \in Entries(u) |-> f[u][j]]
  BY DEF FieldOf
<1>2. g[u] = [j \in Entries(u) |-> IF j = k THEN v ELSE f[u][j]]
  BY <1>1 DEF FieldOf, Put
<1>3. \A w \in Units : w # u => g[w] = f[w]
  BY DEF FieldOf, Put
<1>4. \A w \in Units : g[w] = [j \in Entries(w) |-> g[w][j]]
  <2> TAKE w \in Units
  <2>1. CASE w = u
    BY <1>2, <2>1
  <2>2. CASE w # u
    BY <1>3, <2>2 DEF FieldOf
  <2> QED
    BY <2>1, <2>2
<1>5. FieldOf(g)
  BY <1>4 DEF FieldOf, Put
<1> QED
  BY <1>2, <1>3, <1>5

\* A set of natural numbers has a least element.
LEMMA LeastNatural ==
  ASSUME NEW T, T \subseteq Nat, T # {}
  PROVE  \E x \in T : \A y \in T : x <= y
<1>1. PICK x \in T : \A y \in T : ~ (<<y, x>> \in OpToRel(<, Nat))
  BY WFMin, NatLessThanWellFounded, Zenon
<1>2. \A y \in T : ~ (y < x)
  BY <1>1 DEF OpToRel
<1> QED
  BY <1>2

\* ORDER BY timestamp, id LIMIT 1 finds a row, and none is older.
LEMMA OldestRow ==
  ASSUME TypeOK, NEW s \in Sinks, rows[s] # << >>
  PROVE  /\ Oldest(s) \in DOMAIN rows[s]
         /\ \A j \in DOMAIN rows[s] : rows[s][Oldest(s)] <= rows[s][j]
<1>1. rows[s] \in Seq(1 .. MaxClock) /\ DOMAIN rows[s] = 1 .. Len(rows[s])
      /\ Len(rows[s]) \in Nat \ {0}
      /\ \A i \in DOMAIN rows[s] : rows[s][i] \in Nat
  BY Bounds DEF TypeOK
<1> DEFINE stamps == {rows[s][i] : i \in DOMAIN rows[s]}
<1>2. PICK t \in stamps : \A y \in stamps : t <= y
  <2>1. stamps \subseteq Nat /\ stamps # {}
    <3>1. 1 \in DOMAIN rows[s]
      BY <1>1
    <3>2. rows[s][1] \in stamps
      BY <3>1
    <3>3. stamps \subseteq Nat
      BY <1>1
    <3> QED
      BY <3>2, <3>3
  <2> QED
    BY <2>1, LeastNatural
<1> DEFINE first == {i \in DOMAIN rows[s] : rows[s][i] = t}
<1>3. PICK i \in first : \A j \in first : i <= j
  <2>1. first \subseteq Nat /\ first # {}
    BY <1>1
  <2> QED
    BY <2>1, LeastNatural
<1>4. \A j \in DOMAIN rows[s] :
        rows[s][i] < rows[s][j] \/ (rows[s][i] = rows[s][j] /\ i <= j)
  <2> TAKE j \in DOMAIN rows[s]
  <2>1. rows[s][j] \in stamps /\ rows[s][i] = t /\ rows[s][j] \in Nat /\ t \in Nat
    BY <1>1, <1>3
  <2>2. t <= rows[s][j]
    BY <1>2, <2>1
  <2>3. rows[s][j] = t => i <= j
    BY <1>3
  <2> HIDE DEF stamps, first
  <2> QED
    BY <2>1, <2>2, <2>3
<1>5. /\ Oldest(s) \in DOMAIN rows[s]
      /\ \A j \in DOMAIN rows[s] :
           \/ rows[s][Oldest(s)] < rows[s][j]
           \/ rows[s][Oldest(s)] = rows[s][j] /\ Oldest(s) <= j
  BY <1>3, <1>4 DEF Oldest
<1> QED
  BY <1>1, <1>5

-----------------------------------------------------------------------------
\* write_log keeps the newest rows, whether it inserts, overwrites or writes
\* nothing: what it overwrites is no newer than the rows that stay.
LEMMA WriteLogInv ==
  ASSUME TypeOK, RowsUntilNow, NewestKept, NEW s \in Sinks, WriteLog(s), clock' = clock
  PROVE  rows' \in [Sinks -> Seq(1 .. MaxClock)] /\ RowsUntilNow' /\ NewestKept'
<1> USE Bounds DEF RowsUntilNow
<1>1. /\ rows \in [Sinks -> Seq(1 .. MaxClock)]
      /\ miscounts' \in [Sinks -> 0 .. MaxMiscounts]
  <2>1. miscounts' = miscounts
        \/ (miscounts[s] < MaxMiscounts /\ miscounts' = [miscounts EXCEPT ![s] = @ + 1])
    BY DEF WriteLog
  <2>2. rows \in [Sinks -> Seq(1 .. MaxClock)]
    BY DEF TypeOK
  <2>3. miscounts[s] < MaxMiscounts => miscounts[s] + 1 \in 0 .. MaxMiscounts
    OBVIOUS
  <2>4. miscounts' \in [Sinks -> 0 .. MaxMiscounts]
    BY <2>1, <2>3
  <2> QED
    BY <2>2, <2>4
<1>2. CASE UNCHANGED <<rows, dropped>>
  BY <1>1, <1>2 DEF NewestKept
<1>3. CASE Insert(s)
  <2>1. /\ rows' = [rows EXCEPT ![s] = Append(rows[s], clock)] /\ dropped' = dropped
        /\ Append(rows[s], clock) \in Seq(1 .. MaxClock)
        /\ DOMAIN Append(rows[s], clock) = 1 .. Len(rows[s]) + 1
        /\ \A i \in 1 .. Len(rows[s]) + 1 :
             Append(rows[s], clock)[i] = IF i <= Len(rows[s]) THEN rows[s][i] ELSE clock
    BY <1>1, <1>3 DEF Insert
  <2>2. \A i \in DOMAIN rows'[s] :
          rows'[s][i] = clock \/ (i \in DOMAIN rows[s] /\ rows'[s][i] = rows[s][i])
    BY <1>1, <2>1
  <2>3. \A z \in Sinks \ {s} : rows'[z] = rows[z]
    BY <1>1, <2>1
  <2>4. \A z \in Sinks : \A i \in DOMAIN rows'[z] : rows'[z][i] <= clock /\ dropped[z] <= rows'[z][i]
    BY <2>2, <2>3 DEF NewestKept
  <2> QED
    BY <1>1, <2>1, <2>4 DEF NewestKept
<1>4. CASE Rotate(s) /\ ~HasRoom(s)
  <2>1. rows[s] # << >>
    BY <1>4 DEF HasRoom
  <2>2. PICK i \in DOMAIN rows[s] :
          /\ \A j \in DOMAIN rows[s] : rows[s][i] <= rows[s][j]
          /\ rows' = [rows EXCEPT ![s][i] = clock]
          /\ dropped' = [dropped EXCEPT ![s] = IF rows[s][i] > @ THEN rows[s][i] ELSE @]
    BY <1>4, <2>1, OldestRow DEF Rotate
  <2>3. /\ rows' = [rows EXCEPT ![s] = [rows[s] EXCEPT ![i] = clock]]
        /\ [rows[s] EXCEPT ![i] = clock] \in Seq(1 .. MaxClock)
    BY <1>1, <2>2
  <2>4. /\ DOMAIN rows'[s] = DOMAIN rows[s] /\ rows'[s][i] = clock
        /\ \A j \in DOMAIN rows[s] : j # i => rows'[s][j] = rows[s][j]
        /\ \A z \in Sinks \ {s} : rows'[z] = rows[z] /\ dropped'[z] = dropped[z]
        /\ dropped'[s] = IF rows[s][i] > dropped[s] THEN rows[s][i] ELSE dropped[s]
        /\ rows[s][i] \in 1 .. MaxClock
    BY <1>1, <2>2, <2>3
  <2>5. \A z \in Sinks : /\ dropped'[z] <= clock
                         /\ \A j \in DOMAIN rows'[z] :
                              rows'[z][j] <= clock /\ dropped'[z] <= rows'[z][j]
    <3>1. ASSUME NEW j \in DOMAIN rows[s]
          PROVE  rows[s][j] \in 1 .. MaxClock /\ rows[s][i] <= rows[s][j]
                 /\ dropped[s] <= rows[s][j] /\ rows[s][j] <= clock
      BY <1>1, <2>2 DEF NewestKept
    <3>2. dropped'[s] <= clock /\ \A j \in DOMAIN rows'[s] :
                                    rows'[s][j] <= clock /\ dropped'[s] <= rows'[s][j]
      BY <2>4, <3>1
    <3>3. ASSUME NEW z \in Sinks \ {s}
          PROVE  dropped'[z] <= clock /\ \A j \in DOMAIN rows'[z] :
                                           rows'[z][j] <= clock /\ dropped'[z] <= rows'[z][j]
      BY <2>4 DEF NewestKept
    <3> QED
      BY <3>2, <3>3
  <2>6. rows' \in [Sinks -> Seq(1 .. MaxClock)] /\ dropped' \in [Sinks -> 0 .. MaxClock]
    <3>1. (IF rows[s][i] > dropped[s] THEN rows[s][i] ELSE dropped[s]) \in 0 .. MaxClock
      BY <2>4
    <3> QED
      BY <1>1, <2>2, <2>3, <3>1
  <2> QED
    BY <1>1, <2>5, <2>6 DEF NewestKept
<1> QED
  BY <1>2, <1>3, <1>4 DEF WriteLog

\* An event reaches its log, opens it, or is dropped: the log keeps the newest rows
\* and no path gets a second slot, failed or not.
LEMMA HandleEventInv ==
  ASSUME TypeOK, LogInv, NEW s \in Sinks, HandleEvent(s), clock' = clock
  PROVE  /\ rows' \in [Sinks -> Seq(1 .. MaxClock)]
         /\ dbs' \in Seq([path : Sinks, open : BOOLEAN])
         /\ LogInv'
<1> USE DEF LogInv
<1>1. /\ rows \in [Sinks -> Seq(1 .. MaxClock)]
      /\ dbs \in Seq([path : Sinks, open : BOOLEAN])
  BY DEF TypeOK
<1>2. \/ WriteLog(s)
      \/ UNCHANGED <<rows, dropped, miscounts>>
  BY DEF HandleEvent, logVars
<1>3. rows' \in [Sinks -> Seq(1 .. MaxClock)] /\ RowsUntilNow' /\ NewestKept'
  <2>1. CASE WriteLog(s)
    BY <2>1, WriteLogInv
  <2>2. CASE UNCHANGED <<rows, dropped, miscounts>>
    BY <1>1, <2>2 DEF RowsUntilNow, NewestKept
  <2> QED
    BY <1>2, <2>1, <2>2
<1>4. dbs' \in Seq([path : Sinks, open : BOOLEAN]) /\ OneSlotPerLog'
  <2>1. CASE dbs' = dbs
    BY <1>1, <2>1 DEF OneSlotPerLog
  <2>2. ASSUME NEW ok \in BOOLEAN, OpenDb(s, ok)
        PROVE  dbs' \in Seq([path : Sinks, open : BOOLEAN]) /\ OneSlotPerLog'
    <3>1. dbs' = Append(dbs, [path |-> s, open |-> ok])
          /\ \A i \in DOMAIN dbs : dbs[i].path # s
      BY <2>2 DEF OpenDb, Known
    <3>2. dbs' \in Seq([path : Sinks, open : BOOLEAN])
      BY <1>1, <3>1
    <3>3. /\ DOMAIN dbs = 1 .. Len(dbs) /\ DOMAIN dbs' = 1 .. Len(dbs) + 1
          /\ Len(dbs) \in Nat /\ dbs'[Len(dbs) + 1].path = s
          /\ \A i \in 1 .. Len(dbs) : dbs'[i] = dbs[i]
      BY <1>1, <3>1
    <3> QED
      BY <3>1, <3>2, <3>3 DEF OneSlotPerLog
  <2> QED
    BY <2>1, <2>2 DEF HandleEvent, logVars
<1> QED
  BY <1>3, <1>4

-----------------------------------------------------------------------------
\* A table has entries 1, 2, ...
LEMMA Tables ==
  ASSUME NEW u \in Units
  PROVE  Len(Table[u]) \in Nat \ {0} /\ Entries(u) = 1 .. Len(Table[u])
  BY TableAssumption DEF Entries

\* The monitor goes from entry to entry, from context to context, and to sleep
\* after the last.
LEMMA NextCursor ==
  ASSUME TypeOK, CursorInside, mon = "eval", ctxs' = ctxs, NEW event, Goto(Following(event))
  PROVE  CursorInside' /\ mon' \in {"sleep", "eval"} /\ cur'[1] \in 1 .. MaxCtxs
<1>1. /\ ctxs \in Seq(Units) /\ Len(ctxs) \in Nat /\ Len(ctxs) <= MaxCtxs
      /\ cur \in (Nat \ {0}) \X (Nat \ {0})
      /\ cur[1] \in 1 .. Len(ctxs) /\ cur[2] \in Entries(ctxs[cur[1]])
      /\ \A i \in 1 .. Len(ctxs) : ctxs[i] \in Units
  BY DEF TypeOK, CursorInside
<1>2. PICK u \in Units : u = ctxs[cur[1]]
  BY <1>1
<1>3. /\ Len(Table[u]) \in Nat \ {0} /\ Entries(u) = 1 .. Len(Table[u])
      /\ \A i \in 1 .. Len(ctxs) : 1 \in Entries(ctxs[i])
  BY <1>1, Tables
<1>4. CASE cur[2] < Len(Table[u])
  <2>1. mon' = "eval" /\ cur' = <<cur[1], cur[2] + 1>>
    BY <1>1, <1>2, <1>4 DEF Goto, Following
  <2>2. cur[2] + 1 \in Entries(u)
    BY <1>1, <1>2, <1>3, <1>4
  <2> QED
    BY <1>1, <1>2, <1>3, <2>1, <2>2, Bounds DEF CursorInside
<1>5. CASE ~(cur[2] < Len(Table[u]))
  <2>1. Following(event) = <<cur[1] + 1, 1>>
    BY <1>1, <1>2, <1>5 DEF Following
  <2>2. CASE cur[1] + 1 > Len(ctxs)
    BY <1>1, <2>1, <2>2, Bounds DEF Goto, CursorInside
  <2>3. CASE cur[1] + 1 <= Len(ctxs)
    <3>1. mon' = "eval" /\ cur' = <<cur[1] + 1, 1>>
      BY <1>1, <2>1, <2>3 DEF Goto
    <3>2. cur[1] + 1 \in 1 .. Len(ctxs)
      BY <1>1, <2>3
    <3>3. 1 \in Entries(ctxs[cur[1] + 1])
      BY <1>3, <3>2
    <3> QED
      BY <1>1, <3>1, <3>2, <3>3, Bounds DEF CursorInside
  <2> QED
    BY <1>1, <2>2, <2>3
<1> QED
  BY <1>4, <1>5

-----------------------------------------------------------------------------
\* One evaluation of entry k of unit u, which read v, as far as the engine and the
\* log go.
Evaluated(u, k, v) ==
  LET event == EventFor(u, k, v)
  IN  /\ Remember(u, k, v, event)
      /\ seen' = [seen EXCEPT ![u][k] = v]
      /\ IF event = "none" THEN UNCHANGED <<told, repeated, logVars>>
         ELSE /\ told' = [told EXCEPT ![u][k] = Saying(u, k, v, event)]
              /\ repeated' = (repeated \/ told[u][k] = Saying(u, k, v, event))
              /\ HandleEvent(Sink[u])

\* That is what the monitor does with the entry it is at.
LEMMA EvaluateFacts ==
  ASSUME TypeOK, CursorInside, EvaluateEntry
  PROVE  \E u \in Units : \E k \in Entries(u) : \E v \in Values : Evaluated(u, k, v)
<1> DEFINE u == ctxs[cur[1]]
           k == cur[2]
           v == pool[Table[u][k].reg]
<1>1. u \in Units /\ k \in Entries(u)
  <2>1. ctxs \in Seq(Units) /\ cur[1] \in 1 .. Len(ctxs) /\ cur[2] \in Entries(ctxs[cur[1]])
    BY DEF EvaluateEntry, TypeOK, CursorInside
  <2> QED
    BY <2>1
<1>2. v \in Values
  BY DEF EvaluateEntry, TypeOK
<1>3. Evaluated(u, k, v)
  BY DEF EvaluateEntry, Evaluated
<1> HIDE DEF u, k, v
<1> QED
  BY <1>1, <1>2, <1>3

\* A register watched for changes: an event for each new value, once.
LEMMA WatchedEntry ==
  ASSUME NEW u \in Units, NEW k \in Entries(u), NEW v \in Values, Evaluated(u, k, v),
         EngineInv, Table[u][k].cond = "CHANGE"
  PROVE  /\ active' = active /\ prev' = [prev EXCEPT ![u][k] = v]
         /\ seen' = [seen EXCEPT ![u][k] = v] /\ ~repeated'
         /\ told' = [told EXCEPT ![u][k] = v] \/ (told' = told /\ told[u][k] = v)
<1>1. told[u][k] = prev[u][k] /\ ~repeated
  BY DEF EngineInv, ToldFollowsState
<1>2. /\ active' = active /\ prev' = [prev EXCEPT ![u][k] = v]
      /\ seen' = [seen EXCEPT ![u][k] = v]
  BY DEF Evaluated, Remember
<1>3. CASE v = prev[u][k]
  <2>1. EventFor(u, k, v) = "none"
    BY <1>3 DEF EventFor
  <2> QED
    BY <1>1, <1>2, <1>3, <2>1 DEF Evaluated
<1>4. CASE v # prev[u][k]
  <2>1. EventFor(u, k, v) = "TRIGGER" /\ Saying(u, k, v, EventFor(u, k, v)) = v
    BY <1>4 DEF EventFor, Saying
  <2> QED
    BY <1>1, <1>2, <1>4, <2>1 DEF Evaluated
<1> QED
  BY <1>3, <1>4

\* A sticky condition: an event when it begins and one when it ends, once each.
LEMMA StickyEntry ==
  ASSUME NEW u \in Units, NEW k \in Entries(u), NEW v \in Values, Evaluated(u, k, v),
         EngineInv, active[u][k] \in BOOLEAN, Table[u][k].cond # "CHANGE"
  PROVE  /\ prev' = prev
         /\ seen' = [seen EXCEPT ![u][k] = v] /\ ~repeated'
         /\ \/ /\ Triggered(Table[u][k], v)
               /\ active' = [active EXCEPT ![u][k] = TRUE]
               /\ \/ told' = [told EXCEPT ![u][k] = "TRIGGER"]
                  \/ told' = told /\ told[u][k] = "TRIGGER"
            \/ /\ ~Triggered(Table[u][k], v)
               /\ active' = [active EXCEPT ![u][k] = FALSE]
               /\ \/ told' = [told EXCEPT ![u][k] = "CLEAR"]
                  \/ told' = told /\ told[u][k] = "CLEAR"
<1>1. told[u][k] = (IF active[u][k] THEN "TRIGGER" ELSE "CLEAR") /\ ~repeated
  BY DEF EngineInv, ToldFollowsState
<1>2. prev' = prev /\ seen' = [seen EXCEPT ![u][k] = v]
  BY DEF Evaluated, Remember
<1>3. CASE Triggered(Table[u][k], v) /\ ~active[u][k]
  <2>1. EventFor(u, k, v) = "TRIGGER" /\ Saying(u, k, v, EventFor(u, k, v)) = "TRIGGER"
    BY <1>3 DEF EventFor, Saying
  <2>2. active' = [active EXCEPT ![u][k] = TRUE]
    BY <2>1 DEF Evaluated, Remember
  <2> QED
    BY <1>1, <1>2, <1>3, <2>1, <2>2 DEF Evaluated
<1>4. CASE ~Triggered(Table[u][k], v) /\ active[u][k]
  <2>1. EventFor(u, k, v) = "CLEAR" /\ Saying(u, k, v, EventFor(u, k, v)) = "CLEAR"
    BY <1>4 DEF EventFor, Saying
  <2>2. active' = [active EXCEPT ![u][k] = FALSE]
    BY <2>1 DEF Evaluated, Remember
  <2> QED
    BY <1>1, <1>2, <1>4, <2>1, <2>2 DEF Evaluated
<1>5. CASE Triggered(Table[u][k], v) <=> active[u][k]
  <2>1. EventFor(u, k, v) = "none"
    BY <1>5 DEF EventFor
  <2>2. active' = [active EXCEPT ![u][k] = active[u][k]]
    BY <2>1 DEF Evaluated, Remember
  <2> QED
    BY <1>1, <1>2, <1>5, <2>1, <2>2 DEF Evaluated
<1> QED
  BY <1>3, <1>4, <1>5

\* The values the engine keeps, entry by entry.
EntryValues ==
  \A u \in Units : \A k \in Entries(u) :
    active[u][k] \in BOOLEAN /\ prev[u][k] \in Values /\ seen[u][k] \in Values \union {Unread}

\* A field has a type when its entries have.
LEMMA FieldType ==
  ASSUME NEW f, FieldOf(f), NEW u \in Units, NEW S
  PROVE  f[u] \in [Entries(u) -> S] <=> \A k \in Entries(u) : f[u][k] \in S
<1>1. f[u] = [k \in Entries(u) |-> f[u][k]]
  BY DEF FieldOf
<1> QED
  BY <1>1

\* Together with the shape of the fields they are their types.
LEMMA EntryTypes ==
  ASSUME EntryFields
  PROVE  EntryValues <=> \A u \in Units : /\ active[u] \in [Entries(u) -> BOOLEAN]
                                          /\ prev[u] \in [Entries(u) -> Values]
                                          /\ seen[u] \in [Entries(u) -> Values \union {Unread}]
<1>1. ASSUME NEW u \in Units
      PROVE  /\ active[u] \in [Entries(u) -> BOOLEAN]
                  <=> \A k \in Entries(u) : active[u][k] \in BOOLEAN
             /\ prev[u] \in [Entries(u) -> Values]
                  <=> \A k \in Entries(u) : prev[u][k] \in Values
             /\ seen[u] \in [Entries(u) -> Values \union {Unread}]
                  <=> \A k \in Entries(u) : seen[u][k] \in Values \union {Unread}
  BY <1>1, FieldType DEF EntryFields
<1> QED
  BY <1>1 DEF EntryValues

\* An evaluation leaves the engine, its memory and the events said in step.
LEMMA EvaluatedInv ==
  ASSUME EngineInv, EntryValues, NEW u \in Units, NEW k \in Entries(u), NEW v \in Values,
         Evaluated(u, k, v)
  PROVE  EngineInv' /\ EntryValues'
<1> USE DEF EngineInv, EntryFields
<1>1. active[u][k] \in BOOLEAN /\ v # Unread
  BY ReadValues DEF EntryValues
<1>2. FieldOf(seen') /\ seen'[u][k] = v
      /\ \A w \in Units : \A j \in Entries(w) : (w # u \/ j # k) => seen'[w][j] = seen[w][j]
  <2>1. seen' = Put(seen, u, k, v)
    BY DEF Evaluated, Put
  <2> QED
    BY <2>1, UpdateEntry
<1>3. CASE Table[u][k].cond = "CHANGE"
  <2>1. /\ active' = active /\ prev' = Put(prev, u, k, v) /\ ~repeated'
        /\ told' = Put(told, u, k, v) \/ (told' = told /\ told[u][k] = v)
    BY <1>3, WatchedEntry DEF Put
  <2>2. FieldOf(prev') /\ prev'[u][k] = v
        /\ \A w \in Units : \A j \in Entries(w) : (w # u \/ j # k) => prev'[w][j] = prev[w][j]
    BY <2>1, UpdateEntry
  <2>3. FieldOf(told') /\ told'[u][k] = v
        /\ \A w \in Units : \A j \in Entries(w) : (w # u \/ j # k) => told'[w][j] = told[w][j]
    BY <2>1, UpdateEntry
  <2>4. EntryFields'
    BY <1>2, <2>1, <2>2, <2>3 DEF FieldOf
  <2>5. EntryValues'
    BY <1>2, <2>1, <2>2 DEF EntryValues
  <2>6. ToldFollowsState'
    BY <1>2, <1>3, <2>1, <2>2, <2>3 DEF ToldFollowsState
  <2> QED
    BY <2>4, <2>5, <2>6
<1>4. CASE Table[u][k].cond # "CHANGE"
  <2>1. PICK b \in BOOLEAN :
          /\ b <=> Triggered(Table[u][k], v)
          /\ active' = Put(active, u, k, b)
          /\ prev' = prev /\ ~repeated'
          /\ \/ told' = Put(told, u, k, IF b THEN "TRIGGER" ELSE "CLEAR")
             \/ told' = told /\ told[u][k] = IF b THEN "TRIGGER" ELSE "CLEAR"
    BY <1>1, <1>4, StickyEntry DEF Put
  <2>2. FieldOf(active') /\ active'[u][k] = b
        /\ \A w \in Units : \A j \in Entries(w) : (w # u \/ j # k) => active'[w][j] = active[w][j]
    BY <2>1, UpdateEntry
  <2>3. FieldOf(told') /\ told'[u][k] = (IF b THEN "TRIGGER" ELSE "CLEAR")
        /\ \A w \in Units : \A j \in Entries(w) : (w # u \/ j # k) => told'[w][j] = told[w][j]
    BY <2>1, UpdateEntry
  <2>4. EntryFields'
    BY <1>2, <2>1, <2>2, <2>3 DEF FieldOf
  <2>5. EntryValues'
    BY <1>2, <2>1, <2>2 DEF EntryValues
  <2>6. ToldFollowsState'
    BY <1>2, <1>4, <2>1, <2>2, <2>3 DEF ToldFollowsState
  <2> QED
    BY <2>4, <2>5, <2>6
<1> QED
  BY <1>3, <1>4

-----------------------------------------------------------------------------
\* Nothing is registered twice, said or logged when the program starts.
LEMMA InitIInv == Init => IInv
<1> SUFFICES ASSUME Init PROVE IInv
  OBVIOUS
<1> USE Bounds, ReadValues
<1>1. ctxs \in Seq(Units) /\ Len(ctxs) <= MaxCtxs
  <2>1. PICK n \in 0 .. MaxCtxs : ctxs \in [1 .. n -> Units]
    BY DEF Init
  <2>2. n \in Nat
    BY <2>1
  <2> QED
    BY <2>1, <2>2
<1>2. EntryFields /\ EntryValues
  <2>1. /\ active = [u \in Units |-> [k \in Entries(u) |-> FALSE]]
        /\ prev = [u \in Units |-> [k \in Entries(u) |-> 0]]
        /\ seen = [u \in Units |-> [k \in Entries(u) |-> Unread]]
        /\ told = [u \in Units |-> [k \in Entries(u) |->
                     IF Table[u][k].cond = "CHANGE" THEN 0 ELSE "CLEAR"]]
    BY DEF Init, PerEntry
  <2>2. FieldOf(active) /\ FieldOf(prev) /\ FieldOf(seen) /\ FieldOf(told)
    BY <2>1 DEF FieldOf
  <2>3. EntryValues
    BY <2>1 DEF EntryValues
  <2> QED
    BY <2>2, <2>3 DEF EntryFields
<1>3. ToldFollowsState
  BY DEF Init, PerEntry, ToldFollowsState
<1>4. RowsUntilNow /\ NewestKept /\ OneSlotPerLog
  BY DEF Init, RowsUntilNow, NewestKept, OneSlotPerLog
<1>5. TypeOK
  <2>1. \A u \in Units : /\ active[u] \in [Entries(u) -> BOOLEAN]
                         /\ prev[u] \in [Entries(u) -> Values]
                         /\ seen[u] \in [Entries(u) -> Values \union {Unread}]
    BY <1>2, EntryTypes
  <2>2. rows \in [Sinks -> Seq(1 .. MaxClock)] /\ dbs \in Seq([path : Sinks, open : BOOLEAN])
    BY DEF Init
  <2>3. pool \in [Registers -> Values]
    BY DEF Init
  <2>4. cur[1] \in 1 .. MaxCtxs /\ cur[2] \in Nat \ {0}
    BY DEF Init
  <2>5. /\ running \in BOOLEAN /\ repeated \in BOOLEAN /\ mon = "none" /\ main = "start"
    BY DEF Init
  <2> QED
    BY <1>1, <2>1, <2>2, <2>3, <2>4, <2>5 DEF TypeOK
<1>6. CursorInside /\ MonitorJoined /\ ClosedForGood
  BY DEF Init, CursorInside, MonitorJoined, ClosedForGood
<1> QED
  BY <1>2, <1>3, <1>4, <1>5, <1>6 DEF IInv, EngineInv, LogInv

\* Where the engine and the log stay as they are, so do their parts of the
\* invariant.
LEMMA EngineAndLogKept ==
  ASSUME EngineInv, LogInv, TypeOK, UNCHANGED engineVars, UNCHANGED logVars, clock' = clock
  PROVE  /\ EngineInv' /\ LogInv'
         /\ rows' \in [Sinks -> Seq(1 .. MaxClock)]
         /\ dbs' \in Seq([path : Sinks, open : BOOLEAN]) /\ repeated' \in BOOLEAN
         /\ \A u \in Units : /\ active'[u] \in [Entries(u) -> BOOLEAN]
                             /\ prev'[u] \in [Entries(u) -> Values]
                             /\ seen'[u] \in [Entries(u) -> Values \union {Unread}]
<1>1. EngineInv'
  BY DEF EngineInv, EntryFields, FieldOf, ToldFollowsState, engineVars
<1>2. LogInv'
  BY DEF LogInv, RowsUntilNow, NewestKept, OneSlotPerLog, logVars
<1> QED
  BY <1>1, <1>2 DEF TypeOK, engineVars, logVars

\* The steps of the monitor that evaluate nothing.
LEMMA MonitorMovesIInv ==
  ASSUME IInv, BeginPass \/ SkipEntry \/ MonitorExits
  PROVE  IInv'
<1> USE DEF IInv
<1>1. /\ UNCHANGED engineVars /\ UNCHANGED logVars
      /\ clock' = clock /\ pool' = pool /\ ctxs' = ctxs /\ running' = running /\ main' = main
  BY DEF BeginPass, SkipEntry, MonitorExits
<1>2. /\ CursorInside' /\ mon' \in {"sleep", "eval", "stopped"}
      /\ cur'[1] \in 1 .. MaxCtxs /\ mon \in {"warming", "sleep", "eval"}
  <2>1. CASE BeginPass
    <3>1. /\ ctxs \in Seq(Units) /\ Len(ctxs) \in Nat
          /\ \A i \in 1 .. Len(ctxs) : ctxs[i] \in Units /\ 1 \in Entries(ctxs[i])
      <4>1. ctxs \in Seq(Units)
        BY DEF TypeOK
      <4>2. Len(ctxs) \in Nat /\ \A i \in 1 .. Len(ctxs) : ctxs[i] \in Units
        BY <4>1
      <4>3. \A u \in Units : 1 \in Entries(u)
        BY Tables
      <4> QED
        BY <4>1, <4>2, <4>3
    <3>2. CASE 1 > Len(ctxs)
      BY <1>1, <2>1, <3>1, <3>2, Bounds DEF BeginPass, Goto, CursorInside
    <3>3. CASE 1 <= Len(ctxs)
      <4>1. mon' = "eval" /\ cur' = <<1, 1>> /\ 1 \in 1 .. Len(ctxs)
        BY <2>1, <3>1, <3>3 DEF BeginPass, Goto
      <4> QED
        BY <1>1, <2>1, <3>1, <4>1, Bounds DEF BeginPass, CursorInside
    <3> QED
      BY <3>1, <3>2, <3>3
  <2>2. CASE SkipEntry
    BY <1>1, <2>2, NextCursor DEF SkipEntry
  <2>3. CASE MonitorExits
    BY <1>1, <2>3, Bounds DEF MonitorExits, CursorInside
  <2> QED
    BY <2>1, <2>2, <2>3
<1>3. TypeOK'
  <2>1. cur'[2] \in Nat \ {0}
    BY <1>2 DEF CursorInside
  <2> QED
    BY <1>1, <1>2, <2>1, EngineAndLogKept DEF TypeOK
<1>4. MonitorJoined' /\ ClosedForGood'
  BY <1>1, <1>2 DEF MonitorJoined, ClosedForGood, logVars
<1> QED
  BY <1>1, <1>2, <1>3, <1>4, EngineAndLogKept

\* The evaluation of an entry, with all that follows from an event.
LEMMA EvaluateIInv ==
  ASSUME IInv, EvaluateEntry
  PROVE  IInv'
<1> USE DEF IInv
<1>1. /\ clock' = clock /\ pool' = pool /\ ctxs' = ctxs /\ running' = running
      /\ main' = main /\ mon = "eval"
  <2>1. mon = "eval" /\ UNCHANGED <<pool, ctxs, running, clock, main>>
    BY Zenon DEF EvaluateEntry
  <2> QED
    BY <2>1
<1>2. PICK u \in Units : \E k \in Entries(u) : \E v \in Values : Evaluated(u, k, v)
  BY EvaluateFacts
<1>3. PICK k \in Entries(u) : \E v \in Values : Evaluated(u, k, v)
  BY <1>2
<1>4. PICK v \in Values : Evaluated(u, k, v)
  BY <1>3
<1>5. EngineInv' /\ EntryValues'
  <2>1. EntryValues
    BY EntryTypes DEF EngineInv, TypeOK
  <2> QED
    BY <1>4, <2>1, EvaluatedInv
<1>6. /\ rows' \in [Sinks -> Seq(1 .. MaxClock)]
      /\ dbs' \in Seq([path : Sinks, open : BOOLEAN])
      /\ LogInv'
  <2>1. CASE HandleEvent(Sink[u])
    <3>1. Sink[u] \in Sinks
      BY DEF Sinks
    <3> QED
      BY <1>1, <2>1, <3>1, HandleEventInv
  <2>2. CASE UNCHANGED logVars
    BY <1>1, <2>2 DEF LogInv, RowsUntilNow, NewestKept, OneSlotPerLog, logVars, TypeOK
  <2> QED
    BY <1>4, <2>1, <2>2 DEF Evaluated
<1>7. CursorInside' /\ mon' \in {"sleep", "eval"} /\ cur'[1] \in 1 .. MaxCtxs
  <2>1. \E event : Goto(Following(event))
    BY DEF EvaluateEntry
  <2> QED
    BY <1>1, <2>1, NextCursor
<1>8. TypeOK'
  <2>1. cur'[2] \in Nat \ {0}
    BY <1>7 DEF CursorInside
  <2>2. \A w \in Units : /\ active'[w] \in [Entries(w) -> BOOLEAN]
                         /\ prev'[w] \in [Entries(w) -> Values]
                         /\ seen'[w] \in [Entries(w) -> Values \union {Unread}]
    <3> TAKE w \in Units
    <3>1. FieldOf(active') /\ FieldOf(prev') /\ FieldOf(seen')
      BY <1>5 DEF EngineInv, EntryFields, FieldOf
    <3>2. \A j \in Entries(w) : /\ active'[w][j] \in BOOLEAN /\ prev'[w][j] \in Values
                               /\ seen'[w][j] \in Values \union {Unread}
      BY <1>5 DEF EntryValues, Entries
    <3>3. active'[w] \in [Entries(w) -> BOOLEAN]
      BY <3>1, <3>2, FieldType
    <3>4. prev'[w] \in [Entries(w) -> Values]
      BY <3>1, <3>2, FieldType
    <3>5. seen'[w] \in [Entries(w) -> Values \union {Unread}]
      BY <3>1, <3>2, FieldType
    <3> QED
      BY <3>3, <3>4, <3>5
  <2>3. repeated' \in BOOLEAN
    <3>1. repeated' = repeated \/ repeated' = (repeated \/ told[u][k] = Saying(u, k, v, EventFor(u, k, v)))
      BY <1>4 DEF Evaluated
    <3> QED
      BY <3>1 DEF TypeOK
  <2> QED
    BY <1>1, <1>6, <1>7, <2>1, <2>2, <2>3 DEF TypeOK
<1>9. MonitorJoined' /\ ClosedForGood'
  BY <1>1, <1>7 DEF MonitorJoined, ClosedForGood
<1> QED
  BY <1>5, <1>6, <1>7, <1>8, <1>9

\* The main thread: alarm_bridge_start, stop and join, and alarm_manager_close.
LEMMA MainMovesIInv ==
  ASSUME IInv, (\E ok \in BOOLEAN : Start(ok)) \/ Stop \/ Join \/ Close
  PROVE  IInv'
<1> USE DEF IInv
<1>1. /\ UNCHANGED engineVars /\ rows' = rows /\ dropped' = dropped /\ miscounts' = miscounts
      /\ clock' = clock /\ pool' = pool /\ ctxs' = ctxs /\ cur' = cur
  BY DEF Start, Stop, Join, Close, logVars
<1>2. (dbs' = dbs /\ main' # "done") \/ (dbs' = << >> /\ main' = "done")
  BY DEF Start, Stop, Join, Close, logVars
<1>3. /\ running' \in BOOLEAN /\ main' \in {"serve", "join", "close", "done"}
      /\ mon' = mon \/ (mon = "none" /\ mon' = "warming" /\ main' = "serve")
      /\ main' = "close" => mon' \in {"none", "stopped"}
      /\ main' = "done" => main = "close" /\ mon' = mon
  BY DEF Start, Stop, Join, Close, MonitorJoined, TypeOK
<1>4. dbs' \in Seq([path : Sinks, open : BOOLEAN]) /\ OneSlotPerLog'
  <2>1. CASE dbs' = dbs
    BY <2>1 DEF LogInv, OneSlotPerLog, TypeOK
  <2>2. CASE dbs' = << >>
    BY <2>2 DEF OneSlotPerLog
  <2> QED
    BY <1>2, <2>1, <2>2
<1>5. RowsUntilNow' /\ NewestKept'
  BY <1>1 DEF LogInv, RowsUntilNow, NewestKept
<1>6. EngineInv'
  BY <1>1 DEF EngineInv, EntryFields, FieldOf, ToldFollowsState, engineVars
<1>7. CursorInside'
  BY <1>1, <1>3 DEF CursorInside
<1>8. TypeOK'
  BY <1>1, <1>3, <1>4 DEF TypeOK, engineVars
<1>9. MonitorJoined' /\ ClosedForGood'
  BY <1>2, <1>3 DEF MonitorJoined, ClosedForGood
<1> QED
  BY <1>4, <1>5, <1>6, <1>7, <1>8, <1>9 DEF LogInv

\* A poll thread writes a register, and the clock moves on.
LEMMA SurroundingsIInv ==
  ASSUME IInv, (\E r \in Registers, v \in Values : PoolWrite(r, v)) \/ Tick
  PROVE  IInv'
<1> USE DEF IInv
<1>1. /\ UNCHANGED engineVars /\ UNCHANGED logVars /\ ctxs' = ctxs /\ cur' = cur
      /\ running' = running /\ mon' = mon /\ main' = main
  BY DEF PoolWrite, Tick
<1>2. pool' \in [Registers -> Values]
  BY DEF PoolWrite, Tick, TypeOK
<1>3. clock \in Nat /\ clock' \in 1 .. MaxClock /\ clock <= clock'
  BY Bounds DEF PoolWrite, Tick, LogInv, RowsUntilNow
<1>4. \A s \in Sinks : dropped[s] \in Nat /\ \A i \in DOMAIN rows[s] : rows[s][i] \in Nat
  BY Bounds DEF LogInv, RowsUntilNow, TypeOK
<1>5. LogInv'
  BY <1>1, <1>3, <1>4 DEF LogInv, RowsUntilNow, NewestKept, OneSlotPerLog, logVars
<1>6. EngineInv'
  BY <1>1 DEF EngineInv, EntryFields, FieldOf, ToldFollowsState, engineVars
<1>7. TypeOK' /\ CursorInside' /\ MonitorJoined' /\ ClosedForGood'
  BY <1>1, <1>2 DEF TypeOK, CursorInside, MonitorJoined, ClosedForGood, engineVars, logVars
<1> QED
  BY <1>5, <1>6, <1>7

\* Every step keeps the invariant.
LEMMA NextIInv ==
  ASSUME IInv, [Next]_vars
  PROVE  IInv'
<1>1. CASE EvaluateEntry
  BY <1>1, EvaluateIInv
<1>2. CASE BeginPass \/ SkipEntry \/ MonitorExits
  BY <1>2, MonitorMovesIInv
<1>3. CASE (\E ok \in BOOLEAN : Start(ok)) \/ Stop \/ Join \/ Close
  BY <1>3, MainMovesIInv
<1>4. CASE (\E r \in Registers, v \in Values : PoolWrite(r, v)) \/ Tick
  BY <1>4, SurroundingsIInv
<1>5. CASE UNCHANGED vars
  BY <1>5 DEF vars, IInv, TypeOK, CursorInside, EngineInv, EntryFields, FieldOf,
              ToldFollowsState, LogInv, RowsUntilNow, NewestKept, OneSlotPerLog,
              MonitorJoined, ClosedForGood
<1> QED
  BY <1>1, <1>2, <1>3, <1>4, <1>5 DEF Next, Monitor, Terminated

-----------------------------------------------------------------------------
\* The inductive invariant holds in every reachable state.
THEOREM Invariance == Spec => []IInv
  BY InitIInv, NextIInv, PTL DEF Spec

\* The variables keep their types; the monitor never leaves the registered contexts
\* and their tables, and no log holds a row from the future.
THEOREM Typing == Spec => []TypeOK
<1>1. IInv => TypeOK
  BY DEF IInv
<1> QED
  BY <1>1, Invariance, PTL

\* The events of an entry tell its condition as of its last evaluation, and never
\* tell it twice: evaluate_bitmask, evaluate_range and evaluate_change of
\* alarm_engine.c, whatever the tables hold and in whatever order the registers
\* change.
THEOREM EventsAreFaithful == Spec => []EventsTellState
<1>1. IInv => EventsTellState
  BY DEF IInv, EngineInv, ToldFollowsState, EventsTellState, Matches
<1> QED
  BY <1>1, Invariance, PTL

\* The rotation of write_log only ever loses the oldest rows, with counts and
\* statements that fail and any number of rows within the same second.
THEOREM NewestRowsStay == Spec => []NewestKept
<1>1. IInv => NewestKept
  BY DEF IInv, LogInv
<1> QED
  BY <1>1, Invariance, PTL

\* find_or_open_db gives each path at most one slot, opened or failed.
THEOREM OneSlotEach == Spec => []OneSlotPerLog
<1>1. IInv => OneSlotPerLog
  BY DEF IInv, LogInv
<1> QED
  BY <1>1, Invariance, PTL

\* alarm_bridge_stop joins the monitor before alarm_manager_close, so that no event
\* opens a log after it.
THEOREM StaysClosed == Spec => []ClosedForGood
<1>1. IInv => ClosedForGood
  BY DEF IInv
<1> QED
  BY <1>1, Invariance, PTL
=============================================================================

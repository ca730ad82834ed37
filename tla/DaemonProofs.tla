---------------------------- MODULE DaemonProofs -----------------------------
(* Proofs about the daemon of main.c. First what its poll threads do to the  *)
(* register pool (DataPath, RegisterMap): the binary search finds every row  *)
(* of every table, the units that serve are those of the file, and a row of  *)
(* the pool never holds a register other than its own. Then its processes    *)
(* and threads (Lifecycle), for any choice of what may fail and any number   *)
(* of signals: wherever startup broke off and whenever the signals came,     *)
(* shutdown leaves nothing behind.                                           *)
EXTENDS DataPath, Lifecycle, WellFoundedInduction, TLAPS

-----------------------------------------------------------------------------
(* The register tables and the search in them.                               *)

LEMMA Least ==
  ASSUME NEW T, T \subseteq Nat, T # {}
  PROVE  \E n \in T : \A m \in T : n <= m
<1>1. PICK n \in T : \A m \in T : ~(<<m, n>> \in OpToRel(<, Nat))
  BY WFMin, NatLessThanWellFounded, Zenon
<1>2. \A m \in T : ~(m < n)
  BY <1>1 DEF OpToRel
<1> QED
  BY <1>2

LEMMA TableFacts ==
  ASSUME NEW t, IsTable(t)
  PROVE  /\ Len(t) \in Nat \ {0} /\ DOMAIN t = 1 .. Len(t)
         /\ \A i \in DOMAIN t : t[i].dev \in Nat /\ t[i].pool \in Nat
<1>1. t \in Seq(Rows) /\ t # <<>>
  BY DEF IsTable
<1>2. \A i \in DOMAIN t : t[i] \in Rows
  BY <1>1
<1>3. \A x \in Rows : x.dev \in Nat /\ x.pool \in Nat
  BY DEF Rows
<1> QED
  BY <1>1, <1>2, <1>3

LEMMA Increasing ==
  ASSUME NEW t, IsTable(t), NEW i \in DOMAIN t, NEW j \in DOMAIN t, i < j
  PROVE  t[i].dev < t[j].dev
<1> DEFINE d(k) == t[k].dev
           T == {k \in DOMAIN t : i < k /\ ~(d(i) < d(k))}
<1>1. Len(t) \in Nat /\ DOMAIN t = 1 .. Len(t) /\ \A k \in DOMAIN t : d(k) \in Nat
  BY TableFacts
<1>2. \A k \in 1 .. Len(t) - 1 : d(k) < d(k + 1)
  BY DEF IsTable, Sorted
<1> SUFFICES ASSUME T # {} PROVE FALSE
  OBVIOUS
<1> HIDE DEF d
<1>3. T \subseteq Nat
  BY <1>1
<1>4. PICK k \in T : \A m \in T : k <= m
  BY <1>3, Least, Zenon
<1>5. k \in DOMAIN t /\ i < k /\ ~(d(i) < d(k))
  BY <1>4
<1>6. k - 1 \in DOMAIN t /\ i <= k - 1 /\ d(k - 1) < d(k)
  BY <1>1, <1>2, <1>5
<1>7. k - 1 \notin T
  BY <1>1, <1>4, <1>5
<1>8. d(i) <= d(k - 1)
  BY <1>1, <1>6, <1>7
<1> QED
  BY <1>1, <1>5, <1>6, <1>8

\* The row of an address among those from low + 1 to high.
RowIn(t, addr, low, high) ==
  IF \E i \in low + 1 .. high : t[i].dev = addr
  THEN CHOOSE i \in low + 1 .. high : t[i].dev = addr
  ELSE 0

LEMMA RowInIs ==
  ASSUME NEW t, IsTable(t), NEW addr, NEW low \in 0 .. Len(t), NEW high \in 0 .. Len(t)
  PROVE  /\ \A i \in low + 1 .. high : t[i].dev = addr => RowIn(t, addr, low, high) = i
         /\ (\A i \in low + 1 .. high : t[i].dev # addr) => RowIn(t, addr, low, high) = 0
<1> DEFINE c == CHOOSE i \in low + 1 .. high : t[i].dev = addr
<1>1. ASSUME NEW i \in low + 1 .. high, t[i].dev = addr
      PROVE  RowIn(t, addr, low, high) = i
  <2>1. c \in low + 1 .. high /\ t[c].dev = addr
    BY <1>1, Zenon
  <2>2. i \in DOMAIN t /\ c \in DOMAIN t
    BY <2>1, TableFacts
  <2>3. ~(i < c) /\ ~(c < i)
    BY <1>1, <2>1, <2>2, TableFacts, Increasing
  <2>4. RowIn(t, addr, low, high) = c
    BY <1>1, Zenon DEF RowIn
  <2> QED
    BY <2>1, <2>3, <2>4
<1>2. (\A i \in low + 1 .. high : t[i].dev # addr) => RowIn(t, addr, low, high) = 0
  BY Zenon DEF RowIn
<1> QED
  BY <1>1, <1>2

Middle(low, high) == low + (high - low) \div 2

\* One turn of the loop keeps the row that is looked for between low and high.
LEMMA SearchStep ==
  ASSUME NEW t, IsTable(t), NEW addr, NEW low \in 0 .. Len(t), NEW high \in 0 .. Len(t)
  PROVE  IF low >= high THEN RowIn(t, addr, low, high) = 0
         ELSE /\ Middle(low, high) \in low .. high - 1
              /\ RowIn(t, addr, low, high) =
                   IF t[Middle(low, high) + 1].dev = addr THEN Middle(low, high) + 1
                   ELSE IF t[Middle(low, high) + 1].dev < addr
                        THEN RowIn(t, addr, Middle(low, high) + 1, high)
                   ELSE RowIn(t, addr, low, Middle(low, high))
<1> DEFINE mid == Middle(low, high)
<1>0. Len(t) \in Nat /\ DOMAIN t = 1 .. Len(t) /\ \A m \in DOMAIN t : t[m].dev \in Nat
  BY TableFacts
<1>1. CASE low >= high
  BY <1>0, <1>1, RowInIs
<1>2. CASE low < high
  <2>1. mid \in low .. high - 1
    BY <1>0, <1>2 DEF Middle
  <2> HIDE DEF mid
  <2>2. mid + 1 \in low + 1 .. high /\ mid + 1 \in 0 .. Len(t) /\ mid \in 0 .. Len(t)
    BY <1>0, <2>1
  <2>3. \A i \in low + 1 .. high : i \in DOMAIN t
    BY <1>0
  <2>4. CASE t[mid + 1].dev = addr
    BY <1>2, <2>1, <2>2, <2>4, RowInIs DEF mid
  <2>5. CASE t[mid + 1].dev # addr /\ t[mid + 1].dev < addr
    <3>1. \A i \in low + 1 .. mid + 1 : t[i].dev # addr
      <4> SUFFICES ASSUME NEW i \in low + 1 .. mid, t[i].dev = addr PROVE FALSE
        BY <2>1, <2>5
      <4>1. t[i].dev < t[mid + 1].dev /\ i \in DOMAIN t
        BY <2>1, <2>2, <2>3, Increasing
      <4> QED
        BY <1>0, <2>2, <2>3, <2>5, <4>1
    <3>2. CASE \E i \in low + 1 .. high : t[i].dev = addr
      <4> PICK i \in low + 1 .. high : t[i].dev = addr
        BY <3>2
      <4>1. i \in mid + 2 .. high
        BY <2>1, <3>1
      <4> QED
        BY <1>2, <2>1, <2>2, <2>5, <4>1, RowInIs DEF mid
    <3>3. CASE \A i \in low + 1 .. high : t[i].dev # addr
      <4>1. \A i \in mid + 2 .. high : t[i].dev # addr
        BY <2>1, <3>3
      <4> QED
        BY <1>2, <2>1, <2>2, <2>5, <3>3, <4>1, RowInIs DEF mid
    <3> QED
      BY <3>2, <3>3 DEF mid
  <2>6. CASE t[mid + 1].dev # addr /\ ~(t[mid + 1].dev < addr)
    <3>1. \A i \in mid + 1 .. high : t[i].dev # addr
      <4> SUFFICES ASSUME NEW i \in mid + 2 .. high, t[i].dev = addr PROVE FALSE
        BY <2>1, <2>6
      <4>1. t[mid + 1].dev < t[i].dev
        BY <2>1, <2>2, <2>3, Increasing
      <4> QED
        BY <2>6, <4>1
    <3>2. CASE \E i \in low + 1 .. high : t[i].dev = addr
      <4> PICK i \in low + 1 .. high : t[i].dev = addr
        BY <3>2
      <4>1. i \in low + 1 .. mid
        BY <2>1, <3>1
      <4> QED
        BY <1>2, <2>1, <2>2, <2>6, <4>1, RowInIs DEF mid
    <3>3. CASE \A i \in low + 1 .. high : t[i].dev # addr
      <4>1. \A i \in low + 1 .. mid : t[i].dev # addr
        BY <2>1, <3>3
      <4> QED
        BY <1>2, <2>1, <2>2, <2>6, <3>3, <4>1, RowInIs DEF mid
    <3> QED
      BY <3>2, <3>3 DEF mid
  <2> QED
    BY <1>2, <2>1, <2>4, <2>5, <2>6 DEF mid
<1> QED
  BY <1>0, <1>1, <1>2

\* The recursive function in device_find_slot, of a candidate f for it.
Ranges(t) == (0 .. Len(t)) \X (0 .. Len(t))
Turn(t, addr, f) ==
  [range \in Ranges(t) |->
     LET low  == range[1]
         high == range[2]
         mid  == low + (high - low) \div 2
     IN  IF low >= high THEN 0
         ELSE IF t[mid + 1].dev = addr THEN mid + 1
         ELSE IF t[mid + 1].dev < addr THEN f[<<mid + 1, high>>]
         ELSE f[<<low, mid>>]]
Search(t, addr) == CHOOSE f : f = Turn(t, addr, f)

LEMMA SearchDef ==
  ASSUME NEW t, NEW addr
  PROVE  device_find_slot(t, addr) = Search(t, addr)[<<0, Len(t)>>]
  BY Zenon DEF device_find_slot, Search, Turn, Ranges

LEMMA TurnAt ==
  ASSUME NEW t, NEW addr, NEW f, NEW low \in 0 .. Len(t), NEW high \in 0 .. Len(t)
  PROVE  Turn(t, addr, f)[<<low, high>>] =
           IF low >= high THEN 0
           ELSE IF t[Middle(low, high) + 1].dev = addr THEN Middle(low, high) + 1
           ELSE IF t[Middle(low, high) + 1].dev < addr THEN f[<<Middle(low, high) + 1, high>>]
           ELSE f[<<low, Middle(low, high)>>]
  BY DEF Turn, Ranges, Middle

LEMMA SearchExists ==
  ASSUME NEW t, IsTable(t), NEW addr
  PROVE  Search(t, addr) = Turn(t, addr, Search(t, addr))
<1> DEFINE g == [range \in Ranges(t) |-> RowIn(t, addr, range[1], range[2])]
<1>0. Len(t) \in Nat
  BY TableFacts
<1>1. ASSUME NEW low \in 0 .. Len(t), NEW high \in 0 .. Len(t)
      PROVE  g[<<low, high>>] = Turn(t, addr, g)[<<low, high>>]
  <2> DEFINE mid == Middle(low, high)
  <2>1. IF low >= high THEN RowIn(t, addr, low, high) = 0
        ELSE /\ mid \in low .. high - 1
             /\ RowIn(t, addr, low, high) =
                  IF t[mid + 1].dev = addr THEN mid + 1
                  ELSE IF t[mid + 1].dev < addr THEN RowIn(t, addr, mid + 1, high)
                  ELSE RowIn(t, addr, low, mid)
    BY SearchStep
  <2>2. \A l, h \in 0 .. Len(t) : g[<<l, h>>] = RowIn(t, addr, l, h)
    BY DEF Ranges
  <2> HIDE DEF g
  <2>3. Turn(t, addr, g)[<<low, high>>] =
          IF low >= high THEN 0
          ELSE IF t[mid + 1].dev = addr THEN mid + 1
          ELSE IF t[mid + 1].dev < addr THEN g[<<mid + 1, high>>]
          ELSE g[<<low, mid>>]
    BY TurnAt
  <2> HIDE DEF mid
  <2>4. low < high => mid \in 0 .. Len(t) /\ mid + 1 \in 0 .. Len(t)
    BY <1>0, <2>1
  <2> QED
    BY <1>0, <2>1, <2>2, <2>3, <2>4
<1>2. g = Turn(t, addr, g)
  <2>1. \A range \in Ranges(t) : g[range] = Turn(t, addr, g)[range]
    <3> TAKE range \in Ranges(t)
    <3>1. PICK low \in 0 .. Len(t), high \in 0 .. Len(t) : range = <<low, high>>
      BY DEF Ranges
    <3> QED
      BY <1>1, <3>1
  <2>2. g = [range \in Ranges(t) |-> g[range]]
    OBVIOUS
  <2>3. Turn(t, addr, g) = [range \in Ranges(t) |-> Turn(t, addr, g)[range]]
    BY DEF Turn
  <2> QED
    BY <2>1, <2>2, <2>3
<1> HIDE DEF g
<1> QED
  BY <1>2, Zenon DEF Search

\* Whatever the recursion turns to, it gives the row looked for.
THEOREM SearchFinds ==
  ASSUME NEW t, IsTable(t), NEW addr
  PROVE  device_find_slot(t, addr) = RowIn(t, addr, 0, Len(t))
<1> DEFINE find == Search(t, addr)
           Wrong == {n \in Nat : \E low, high \in 0 .. Len(t) :
                        low + n = high /\ find[<<low, high>>] # RowIn(t, addr, low, high)}
<1>1. Len(t) \in Nat
  BY TableFacts
<1>2. ASSUME Wrong # {} PROVE FALSE
  <2>1. PICK n \in Wrong : \A m \in Wrong : n <= m
    BY <1>2, Least, Zenon
  <2>2. PICK low \in 0 .. Len(t), high \in 0 .. Len(t) :
          low + n = high /\ find[<<low, high>>] # RowIn(t, addr, low, high)
    BY <2>1
  <2> DEFINE mid == Middle(low, high)
  <2>3. IF low >= high THEN RowIn(t, addr, low, high) = 0
        ELSE /\ mid \in low .. high - 1
             /\ RowIn(t, addr, low, high) =
                  IF t[mid + 1].dev = addr THEN mid + 1
                  ELSE IF t[mid + 1].dev < addr THEN RowIn(t, addr, mid + 1, high)
                  ELSE RowIn(t, addr, low, mid)
    BY SearchStep
  <2>4. find[<<low, high>>] =
          IF low >= high THEN 0
          ELSE IF t[mid + 1].dev = addr THEN mid + 1
          ELSE IF t[mid + 1].dev < addr THEN find[<<mid + 1, high>>]
          ELSE find[<<low, mid>>]
    BY TurnAt, SearchExists
  <2> HIDE DEF mid, find
  <2>5. CASE low >= high
    BY <1>1, <2>2, <2>3, <2>4, <2>5
  <2>6. CASE low < high
    <3>1. ASSUME NEW l \in 0 .. Len(t), NEW h \in 0 .. Len(t), l <= h, h - l < high - low
          PROVE  find[<<l, h>>] = RowIn(t, addr, l, h)
      <4>1. h - l \in Nat /\ l + (h - l) = h /\ ~(n <= h - l)
        BY <1>1, <2>2, <3>1
      <4>2. h - l \notin Wrong
        BY <2>1, <4>1
      <4> QED
        BY <4>1, <4>2
    <3>2. mid \in 0 .. Len(t) /\ mid + 1 \in 0 .. Len(t) /\ mid \in low .. high - 1
      BY <1>1, <2>3, <2>6
    <3>3. /\ find[<<mid + 1, high>>] = RowIn(t, addr, mid + 1, high)
          /\ find[<<low, mid>>] = RowIn(t, addr, low, mid)
      BY <1>1, <2>6, <3>1, <3>2
    <3> QED
      BY <1>1, <2>2, <2>3, <2>4, <2>6, <3>3
  <2> QED
    BY <1>1, <2>5, <2>6
<1>3. find[<<0, Len(t)>>] = RowIn(t, addr, 0, Len(t))
  <2> SUFFICES ASSUME find[<<0, Len(t)>>] # RowIn(t, addr, 0, Len(t)) PROVE FALSE
    OBVIOUS
  <2> HIDE DEF find
  <2>1. Len(t) \in Wrong
    BY <1>1
  <2> QED
    BY <1>2, <2>1
<1> QED
  BY <1>3, SearchDef

-----------------------------------------------------------------------------
(* The inductive invariant.                                                  *)

\* A table that IsTable for every family.
TablesInv == \A f \in FamilySet : IsTable(table[f])

\* Main: a family that is done runs a unit for each of its entries.
MainInv ==
  /\ main \in {"load", "start", "serve", "exit"}
  /\ main = "load" => next = 1 /\ unit = 1 /\ \A f \in FamilySet : units[f] = <<>>
  /\ main \in {"start", "serve"} => \A f \in FamilySet : config[f] = Considered(json[f])
  /\ main = "start" =>
       /\ next \in DOMAIN Families /\ unit \in Nat \ {0}
       /\ \A i \in 1 .. next - 1 : units[Families[i]] = config[Families[i]]
  /\ main = "serve" => \A f \in FamilySet : units[f] = config[f]

Entries(section) == {section[i] : i \in Nat}

\* The families that run units are registered, and no two of them share a pool address.
UnitsInv ==
  /\ DOMAIN units = FamilySet /\ \A f \in FamilySet : units[f] \in Seq(Entries(config[f]))
  /\ profiles \in Seq(FamilySet)
  /\ \A f \in FamilySet : units[f] # <<>> => f \in Range(profiles)
  /\ \A f, g \in FamilySet :
       units[f] # <<>> /\ units[g] # <<>> /\ f # g => ~Overlap(table[f], table[g])

\* A cell of the pool is empty, lost, or was read from a register whose row it is.
Void == {Blank, Lost}
HeldBy(cell, a, g) ==
  \E i \in DOMAIN table[g] : table[g][i].pool = a /\ cell.from = g /\ cell.dev = table[g][i].dev
PoolInv ==
  /\ \A f \in FamilySet : \A i \in DOMAIN table[f] : table[f][i].pool \in DOMAIN pool
  /\ \A a \in DOMAIN pool :
       pool[a] \in Void \/ \E g \in FamilySet : units[g] # <<>> /\ HeldBy(pool[a], a, g)

Phases == {"connect", "scan", "store", "fill", "error"}

\* The poll thread: where it is in the table.
PollInv ==
  /\ phase \in [FamilySet -> Phases]
  /\ row \in [FamilySet -> Nat] /\ \A f \in FamilySet : row[f] \in DOMAIN table[f]
  /\ DOMAIN buf = FamilySet /\ version \in {0, 1}
  /\ status \in [FamilySet -> {0, 1}]
  /\ \A f \in FamilySet : status[f] = 0 <=> phase[f] = "connect"
  /\ \A f \in FamilySet : units[f] = <<>> => phase[f] = "connect"

Cells == [from : FamilySet, dev : Nat, v : {0, 1}]

\* The registers still to be stored are the last ones of the segment.
IsRest(values, f, first, count) ==
  /\ values \in Seq(Cells) /\ Len(values) \in 1 .. count
  /\ \A k \in 1 .. Len(values) :
       values[k].from = f /\ values[k].dev = first + count - Len(values) + k - 1

StoreInv ==
  \A f \in FamilySet : phase[f] = "store" =>
    IsRest(buf[f], f, table[f][row[f]].dev, SegmentLen(table[f], chunk, row[f]))

Cell(f, i) == pool[table[f][i].pool]

\* What is left of a lost device: nothing.
DarkInv ==
  \A f \in FamilySet : units[f] # <<>> =>
    /\ phase[f] = "connect" => \A i \in DOMAIN table[f] : Cell(f, i) \in Void
    /\ phase[f] = "fill" => \A i \in 1 .. row[f] - 1 : Cell(f, i) = Lost
    /\ phase[f] = "error" => \A i \in DOMAIN table[f] : Cell(f, i) = Lost

IInv ==
  /\ TablesInv /\ MainInv /\ UnitsInv /\ PoolInv /\ PollInv /\ StoreInv /\ DarkInv
-----------------------------------------------------------------------------
(* Lemmas.                                                                   *)

\* A request reads one row at least, and none that the table does not have.
LEMMA SegmentFits ==
  ASSUME NEW t, IsTable(t), NEW c, NEW i \in DOMAIN t
  PROVE  SegmentLen(t, c, i) \in 1 .. Len(t) - i + 1
<1> DEFINE S == {n \in 1 .. Len(t) - i + 1 :
                   /\ n = 1 \/ n <= c
                   /\ \A k \in i + 1 .. i + n - 1 : t[k].dev = t[k - 1].dev + 1}
           T == {m \in Nat : \E n \in S : m + n = Len(t)}
<1>0. Len(t) \in Nat /\ i \in 1 .. Len(t)
  BY TableFacts
<1>1. 1 \in S /\ S \subseteq 1 .. Len(t) - i + 1
  BY <1>0
<1> HIDE DEF S
<1>2. T # {}
  <2>1. Len(t) - 1 \in T
    BY <1>0, <1>1
  <2> QED
    BY <2>1
<1>3. PICK m \in T : \A x \in T : m <= x
  BY <1>2, Least
<1>4. PICK n \in S : m + n = Len(t)
  BY <1>3
<1>5. \A x \in S : x <= n
  <2> TAKE x \in S
  <2>1. Len(t) - x \in T
    BY <1>0, <1>1
  <2>2. m <= Len(t) - x
    BY <1>3, <2>1
  <2> QED
    BY <1>0, <1>1, <1>3, <1>4, <2>2
<1>6. Max(S) \in S
  BY <1>1, <1>4, <1>5, Zenon DEF Max
<1>7. SegmentLen(t, c, i) = Max(S)
  BY Zenon DEF SegmentLen, S
<1> QED
  BY <1>1, <1>6, <1>7

\* The row of the next segment is one of the table.
LEMMA RowAfterFits ==
  ASSUME TablesInv, NEW f \in FamilySet, row[f] \in DOMAIN table[f]
  PROVE  RowAfter(f) \in DOMAIN table[f] /\ RowAfter(f) \in Nat
<1>1. IsTable(table[f])
  BY DEF TablesInv
<1>2. SegmentLen(table[f], chunk, row[f]) \in 1 .. Len(table[f]) - row[f] + 1
  BY <1>1, SegmentFits
<1>3. Len(table[f]) \in Nat \ {0} /\ DOMAIN table[f] = 1 .. Len(table[f])
  BY <1>1, TableFacts
<1> QED
  BY <1>2, <1>3 DEF RowAfter

\* A step that leaves the start of the units alone keeps what is said of it.
LEMMA StartKept ==
  ASSUME TablesInv, MainInv, UnitsInv, UNCHANGED <<startVars, json, table>>
  PROVE  TablesInv' /\ MainInv' /\ UnitsInv'
<1>1. /\ main' = main /\ next' = next /\ unit' = unit /\ config' = config
      /\ profiles' = profiles /\ units' = units /\ json' = json /\ table' = table
  BY DEF startVars
<1>2. TablesInv'
  BY <1>1 DEF TablesInv
<1>3. MainInv'
  BY <1>1 DEF MainInv
<1>4. UnitsInv'
  BY <1>1 DEF UnitsInv, Entries
<1> QED
  BY <1>2, <1>3, <1>4

\* A unit that writes a cell of its own writes nobody else's, and none of its
\* other cells.
Fits(cell, f, i) == cell \in Void \/ (cell.from = f /\ cell.dev = table[f][i].dev)
Writes(f, i, cell) ==
  /\ units[f] # <<>> /\ i \in DOMAIN table[f]
  /\ units' = units /\ table' = table /\ pool' = [pool EXCEPT ![table[f][i].pool] = cell]

LEMMA OneCellWritten ==
  ASSUME TablesInv, UnitsInv, PoolInv, NEW f \in FamilySet, NEW i, NEW cell,
         Writes(f, i, cell), Fits(cell, f, i)
  PROVE  /\ PoolInv'
         /\ \A g \in FamilySet : \A j \in DOMAIN table[g] :
              units[g] # <<>> =>
                pool'[table[g][j].pool] = IF g = f /\ j = i THEN cell ELSE Cell(g, j)
<1> USE DEF Writes, Fits
<1> DEFINE a == table[f][i].pool
<1>1. a \in DOMAIN pool /\ DOMAIN pool' = DOMAIN pool
  BY DEF PoolInv
<1>2. \A b \in DOMAIN pool : pool'[b] = IF b = a THEN cell ELSE pool[b]
  BY <1>1
<1>3. PoolInv'
  <2>1. \A b \in DOMAIN pool :
          pool'[b] \in Void \/ \E g \in FamilySet : units[g] # <<>> /\ HeldBy(pool'[b], b, g)
    <3> TAKE b \in DOMAIN pool
    <3>1. CASE b = a
      BY <1>2, <3>1 DEF HeldBy
    <3>2. CASE b # a
      BY <1>2, <3>2 DEF PoolInv
    <3> QED
      BY <3>1, <3>2
  <2>2. \A g \in FamilySet : \A j \in DOMAIN table[g] : table[g][j].pool \in DOMAIN pool
    BY DEF PoolInv
  <2> QED
    BY <1>1, <2>1, <2>2 DEF PoolInv, HeldBy
<1>4. ASSUME NEW g \in FamilySet, NEW j \in DOMAIN table[g], units[g] # <<>>
      PROVE  pool'[table[g][j].pool] = IF g = f /\ j = i THEN cell ELSE Cell(g, j)
  <2>1. pool'[table[g][j].pool] = IF table[g][j].pool = a THEN cell ELSE Cell(g, j)
    BY <1>2 DEF Cell, PoolInv
  <2>2. table[g][j].pool = a <=> g = f /\ j = i
    <3>1. CASE g = f
      BY <3>1 DEF TablesInv, IsTable
    <3>2. CASE g # f
      BY <1>4, <3>2 DEF UnitsInv, Overlap
    <3> QED
      BY <3>1, <3>2
  <2> QED
    BY <2>1, <2>2
<1> QED
  BY <1>3, <1>4

-----------------------------------------------------------------------------
(* The invariant is inductive.                                               *)

LEMMA InitInv == Init => IInv
<1> SUFFICES ASSUME Init PROVE IInv
  OBVIOUS
<1>1. TablesInv
  BY TablesAssumption DEF Init, TablesInv
<1>2. \A f \in FamilySet : 1 \in DOMAIN table[f]
  BY <1>1, TableFacts DEF TablesInv
<1>3. MainInv
  BY DEF Init, MainInv
<1>4. UnitsInv
  BY DEF Init, UnitsInv
<1>5. PoolInv
  <2> DEFINE A == {r.pool : r \in UNION {Range(table[f]) : f \in FamilySet}}
  <2>1. pool = [a \in A |-> Blank]
    BY DEF Init
  <2>2. ASSUME NEW f \in FamilySet, NEW i \in DOMAIN table[f] PROVE table[f][i].pool \in A
    <3>1. table[f][i] \in Range(table[f])
      BY DEF Range
    <3> QED
      BY <3>1
  <2> HIDE DEF A
  <2> QED
    BY <2>1, <2>2 DEF PoolInv, Void
<1>6. PollInv
  BY <1>2 DEF Init, PollInv, Phases
<1>7. StoreInv
  BY DEF Init, StoreInv
<1>8. DarkInv
  BY DEF Init, DarkInv
<1> QED
  BY <1>1, <1>3, <1>4, <1>5, <1>6, <1>7, <1>8 DEF IInv

LEMMA LoadStep == IInv /\ load_json_config => IInv'
<1> SUFFICES ASSUME IInv, load_json_config PROVE IInv'
  OBVIOUS
<1> USE DEF IInv, load_json_config, pollVars, deviceVars, pubVars, fixed
<1>1. TablesInv'
  BY DEF TablesInv
<1>2. MainInv'
  <2>1. next = 1 /\ unit = 1 /\ \A f \in FamilySet : units[f] = <<>>
    BY DEF MainInv
  <2>2. 1 \in DOMAIN Families
    BY TablesAssumption
  <2>3. \/ main' = "exit"
        \/ main' = "start" /\ config' = [f \in FamilySet |-> Considered(json[f])]
    OBVIOUS
  <2> QED
    BY <2>1, <2>2, <2>3 DEF MainInv
<1>3. UnitsInv'
  <2>1. \A f \in FamilySet : units[f] = <<>>
    BY DEF MainInv
  <2> QED
    BY <2>1 DEF UnitsInv
<1>4. PoolInv'
  BY DEF PoolInv, HeldBy
<1>5. PollInv'
  BY DEF PollInv
<1>6. StoreInv'
  BY DEF StoreInv
<1>7. DarkInv'
  BY DEF DarkInv, Cell
<1> QED
  BY <1>1, <1>2, <1>3, <1>4, <1>5, <1>6, <1>7

LEMMA StartUnitStep == IInv /\ start_unit => IInv'
<1> DEFINE f == Families[next]
<1> SUFFICES ASSUME IInv, start_unit PROVE IInv'
  OBVIOUS
<1>0. /\ TablesInv /\ MainInv /\ UnitsInv /\ PoolInv /\ PollInv /\ StoreInv /\ DarkInv
  BY DEF IInv
<1>1. main = "start" /\ next \in DOMAIN Families /\ unit \in Nat \ {0} /\ f \in FamilySet
  BY <1>0 DEF start_unit, MainInv, FamilySet
<1>2. /\ main' = main /\ next' = next /\ unit' = unit + 1 /\ config' = config
      /\ pool' = pool /\ phase' = phase /\ row' = row /\ buf' = buf /\ version' = version
      /\ json' = json /\ table' = table /\ chunk' = chunk
  BY DEF start_unit, deviceVars, fixed
<1>3. TablesInv'
  BY <1>0, <1>2 DEF TablesInv
<1>4. CASE register_profile(f, profiles)
  <2>1. /\ profiles' = Append(profiles, f)
        /\ units' = [units EXCEPT ![f] = Append(@, config[f][unit])]
        /\ status' = [status EXCEPT ![f] = 0]
    BY <1>4 DEF start_unit
  <2>2. \A g \in FamilySet : units[g] # <<>> => ~Overlap(table[f], table[g])
    BY <1>0, <1>4 DEF UnitsInv, register_profile
  <2>3. Overlap(table[f], table[f])
    <3>1. 1 \in DOMAIN table[f]
      BY <1>0, <1>1, TableFacts DEF TablesInv
    <3> QED
      BY <3>1 DEF Overlap
  <2>4. units[f] = <<>> /\ phase[f] = "connect"
    BY <1>0, <1>1, <2>2, <2>3 DEF PollInv
  <2>5. \A g \in FamilySet : g # f => units'[g] = units[g]
    BY <1>0, <2>1 DEF UnitsInv
  <2>6. units'[f] \in Seq(Entries(config[f])) /\ units'[f] # <<>>
    <3>1. config[f][unit] \in Entries(config[f])
      BY <1>1 DEF Entries
    <3>2. units'[f] = <<config[f][unit]>>
      BY <1>0, <1>1, <2>1, <2>4 DEF UnitsInv
    <3> QED
      BY <3>1, <3>2
  <2>7. MainInv'
    <3>1. \A i \in 1 .. next - 1 : Families[i] \in FamilySet /\ Families[i] # f
      BY <1>1, TablesAssumption DEF FamilySet, IsInjective
    <3> QED
      BY <1>0, <1>1, <1>2, <2>5, <3>1 DEF MainInv
  <2>8. UnitsInv'
    <3>1. DOMAIN units' = FamilySet /\ \A g \in FamilySet : units'[g] \in Seq(Entries(config'[g]))
      BY <1>0, <1>2, <2>1, <2>5, <2>6 DEF UnitsInv
    <3>2. profiles' \in Seq(FamilySet) /\ f \in Range(profiles') /\ Range(profiles) \subseteq Range(profiles')
      <4>1. profiles \in Seq(FamilySet)
        BY <1>0 DEF UnitsInv
      <4>2. /\ profiles' \in Seq(FamilySet) /\ Len(profiles') = Len(profiles) + 1
            /\ profiles'[Len(profiles) + 1] = f
            /\ \A k \in 1 .. Len(profiles) : profiles'[k] = profiles[k]
        BY <1>1, <2>1, <4>1
      <4> QED
        BY <4>1, <4>2 DEF Range
    <3>3. \A g, h \in FamilySet : Overlap(table[g], table[h]) => Overlap(table[h], table[g])
      BY DEF Overlap
    <3>4. ASSUME NEW g \in FamilySet, NEW h \in FamilySet,
                 units'[g] # <<>>, units'[h] # <<>>, g # h
          PROVE  ~Overlap(table[g], table[h])
      <4>1. CASE g = f
        BY <2>2, <2>5, <3>4, <4>1
      <4>2. CASE h = f
        BY <2>2, <2>5, <3>3, <3>4, <4>2
      <4>3. CASE g # f /\ h # f
        BY <1>0, <2>5, <3>4, <4>3 DEF UnitsInv
      <4> QED
        BY <4>1, <4>2, <4>3
    <3>5. \A g \in FamilySet : units'[g] # <<>> => g \in Range(profiles')
      BY <1>0, <2>5, <3>2 DEF UnitsInv
    <3> QED
      BY <1>2, <3>1, <3>2, <3>4, <3>5 DEF UnitsInv
  <2>9. PoolInv'
    <3>1. \A g \in FamilySet : units[g] # <<>> => units'[g] # <<>>
      BY <2>4, <2>5
    <3> QED
      BY <1>0, <1>2, <3>1 DEF PoolInv, HeldBy
  <2>10. PollInv'
    BY <1>0, <1>2, <2>1, <2>4, <2>5, <2>6 DEF PollInv
  <2>11. StoreInv'
    BY <1>0, <1>2 DEF StoreInv
  <2>12. DarkInv'
    <3>1. \A i \in DOMAIN table[f] : Cell(f, i) \in Void
      <4> TAKE i \in DOMAIN table[f]
      <4>1. \A g \in FamilySet : units[g] # <<>> => ~HeldBy(Cell(f, i), table[f][i].pool, g)
        BY <2>2 DEF HeldBy, Overlap
      <4> QED
        BY <1>0, <1>1, <4>1 DEF PoolInv, Cell
    <3> QED
      BY <1>0, <1>2, <2>4, <2>5, <3>1 DEF DarkInv, Cell
  <2> QED
    BY <1>3, <2>7, <2>8, <2>9, <2>10, <2>11, <2>12 DEF IInv
<1>5. CASE ~register_profile(f, profiles)
  <2>1. profiles' = profiles /\ units' = units /\ status' = status
    BY <1>5 DEF start_unit
  <2>2. MainInv'
    BY <1>0, <1>1, <1>2, <2>1 DEF MainInv
  <2>3. UnitsInv'
    BY <1>0, <1>2, <2>1 DEF UnitsInv, Entries
  <2>4. PoolInv'
    BY <1>0, <1>2, <2>1 DEF PoolInv, HeldBy
  <2>5. PollInv'
    BY <1>0, <1>2, <2>1 DEF PollInv
  <2>6. StoreInv'
    BY <1>0, <1>2 DEF StoreInv
  <2>7. DarkInv'
    BY <1>0, <1>2, <2>1 DEF DarkInv, Cell
  <2> QED
    BY <1>3, <2>2, <2>3, <2>4, <2>5, <2>6, <2>7 DEF IInv
<1> QED
  BY <1>4, <1>5

LEMMA FamilyStartedStep == IInv /\ family_started => IInv'
<1> DEFINE f == Families[next]
<1> SUFFICES ASSUME IInv, family_started PROVE IInv'
  OBVIOUS
<1>0. /\ TablesInv /\ MainInv /\ UnitsInv /\ PoolInv /\ PollInv /\ StoreInv /\ DarkInv
  BY DEF IInv
<1>1. /\ main = "start" /\ next \in DOMAIN Families
      /\ DOMAIN Families = 1 .. Len(Families) /\ Len(Families) \in Nat
  BY <1>0, TablesAssumption DEF family_started, MainInv
<1>2. /\ next' = next + 1 /\ unit' = 1 /\ config' = config /\ profiles' = profiles
      /\ units' = units /\ pool' = pool /\ status' = status /\ phase' = phase /\ row' = row
      /\ buf' = buf /\ version' = version /\ json' = json /\ table' = table /\ chunk' = chunk
  BY DEF family_started, pollVars, deviceVars, fixed
<1>3. MainInv'
  <2>1. \/ main' = "exit"
        \/ /\ units[f] = config[f]
           /\ main' = IF next = Len(Families) THEN "serve" ELSE "start"
    BY DEF family_started, StartedAll
  <2>2. CASE main' = "exit"
    BY <2>2 DEF MainInv
  <2>3. CASE main' # "exit"
    <3>1. \A i \in 1 .. next : units[Families[i]] = config[Families[i]]
      BY <1>0, <1>1, <2>1, <2>3 DEF MainInv
    <3>2. CASE next = Len(Families)
      <4>1. main' = "serve"
        BY <2>1, <2>3, <3>2
      <4>2. \A g \in FamilySet : units[g] = config[g]
        BY <1>1, <3>1, <3>2 DEF FamilySet
      <4> QED
        BY <1>0, <1>1, <1>2, <4>1, <4>2 DEF MainInv
    <3>3. CASE next # Len(Families)
      <4>1. main' = "start"
        BY <2>1, <2>3, <3>3
      <4> QED
        BY <1>0, <1>1, <1>2, <3>1, <3>3, <4>1 DEF MainInv
    <3> QED
      BY <3>2, <3>3
  <2> QED
    BY <2>2, <2>3
<1>4. TablesInv'
  BY <1>0, <1>2 DEF TablesInv
<1>5. UnitsInv'
  BY <1>0, <1>2 DEF UnitsInv, Entries
<1>6. PoolInv'
  BY <1>0, <1>2 DEF PoolInv, HeldBy
<1>7. PollInv'
  BY <1>0, <1>2 DEF PollInv
<1>8. StoreInv'
  BY <1>0, <1>2 DEF StoreInv
<1>9. DarkInv'
  BY <1>0, <1>2 DEF DarkInv, Cell
<1> QED
  BY <1>3, <1>4, <1>5, <1>6, <1>7, <1>8, <1>9 DEF IInv

\* The steps of a poll thread.
LEMMA ConnectStep == ASSUME NEW f \in FamilySet PROVE IInv /\ Connect(f) => IInv'
<1> SUFFICES ASSUME IInv, Connect(f) PROVE IInv'
  OBVIOUS
<1>0. /\ TablesInv /\ MainInv /\ UnitsInv /\ PoolInv /\ PollInv /\ StoreInv /\ DarkInv
  BY DEF IInv
<1>1. /\ status' = [status EXCEPT ![f] = 1] /\ phase' = [phase EXCEPT ![f] = "scan"]
      /\ row' = [row EXCEPT ![f] = 1] /\ pool' = pool /\ buf' = buf /\ version' = version
      /\ units' = units /\ table' = table /\ chunk' = chunk /\ units[f] # <<>>
      /\ UNCHANGED <<startVars, json, table>>
  BY DEF Connect, startVars, deviceVars, fixed, Polls
<1>2. TablesInv' /\ MainInv' /\ UnitsInv'
  BY <1>0, <1>1, StartKept
<1>3. PoolInv'
  BY <1>0, <1>1 DEF PoolInv, HeldBy
<1>4. PollInv'
  <2>1. 1 \in DOMAIN table[f]
    BY <1>0, TableFacts DEF TablesInv
  <2> QED
    BY <1>0, <1>1, <2>1 DEF PollInv, Phases
<1>5. StoreInv'
  <2>1. \A g \in FamilySet : phase'[g] = "store" => phase[g] = "store" /\ row'[g] = row[g]
    BY <1>0, <1>1 DEF PollInv
  <2> QED
    BY <1>0, <1>1, <2>1 DEF StoreInv
<1>6. DarkInv'
  <2>1. phase'[f] = "scan" /\ \A g \in FamilySet : g # f => phase'[g] = phase[g] /\ row'[g] = row[g]
    BY <1>0, <1>1 DEF PollInv
  <2> QED
    BY <1>0, <1>1, <2>1 DEF DarkInv, Cell
<1> QED
  BY <1>2, <1>3, <1>4, <1>5, <1>6 DEF IInv

LEMMA ReadSegmentStep == ASSUME NEW f \in FamilySet PROVE IInv /\ ReadSegment(f) => IInv'
<1> SUFFICES ASSUME IInv, ReadSegment(f) PROVE IInv'
  OBVIOUS
<1> DEFINE first == table[f][row[f]].dev
           count == SegmentLen(table[f], chunk, row[f])
<1>0. /\ TablesInv /\ MainInv /\ UnitsInv /\ PoolInv /\ PollInv /\ StoreInv /\ DarkInv
  BY DEF IInv
<1>1. /\ status' = status /\ pool' = pool /\ version' = version
      /\ units' = units /\ table' = table /\ chunk' = chunk
      /\ units[f] # <<>> /\ phase[f] = "scan"
      /\ UNCHANGED <<startVars, json, table>>
  BY DEF ReadSegment, startVars, deviceVars, fixed, Polls
<1>2. TablesInv' /\ MainInv' /\ UnitsInv'
  BY <1>0, <1>1, StartKept
<1>3. PoolInv'
  BY <1>0, <1>1 DEF PoolInv, HeldBy
<1>4. first \in Nat /\ count \in Nat \ {0}
  <2>1. IsTable(table[f]) /\ row[f] \in DOMAIN table[f]
    BY <1>0 DEF TablesInv, PollInv
  <2> QED
    BY <2>1, SegmentFits, TableFacts
<1>5. RowAfter(f) \in DOMAIN table[f] /\ RowAfter(f) \in Nat /\ 1 \in DOMAIN table[f]
  BY <1>0, RowAfterFits, TableFacts DEF PollInv, TablesInv
<1>6. CASE /\ buf' = [buf EXCEPT ![f] = [k \in 1 .. count |-> Reading(f, first + k - 1)]]
           /\ phase' = [phase EXCEPT ![f] = "store"] /\ row' = row
  <2>1. PollInv'
    BY <1>0, <1>1, <1>6 DEF PollInv, Phases
  <2>2. StoreInv'
    <3> DEFINE seg == [k \in 1 .. count |-> Reading(f, first + k - 1)]
    <3>1. \A k \in 1 .. count : /\ Reading(f, first + k - 1) \in Cells
                                /\ Reading(f, first + k - 1).from = f
                                /\ Reading(f, first + k - 1).dev = first + k - 1
      BY <1>0, <1>4 DEF Reading, Cells, PollInv
    <3> HIDE DEF first, count
    <3>2. seg \in Seq(Cells) /\ Len(seg) = count
      BY <1>4, <3>1
    <3>3. buf'[f] = seg /\ \A g \in FamilySet : g # f => buf'[g] = buf[g] /\ phase'[g] = phase[g]
      BY <1>0, <1>6 DEF PollInv
    <3>4. \A k \in 1 .. count : seg[k].from = f /\ seg[k].dev = first + count - count + k - 1
      BY <1>4, <3>1
    <3> HIDE DEF seg
    <3> QED
      <4>1. IsRest(seg, f, first, count)
        BY <1>4, <3>2, <3>4 DEF IsRest
      <4> QED
        BY <1>0, <1>1, <1>6, <3>3, <4>1 DEF StoreInv, first, count
  <2>3. DarkInv'
    BY <1>0, <1>1, <1>6 DEF DarkInv, Cell, PollInv
  <2> QED
    BY <1>2, <1>3, <2>1, <2>2, <2>3 DEF IInv
<1>7. CASE /\ phase' = [phase EXCEPT ![f] = "fill"] /\ row' = [row EXCEPT ![f] = 1]
           /\ buf' = buf
  <2>1. PollInv'
    BY <1>0, <1>1, <1>5, <1>7 DEF PollInv, Phases
  <2>2. StoreInv'
    <3>1. \A g \in FamilySet : phase'[g] = "store" => phase[g] = "store" /\ row'[g] = row[g]
      BY <1>0, <1>7 DEF PollInv
    <3> QED
      BY <1>0, <1>1, <1>7, <3>1 DEF StoreInv
  <2>3. DarkInv'
    BY <1>0, <1>1, <1>7 DEF DarkInv, Cell, PollInv
  <2> QED
    BY <1>2, <1>3, <2>1, <2>2, <2>3 DEF IInv
<1>8. CASE phase' = phase /\ row' = [row EXCEPT ![f] = RowAfter(f)] /\ buf' = buf
  <2>1. PollInv'
    BY <1>0, <1>1, <1>5, <1>8 DEF PollInv
  <2>2. StoreInv'
    <3>1. \A g \in FamilySet : phase'[g] = "store" => phase[g] = "store" /\ row'[g] = row[g]
      BY <1>0, <1>1, <1>8 DEF PollInv
    <3> QED
      BY <1>0, <1>1, <1>8, <3>1 DEF StoreInv
  <2>3. DarkInv'
    BY <1>0, <1>1, <1>8 DEF DarkInv, Cell, PollInv
  <2> QED
    BY <1>2, <1>3, <2>1, <2>2, <2>3 DEF IInv
<1> QED
  BY <1>6, <1>7, <1>8, Zenon DEF ReadSegment

\* A connected unit moves on to another row or phase.
LEMMA PollMoves ==
  ASSUME PollInv, UNCHANGED <<units, table, status, version>>, DOMAIN buf' = FamilySet,
         NEW f \in FamilySet, units[f] # <<>>, phase[f] # "connect",
         NEW p \in Phases, p # "connect", NEW r \in Nat, r \in DOMAIN table[f],
         phase' = [phase EXCEPT ![f] = p], row' = [row EXCEPT ![f] = r]
  PROVE  /\ PollInv' /\ phase'[f] = p /\ row'[f] = r
         /\ \A g \in FamilySet : g # f => phase'[g] = phase[g] /\ row'[g] = row[g]
<1>1. phase' \in [FamilySet -> Phases] /\ row' \in [FamilySet -> Nat]
  BY DEF PollInv
<1>2. /\ phase'[f] = p /\ row'[f] = r
      /\ \A g \in FamilySet : g # f => phase'[g] = phase[g] /\ row'[g] = row[g]
  BY DEF PollInv
<1>3. \A g \in FamilySet : row'[g] \in DOMAIN table[g]
  BY <1>2 DEF PollInv
<1>4. \A g \in FamilySet : (phase[g] = "connect") = (phase'[g] = "connect")
  BY <1>2
<1> QED
  BY <1>1, <1>2, <1>3, <1>4 DEF PollInv

\* The register that is stored is the first of the rest, and leaves a rest.
LEMMA RestAfterHead ==
  ASSUME NEW f, NEW first \in Nat, NEW count \in Nat, NEW values,
         IsRest(values, f, first, count), Len(values) # 1
  PROVE  IsRest(Tail(values), f, first, count)
<1>1. values \in Seq(Cells) /\ Len(values) \in 1 .. count
  BY DEF IsRest
<1>2. PICK n \in 1 .. count : n = Len(values) /\ n # 1
  BY <1>1
<1>3. /\ Tail(values) \in Seq(Cells) /\ Len(Tail(values)) = n - 1
      /\ \A k \in 1 .. n - 1 : Tail(values)[k] = values[k + 1]
  BY <1>1, <1>2
<1>4. ASSUME NEW k \in 1 .. n - 1
      PROVE  /\ Tail(values)[k].from = f
             /\ Tail(values)[k].dev = first + count - (n - 1) + k - 1
  <2>1. k + 1 \in 1 .. n
    BY <1>2
  <2>2. values[k + 1].from = f /\ values[k + 1].dev = first + count - n + (k + 1) - 1
    BY <1>2, <2>1 DEF IsRest
  <2>3. first + count - n + (k + 1) - 1 = first + count - (n - 1) + k - 1
    BY <1>2
  <2> QED
    BY <1>3, <2>2, <2>3
<1>5. n - 1 \in 1 .. count
  BY <1>2
<1> QED
  BY <1>3, <1>4, <1>5 DEF IsRest

LEMMA StoreStep == ASSUME NEW f \in FamilySet PROVE IInv /\ read_to_pool(f) => IInv'
<1> SUFFICES ASSUME IInv, read_to_pool(f) PROVE IInv'
  OBVIOUS
<1> DEFINE first == table[f][row[f]].dev
           count == SegmentLen(table[f], chunk, row[f])
           addr  == first + count - Len(buf[f])
           slot  == device_find_slot(table[f], addr)
<1>0. /\ TablesInv /\ MainInv /\ UnitsInv /\ PoolInv /\ PollInv /\ StoreInv /\ DarkInv
  BY DEF IInv
<1>1. /\ status' = status /\ version' = version /\ buf' = [buf EXCEPT ![f] = Tail(@)]
      /\ units' = units /\ table' = table /\ chunk' = chunk
      /\ units[f] # <<>> /\ phase[f] = "store"
      /\ UNCHANGED <<startVars, json, table>>
  BY DEF read_to_pool, startVars, deviceVars, fixed, Polls
<1>2. PICK p \in {"scan", "store"}, r \in Nat :
        /\ phase' = [phase EXCEPT ![f] = p] /\ row' = [row EXCEPT ![f] = r]
        /\ r \in DOMAIN table[f]
        /\ p = "store" => Len(buf[f]) # 1 /\ r = row[f]
  <2>1. CASE Len(buf[f]) = 1
    <3>1. RowAfter(f) \in DOMAIN table[f] /\ RowAfter(f) \in Nat
      BY <1>0, RowAfterFits DEF PollInv
    <3> QED
      BY <2>1, <3>1 DEF read_to_pool
  <2>2. CASE Len(buf[f]) # 1
    <3>1. phase' = [phase EXCEPT ![f] = "store"] /\ row' = [row EXCEPT ![f] = row[f]]
      BY <1>0, <1>1, <2>2 DEF read_to_pool, PollInv
    <3> QED
      BY <1>0, <2>2, <3>1 DEF PollInv
  <2> QED
    BY <2>1, <2>2
<1>3. pool' = IF slot = 0 THEN pool ELSE [pool EXCEPT ![table[f][slot].pool] = Head(buf[f])]
  BY DEF read_to_pool
<1>4. /\ IsTable(table[f]) /\ row[f] \in DOMAIN table[f] /\ first \in Nat /\ count \in Nat \ {0}
      /\ IsRest(buf[f], f, first, count)
  <2>1. IsTable(table[f]) /\ row[f] \in DOMAIN table[f]
    BY <1>0 DEF TablesInv, PollInv
  <2>2. IsRest(buf[f], f, first, count)
    BY <1>0, <1>1 DEF StoreInv
  <2> QED
    BY <2>1, <2>2, SegmentFits, TableFacts
<1>5. TablesInv' /\ MainInv' /\ UnitsInv'
  BY <1>0, <1>1, StartKept
<1>6. /\ PoolInv'
      /\ \A g \in FamilySet : g # f /\ units[g] # <<>> =>
           \A j \in DOMAIN table[g] : Cell(g, j)' = Cell(g, j)
  <2>1. CASE slot = 0
    BY <1>0, <1>1, <1>3, <2>1 DEF PoolInv, HeldBy, Cell
  <2>2. CASE slot # 0
    <3>1. slot = RowIn(table[f], addr, 0, Len(table[f]))
      BY <1>4, SearchFinds
    <3>2. slot \in DOMAIN table[f] /\ table[f][slot].dev = addr
      <4> HIDE DEF slot, addr
      <4>1. PICK i \in 0 + 1 .. Len(table[f]) : table[f][i].dev = addr
        BY <2>2, <3>1 DEF RowIn
      <4>2. Len(table[f]) \in Nat /\ DOMAIN table[f] = 1 .. Len(table[f])
        BY <1>4, TableFacts
      <4>3. RowIn(table[f], addr, 0, Len(table[f])) = i
        BY <1>4, <4>1, <4>2, RowInIs
      <4> QED
        BY <3>1, <4>1, <4>2, <4>3
    <3> HIDE DEF slot
    <3>3. Head(buf[f]).from = f /\ Head(buf[f]).dev = addr
      <4> HIDE DEF first, count
      <4>1. Head(buf[f]) = buf[f][1] /\ 1 \in 1 .. Len(buf[f]) /\ Len(buf[f]) \in Nat
        BY <1>4 DEF IsRest
      <4>2. buf[f][1].from = f /\ buf[f][1].dev = first + count - Len(buf[f]) + 1 - 1
        BY <1>4, <4>1 DEF IsRest
      <4>3. first + count - Len(buf[f]) + 1 - 1 = addr
        BY <1>4, <4>1
      <4> QED
        BY <4>1, <4>2, <4>3
    <3> QED
      <4>0. PICK i, cell : i = slot /\ cell = Head(buf[f])
        OBVIOUS
      <4>1. Writes(f, i, cell)
        BY <1>1, <1>3, <2>2, <3>2, <4>0 DEF Writes
      <4>2. Fits(cell, f, i)
        BY <3>2, <3>3, <4>0 DEF Fits
      <4>3. /\ PoolInv'
            /\ \A g \in FamilySet : \A j \in DOMAIN table[g] :
                 units[g] # <<>> =>
                   pool'[table[g][j].pool] = IF g = f /\ j = i THEN cell ELSE Cell(g, j)
        BY <1>0, <4>1, <4>2, OneCellWritten
      <4> QED
        BY <1>1, <4>3 DEF Cell
  <2> QED
    BY <2>1, <2>2
<1>7. /\ PollInv' /\ phase'[f] = p /\ row'[f] = r
      /\ \A g \in FamilySet : g # f => phase'[g] = phase[g] /\ row'[g] = row[g]
  <2>1. DOMAIN buf' = FamilySet
    BY <1>0, <1>1 DEF PollInv
  <2>2. UNCHANGED <<units, table, status, version>>
    BY <1>1
  <2>3. p \in Phases /\ p # "connect" /\ phase[f] # "connect"
    BY <1>1 DEF Phases
  <2> QED
    BY <1>0, <1>1, <1>2, <2>1, <2>2, <2>3, PollMoves
<1>8. StoreInv'
  <2>1. Len(buf[f]) # 1 => IsRest(Tail(buf[f]), f, first, count)
    BY <1>4, RestAfterHead
  <2>2. \A g \in FamilySet : g # f => buf'[g] = buf[g] /\ phase'[g] = phase[g] /\ row'[g] = row[g]
    BY <1>0, <1>1, <1>7 DEF PollInv
  <2>3. \/ phase'[f] = "scan"
        \/ Len(buf[f]) # 1 /\ buf'[f] = Tail(buf[f]) /\ row'[f] = row[f]
    BY <1>0, <1>1, <1>2, <1>7 DEF PollInv
  <2> QED
    BY <1>0, <1>1, <2>1, <2>2, <2>3 DEF StoreInv
<1>9. DarkInv'
  <2>1. ASSUME NEW g \in FamilySet, units'[g] # <<>>
        PROVE  /\ phase'[g] = "connect" => \A i \in DOMAIN table'[g] : Cell(g, i)' \in Void
               /\ phase'[g] = "fill" => \A i \in 1 .. row'[g] - 1 : Cell(g, i)' = Lost
               /\ phase'[g] = "error" => \A i \in DOMAIN table'[g] : Cell(g, i)' = Lost
    <3>1. CASE g = f
      BY <1>2, <1>7, <3>1
    <3>2. CASE g # f
      <4>1. 1 .. row[g] - 1 \subseteq DOMAIN table[g]
        BY <1>0, TableFacts DEF PollInv, TablesInv
      <4> QED
        BY <1>0, <1>1, <1>6, <1>7, <2>1, <3>2, <4>1 DEF DarkInv
    <3> QED
      BY <3>1, <3>2
  <2> QED
    BY <2>1 DEF DarkInv
<1> QED
  BY <1>5, <1>6, <1>7, <1>8, <1>9 DEF IInv

LEMMA FillStep == ASSUME NEW f \in FamilySet PROVE IInv /\ Fill(f) => IInv'
<1> SUFFICES ASSUME IInv, Fill(f) PROVE IInv'
  OBVIOUS
<1>0. /\ TablesInv /\ MainInv /\ UnitsInv /\ PoolInv /\ PollInv /\ StoreInv /\ DarkInv
  BY DEF IInv
<1>1. /\ status' = status /\ version' = version /\ buf' = buf
      /\ units' = units /\ table' = table /\ chunk' = chunk
      /\ units[f] # <<>> /\ phase[f] = "fill"
      /\ pool' = [pool EXCEPT ![table[f][row[f]].pool] = Lost]
      /\ UNCHANGED <<startVars, json, table>>
  BY DEF Fill, startVars, deviceVars, fixed, Polls
<1>2. /\ row[f] \in Nat /\ row[f] \in DOMAIN table[f] /\ DOMAIN table[f] = 1 .. Len(table[f])
      /\ Len(table[f]) \in Nat
  BY <1>0, TableFacts DEF PollInv, TablesInv
<1>3. PICK p \in {"error", "fill"}, r \in Nat :
        /\ phase' = [phase EXCEPT ![f] = p] /\ row' = [row EXCEPT ![f] = r]
        /\ r \in DOMAIN table[f]
        /\ \/ p = "error" /\ row[f] = Len(table[f])
           \/ p = "fill" /\ r = row[f] + 1
  <2>1. CASE row[f] = Len(table[f])
    <3>1. phase' = [phase EXCEPT ![f] = "error"] /\ row' = [row EXCEPT ![f] = row[f]]
      BY <1>0, <2>1 DEF Fill, PollInv
    <3> QED
      BY <1>2, <2>1, <3>1
  <2>2. CASE row[f] # Len(table[f])
    <3>1. phase' = phase /\ row' = [row EXCEPT ![f] = row[f] + 1]
      BY <2>2 DEF Fill
    <3>2. phase' = [phase EXCEPT ![f] = "fill"]
      BY <1>0, <1>1, <3>1 DEF PollInv
    <3>3. row[f] + 1 \in DOMAIN table[f] /\ row[f] + 1 \in Nat
      BY <1>2, <2>2
    <3> QED
      BY <3>1, <3>2, <3>3
  <2> QED
    BY <2>1, <2>2
<1>4. TablesInv' /\ MainInv' /\ UnitsInv'
  BY <1>0, <1>1, StartKept
<1>5. /\ PoolInv'
      /\ \A g \in FamilySet : \A j \in DOMAIN table[g] :
           units[g] # <<>> => Cell(g, j)' = IF g = f /\ j = row[f] THEN Lost ELSE Cell(g, j)
  <2>1. Lost \in Void
    BY DEF Void
  <2> PICK i : i = row[f]
    OBVIOUS
  <2>2. Writes(f, i, Lost) /\ Fits(Lost, f, i)
    BY <1>1, <1>2, <2>1 DEF Writes, Fits
  <2>3. /\ PoolInv'
        /\ \A g \in FamilySet : \A j \in DOMAIN table[g] :
             units[g] # <<>> =>
               pool'[table[g][j].pool] = IF g = f /\ j = i THEN Lost ELSE Cell(g, j)
    BY <1>0, <2>2, OneCellWritten
  <2> QED
    BY <1>1, <2>3 DEF Cell
<1>6. /\ PollInv' /\ phase'[f] = p /\ row'[f] = r
      /\ \A g \in FamilySet : g # f => phase'[g] = phase[g] /\ row'[g] = row[g]
  <2>1. DOMAIN buf' = FamilySet
    BY <1>0, <1>1 DEF PollInv
  <2>2. UNCHANGED <<units, table, status, version>>
    BY <1>1
  <2>3. p \in Phases /\ p # "connect" /\ phase[f] # "connect"
    BY <1>1 DEF Phases
  <2> QED
    BY <1>0, <1>1, <1>3, <2>1, <2>2, <2>3, PollMoves
<1>7. StoreInv'
  BY <1>0, <1>1, <1>3, <1>6 DEF StoreInv
<1>8. DarkInv'
  <2>1. \A i \in 1 .. row[f] : Cell(f, i)' = Lost
    BY <1>0, <1>1, <1>2, <1>5 DEF DarkInv
  <2>2. ASSUME NEW g \in FamilySet, units'[g] # <<>>
        PROVE  /\ phase'[g] = "connect" => \A i \in DOMAIN table'[g] : Cell(g, i)' \in Void
               /\ phase'[g] = "fill" => \A i \in 1 .. row'[g] - 1 : Cell(g, i)' = Lost
               /\ phase'[g] = "error" => \A i \in DOMAIN table'[g] : Cell(g, i)' = Lost
    <3>1. CASE g = f
      BY <1>1, <1>2, <1>3, <1>6, <2>1, <3>1
    <3>2. CASE g # f
      <4>1. 1 .. row[g] - 1 \subseteq DOMAIN table[g]
        BY <1>0, TableFacts DEF PollInv, TablesInv
      <4>2. \A j \in DOMAIN table[g] : Cell(g, j)' = Cell(g, j)
        BY <1>1, <1>5, <2>2, <3>2
      <4> QED
        BY <1>0, <1>1, <1>6, <2>2, <3>2, <4>1, <4>2 DEF DarkInv
    <3> QED
      BY <3>1, <3>2
  <2> QED
    BY <2>2 DEF DarkInv
<1> QED
  BY <1>4, <1>5, <1>6, <1>7, <1>8 DEF IInv

LEMMA ErrorStep == ASSUME NEW f \in FamilySet PROVE IInv /\ error_callback(f) => IInv'
<1> SUFFICES ASSUME IInv, error_callback(f) PROVE IInv'
  OBVIOUS
<1>0. /\ TablesInv /\ MainInv /\ UnitsInv /\ PoolInv /\ PollInv /\ StoreInv /\ DarkInv
  BY DEF IInv
<1>1. /\ status' = [status EXCEPT ![f] = 0] /\ phase' = [phase EXCEPT ![f] = "connect"]
      /\ row' = row /\ pool' = pool /\ buf' = buf /\ version' = version
      /\ units' = units /\ table' = table /\ chunk' = chunk
      /\ units[f] # <<>> /\ phase[f] = "error"
      /\ UNCHANGED <<startVars, json, table>>
  BY DEF error_callback, startVars, deviceVars, fixed, Polls
<1>2. TablesInv' /\ MainInv' /\ UnitsInv'
  BY <1>0, <1>1, StartKept
<1>3. PoolInv'
  BY <1>0, <1>1 DEF PoolInv, HeldBy
<1>4. PollInv'
  BY <1>0, <1>1 DEF PollInv, Phases
<1>5. phase'[f] = "connect" /\ \A g \in FamilySet : g # f => phase'[g] = phase[g]
  BY <1>0, <1>1 DEF PollInv
<1>6. StoreInv'
  BY <1>0, <1>1, <1>5 DEF StoreInv
<1>7. DarkInv'
  <2>1. \A i \in DOMAIN table[f] : Cell(f, i) \in Void
    BY <1>0, <1>1 DEF DarkInv, Void
  <2> QED
    BY <1>0, <1>1, <1>5, <2>1 DEF DarkInv, Cell
<1> QED
  BY <1>2, <1>3, <1>4, <1>6, <1>7 DEF IInv

\* Publisher and devices write none of it.
LEMMA OtherStep ==
  ASSUME IInv, UNCHANGED <<json, table, chunk, startVars, pollVars>>, version' \in {0, 1}
  PROVE  IInv'
<1>1. /\ json' = json /\ table' = table /\ chunk' = chunk /\ units' = units /\ config' = config
      /\ pool' = pool /\ status' = status /\ phase' = phase /\ row' = row /\ buf' = buf
  BY DEF startVars, pollVars
<1>2. TablesInv' /\ MainInv' /\ UnitsInv'
  BY StartKept DEF IInv
<1>3. PoolInv' /\ PollInv' /\ StoreInv' /\ DarkInv'
  BY <1>1 DEF IInv, PoolInv, HeldBy, PollInv, StoreInv, DarkInv, Cell
<1> QED
  BY <1>2, <1>3 DEF IInv

LEMMA Inductive == IInv /\ [Next]_vars => IInv'
<1> SUFFICES ASSUME IInv, [Next]_vars PROVE IInv'
  OBVIOUS
<1>0. version \in {0, 1}
  BY DEF IInv, PollInv
<1>1. CASE load_json_config
  BY <1>1, LoadStep
<1>2. CASE start_unit
  BY <1>2, StartUnitStep
<1>3. CASE family_started
  BY <1>3, FamilyStartedStep
<1>4. CASE \E f \in FamilySet : Poll(f)
  BY <1>4, ConnectStep, ReadSegmentStep, StoreStep, FillStep, ErrorStep DEF Poll
<1>5. CASE connection_pub_state
  BY <1>0, <1>5, OtherStep DEF connection_pub_state, deviceVars, fixed
<1>6. CASE publish_pool_register
  BY <1>0, <1>6, OtherStep DEF publish_pool_register, deviceVars, fixed
<1>7. CASE StopsOrReturns(watch.f)
  BY <1>0, <1>7, OtherStep DEF StopsOrReturns, fixed
<1>8. CASE ValueChanges
  BY <1>0, <1>8, OtherStep DEF ValueChanges, fixed
<1>9. CASE UNCHANGED vars
  BY <1>0, <1>9, OtherStep DEF vars, startVars, pollVars
<1> QED
  BY <1>1, <1>2, <1>3, <1>4, <1>5, <1>6, <1>7, <1>8, <1>9 DEF Next

-----------------------------------------------------------------------------
(* The theorems.                                                             *)

\* For any tables, files, chunk and limits.
THEOREM Invariance == Spec => []IInv
<1>1. Init => IInv
  BY InitInv
<1>2. IInv /\ [Next]_vars => IInv'
  BY Inductive
<1> QED
  BY <1>1, <1>2, PTL DEF Spec

\* Segmented scans, search and collision check never let two registers meet in one
\* row of the pool.
THEOREM OwnRegisters == Spec => []EachRegisterItsOwn
<1>1. IInv => EachRegisterItsOwn
  <2> SUFFICES ASSUME IInv, NEW f \in FamilySet, units[f] # <<>>, NEW i \in DOMAIN table[f]
               PROVE  \/ Cell(f, i) \in Void
                      \/ Cell(f, i).from = f /\ Cell(f, i).dev = table[f][i].dev
    BY DEF EachRegisterItsOwn, Cell, Void, Range
  <2>1. CASE Cell(f, i) \in Void
    BY <2>1
  <2>2. CASE Cell(f, i) \notin Void
    <3> DEFINE a == table[f][i].pool
    <3>1. PICK g \in FamilySet : units[g] # <<>> /\ HeldBy(Cell(f, i), a, g)
      BY <2>2 DEF IInv, PoolInv, Cell
    <3>2. PICK j \in DOMAIN table[g] :
            table[g][j].pool = a /\ Cell(f, i).from = g /\ Cell(f, i).dev = table[g][j].dev
      BY <3>1 DEF HeldBy
    <3>3. g = f
      BY <3>1, <3>2 DEF IInv, UnitsInv, Overlap
    <3>4. j = i
      BY <3>2, <3>3 DEF IInv, TablesInv, IsTable
    <3> QED
      BY <3>2, <3>3, <3>4
  <2> QED
    BY <2>1, <2>2
<1> QED
  BY <1>1, Invariance, PTL

\* The daemon serves with a unit for each entry looked at, or not at all.
THEOREM NobodyMissing == Spec => []NoUnitMissing
<1>1. IInv => NoUnitMissing
  BY DEF IInv, MainInv, NoUnitMissing
<1> QED
  BY <1>1, Invariance, PTL

\* A family whose unit is not connected shows no value: its rows were never read, or
\* the loss has overwritten every one of them, before the status says so.
NoValueWithoutConnection ==
  \A f \in FamilySet : units[f] # <<>> /\ status[f] = 0 =>
    \A r \in Range(table[f]) : pool[r.pool] \in {Blank, Lost}

\* The order in which a lost unit fills its rows and clears its status.
THEOREM DarkWhenLost == Spec => []NoValueWithoutConnection
<1>1. IInv => NoValueWithoutConnection
  BY DEF IInv, PollInv, DarkInv, NoValueWithoutConnection, Cell, Void, Range
<1> QED
  BY <1>1, Invariance, PTL

-----------------------------------------------------------------------------
(* The processes.                                                            *)

AllWanted == Wanted("inverter") \union Wanted("ups")

\* What runs at each step of main.  After a failed startup the threads are any of
\* those wanted, so the stops are what empties the set.
ThreadsFollowMain ==
  /\ step \in {"fork_inverter", "fork_ups", "start_inverter"} => threads = {}
  /\ step = "start_ups" => threads = Wanted("inverter")
  /\ step = "start_alarm" => threads = AllWanted
  /\ step = "serve" => threads = AllWanted \union {Monitor}
  /\ step = "stop_alarm" => threads \subseteq AllWanted \union {Monitor}
  /\ step = "stop_inverter" => threads \subseteq AllWanted
  /\ step = "stop_ups" => threads \subseteq Wanted("ups")
  /\ step \in {"close_db", "kill_inverter", "wait_inverter", "kill_ups", "wait_ups", "exit"}
       => threads = {}

\* The steps of main after its waitpid for a publisher.
Past(f) == IF f = "inverter" THEN {"kill_ups", "wait_ups", "exit"} ELSE {"exit"}

\* Once main has waited for a publisher it is gone, unless a signal cut the wait
\* short; no later step and no signal to the process group brings one back.
WaitedFor ==
  \A f \in FamilyNames \ abandoned : step \in Past(f) => child[f] \in {"none", "reaped"}

\* The inductive invariant: what has been stopped and waited for at each step.
ProcessInv ==
  TypeOK /\ ThreadsFollowMain /\ MonitorHasModules /\ WaitedFor

-----------------------------------------------------------------------------
\* The steps of main, listed, with what comes after each.
LEMMA Order ==
  /\ DOMAIN After = {"fork_inverter", "fork_ups", "start_inverter", "start_ups", "start_alarm",
                     "serve", "stop_alarm", "stop_inverter", "stop_ups", "close_db",
                     "kill_inverter", "wait_inverter", "kill_ups", "wait_ups"}
  /\ After["fork_inverter"] = "fork_ups" /\ After["fork_ups"] = "start_inverter"
  /\ After["start_inverter"] = "start_ups" /\ After["start_ups"] = "start_alarm"
  /\ After["start_alarm"] = "serve" /\ After["serve"] = "stop_alarm"
  /\ After["stop_alarm"] = "stop_inverter" /\ After["stop_inverter"] = "stop_ups"
  /\ After["stop_ups"] = "close_db" /\ After["close_db"] = "kill_inverter"
  /\ After["kill_inverter"] = "wait_inverter" /\ After["wait_inverter"] = "kill_ups"
  /\ After["kill_ups"] = "wait_ups" /\ After["wait_ups"] = "exit"
  BY DEF After

\* The steps main makes for each family.
LEMMA FamilySteps ==
  /\ ForkStep["inverter"] = "fork_inverter" /\ ForkStep["ups"] = "fork_ups"
  /\ StartStep["inverter"] = "start_inverter" /\ StartStep["ups"] = "start_ups"
  /\ StopStep["inverter"] = "stop_inverter" /\ StopStep["ups"] = "stop_ups"
  /\ KillStep["inverter"] = "kill_inverter" /\ KillStep["ups"] = "kill_ups"
  /\ WaitStep["inverter"] = "wait_inverter" /\ WaitStep["ups"] = "wait_ups"
  BY DEF ForkStep, StartStep, StopStep, KillStep, WaitStep

\* The alarm monitor is none of the modules' threads.
LEMMA MonitorApart ==
  ASSUME NEW f \in FamilyNames
  PROVE  /\ Monitor \notin Wanted(f)
         /\ Wanted(f) \subseteq (FamilyNames \X {"poll", "sub"}) \union {Monitor}
  BY DEF Monitor, Wanted, FamilyNames

\* Before anything is forked the process has nothing to leave behind.
LEMMA InitProcess == ProcInit => ProcessInv
<1> SUFFICES ASSUME ProcInit PROVE ProcessInv
  OBVIOUS
<1>1. TypeOK
  BY Order, LifecycleAssumption DEF ProcInit, TypeOK
<1>2. ThreadsFollowMain /\ MonitorHasModules /\ WaitedFor
  BY DEF ProcInit, ThreadsFollowMain, MonitorHasModules, WaitedFor, Past
<1> QED
  BY <1>1, <1>2 DEF ProcessInv

\* The startup steps of main, whether they succeed or jump to shutdown.
LEMMA StartupProcess ==
  ASSUME ProcessInv,
         \/ \E f \in FamilyNames : ForkPublisher(f) \/ StartModules(f)
         \/ StartAlarm \/ Serve
  PROVE  ProcessInv'
<1> USE Order, FamilySteps DEF ProcessInv, FamilyNames
<1>1. CASE \E f \in FamilyNames : ForkPublisher(f)
  <2>1. PICK f \in FamilyNames : ForkPublisher(f)
    BY <1>1
  <2>2. /\ threads' = threads /\ enabled' = enabled /\ abandoned' = abandoned
        /\ running' = running /\ pubRunning' = pubRunning /\ signals' = signals
        /\ child' = child \/ child' = [child EXCEPT ![f] = "born"]
        /\ outcome' \in {outcome, "failure"}
        /\ threads = {}
        /\ step' \in {"fork_ups", "start_inverter", "stop_alarm"}
    BY <2>1 DEF ForkPublisher, Proceed, StartupFailed, ThreadsFollowMain
  <2>3. TypeOK'
    BY <2>2 DEF TypeOK
  <2>4. ThreadsFollowMain' /\ MonitorHasModules' /\ WaitedFor'
    BY <2>2 DEF ThreadsFollowMain, MonitorHasModules, WaitedFor, Past, AllWanted
  <2> QED
    BY <2>3, <2>4
<1>2. CASE \E f \in FamilyNames : StartModules(f)
  <2>1. PICK f \in FamilyNames : StartModules(f)
    BY <1>2
  <2>2. PICK started \in SUBSET Wanted(f) :
          /\ threads' = threads \union started
          /\ IF started = Wanted(f) THEN Proceed /\ UNCHANGED outcome ELSE StartupFailed
    BY <2>1 DEF StartModules
  <2>3. /\ enabled' = enabled /\ abandoned' = abandoned /\ child' = child
        /\ running' = running /\ pubRunning' = pubRunning /\ signals' = signals
        /\ step = StartStep[f]
        /\ \/ step' = After[step] /\ threads' = threads \union Wanted(f) /\ outcome' = outcome
           \/ step' = "stop_alarm" /\ outcome' = "failure"
    BY <2>1, <2>2 DEF StartModules, Proceed, StartupFailed
  <2>4. /\ threads \subseteq AllWanted /\ threads' \subseteq AllWanted
        /\ step' \in {"start_ups", "start_alarm", "stop_alarm"}
    BY <2>2, <2>3 DEF ThreadsFollowMain, AllWanted
  <2>5. TypeOK'
    <3>1. AllWanted \subseteq (FamilyNames \X {"poll", "sub"}) \union {Monitor}
      BY MonitorApart DEF AllWanted
    <3> QED
      BY <2>3, <2>4, <3>1 DEF TypeOK
  <2>6. ThreadsFollowMain'
    <3>1. Wanted("inverter")' = Wanted("inverter") /\ Wanted("ups")' = Wanted("ups")
          /\ AllWanted' = AllWanted
      BY <2>3 DEF Wanted, AllWanted
    <3> QED
      BY <2>3, <2>4, <3>1 DEF ThreadsFollowMain, AllWanted
  <2>7. MonitorHasModules' /\ WaitedFor'
    <3>1. Monitor \notin threads'
      BY <2>4, MonitorApart DEF AllWanted
    <3> QED
      BY <2>4, <3>1 DEF MonitorHasModules, WaitedFor, Past
  <2> QED
    BY <2>5, <2>6, <2>7
<1>3. CASE StartAlarm
  <2>1. /\ enabled' = enabled /\ abandoned' = abandoned /\ child' = child
        /\ running' = running /\ pubRunning' = pubRunning /\ signals' = signals
        /\ threads = AllWanted
        /\ \/ step' = "serve" /\ threads' = threads \union {Monitor} /\ outcome' = outcome
           \/ step' = "stop_alarm" /\ outcome' = "failure" /\ threads' = threads
    BY <1>3 DEF StartAlarm, Proceed, StartupFailed, ThreadsFollowMain
  <2>2. /\ Wanted("inverter")' = Wanted("inverter") /\ Wanted("ups")' = Wanted("ups")
        /\ AllWanted' = AllWanted
    BY <2>1 DEF Wanted, AllWanted
  <2>3. TypeOK'
    BY <2>1 DEF TypeOK
  <2>4. ThreadsFollowMain' /\ MonitorHasModules' /\ WaitedFor'
    BY <2>1, <2>2 DEF ThreadsFollowMain, MonitorHasModules, WaitedFor, Past, AllWanted
  <2> QED
    BY <2>3, <2>4
<1>4. CASE Serve
  <2>1. /\ enabled' = enabled /\ abandoned' = abandoned /\ child' = child
        /\ running' = running /\ pubRunning' = pubRunning /\ signals' = signals
        /\ outcome' = outcome /\ threads' = threads /\ threads = AllWanted \union {Monitor}
        /\ step' = "stop_alarm"
    BY <1>4 DEF Serve, Proceed, ThreadsFollowMain
  <2>2. /\ Wanted("inverter")' = Wanted("inverter") /\ Wanted("ups")' = Wanted("ups")
        /\ AllWanted' = AllWanted
    BY <2>1 DEF Wanted, AllWanted
  <2>3. TypeOK'
    BY <2>1 DEF TypeOK
  <2>4. ThreadsFollowMain' /\ MonitorHasModules' /\ WaitedFor'
    BY <2>1, <2>2 DEF ThreadsFollowMain, MonitorHasModules, WaitedFor, Past, AllWanted
  <2> QED
    BY <2>3, <2>4
<1> QED
  BY <1>1, <1>2, <1>3, <1>4

\* The steps of shutdown_runtime: the monitor goes before the modules it reads,
\* and each family's threads and publisher at their own step.
LEMMA ShutdownProcess ==
  ASSUME ProcessInv,
         \/ \E f \in FamilyNames : StopModules(f) \/ KillPublisher(f) \/ WaitPublisher(f)
         \/ StopAlarm \/ CloseDb
  PROVE  ProcessInv'
<1> USE Order, FamilySteps DEF ProcessInv, FamilyNames
<1>0. /\ enabled' = enabled /\ abandoned' = abandoned /\ running' = running
      /\ signals' = signals /\ outcome' = outcome
  BY DEF StopModules, KillPublisher, WaitPublisher, StopAlarm, CloseDb
<1>1. /\ Wanted("inverter")' = Wanted("inverter") /\ Wanted("ups")' = Wanted("ups")
      /\ AllWanted' = AllWanted
  BY <1>0 DEF Wanted, AllWanted
<1>2. CASE StopAlarm \/ CloseDb \/ \E f \in FamilyNames : StopModules(f)
  <2>1. /\ child' = child /\ pubRunning' = pubRunning
        /\ \/ step = "stop_alarm" /\ step' = "stop_inverter" /\ threads' = threads \ {Monitor}
           \/ /\ step = "stop_inverter" /\ step' = "stop_ups"
              /\ threads' = threads \ Wanted("inverter")
           \/ step = "stop_ups" /\ step' = "close_db" /\ threads' = threads \ Wanted("ups")
           \/ step = "close_db" /\ step' = "kill_inverter" /\ threads' = threads
    BY <1>2 DEF StopAlarm, CloseDb, StopModules, Proceed
  <2>2. TypeOK' /\ WaitedFor'
    BY <1>0, <2>1 DEF TypeOK, WaitedFor, Past
  <2>3. ThreadsFollowMain'
    BY <1>1, <2>1 DEF ThreadsFollowMain, AllWanted
  <2>4. MonitorHasModules'
    <3>1. Monitor \notin threads'
      BY <2>1, MonitorApart DEF ThreadsFollowMain, AllWanted
    <3> QED
      BY <3>1 DEF MonitorHasModules
  <2> QED
    BY <2>2, <2>3, <2>4
<1>3. CASE \E f \in FamilyNames : KillPublisher(f) \/ WaitPublisher(f)
  <2>1. PICK f \in FamilyNames : KillPublisher(f) \/ WaitPublisher(f)
    BY <1>3
  <2>2. /\ threads' = threads /\ threads = {}
        /\ step \in {"kill_inverter", "wait_inverter", "kill_ups", "wait_ups"}
        /\ step' \in {"wait_inverter", "kill_ups", "wait_ups", "exit"}
    BY <2>1 DEF KillPublisher, WaitPublisher, Proceed, ThreadsFollowMain
  <2>3. /\ child' = child \/ \E c \in {"exited", "reaped"} : child' = [child EXCEPT ![f] = c]
        /\ pubRunning' \in [FamilyNames -> BOOLEAN]
        /\ step' \in Past(f) => child'[f] \in {"none", "reaped"}
        /\ \A g \in FamilyNames : g # f /\ step' \in Past(g) => step \in Past(g)
    <3>1. CASE KillPublisher(f) /\ child[f] = "none"
      BY <3>1 DEF KillPublisher, TypeOK, Past
    <3>2. CASE KillPublisher(f) /\ child[f] # "none"
      BY <3>2 DEF KillPublisher, TypeOK, Past, Proceed
    <3>3. CASE WaitPublisher(f)
      BY <3>3 DEF WaitPublisher, TypeOK, Past, Proceed
    <3> QED
      BY <2>1, <3>1, <3>2, <3>3
  <2>4. TypeOK'
    BY <1>0, <2>2, <2>3 DEF TypeOK
  <2>5. ThreadsFollowMain' /\ MonitorHasModules'
    BY <2>2 DEF ThreadsFollowMain, MonitorHasModules
  <2>6. WaitedFor'
    BY <1>0, <2>3 DEF WaitedFor, TypeOK
  <2> QED
    BY <2>4, <2>5, <2>6
<1> QED
  BY <1>2, <1>3

\* A publisher's own steps start from a process that is alive.
LEMMA PublisherProcess ==
  ASSUME ProcessInv, NEW f \in FamilyNames, Publisher(f)
  PROVE  ProcessInv'
<1> USE DEF ProcessInv
<1>1. /\ step' = step /\ running' = running /\ outcome' = outcome /\ threads' = threads
      /\ signals' = signals /\ abandoned' = abandoned /\ enabled' = enabled
      /\ pubRunning' = pubRunning \/ pubRunning' = [pubRunning EXCEPT ![f] = TRUE]
      /\ child[f] \in {"born", "init", "loop"}
      /\ \E c \in {"init", "loop", "exited"} : child' = [child EXCEPT ![f] = c]
  BY DEF Publisher, InstallHandlers, PublisherUp, PublisherInitFails, PublisherEnds
<1>2. pubRunning' \in [FamilyNames -> BOOLEAN]
  BY <1>1 DEF TypeOK
<1>3. TypeOK'
  BY <1>1, <1>2 DEF TypeOK
<1>4. ThreadsFollowMain' /\ MonitorHasModules'
  BY <1>1 DEF ThreadsFollowMain, MonitorHasModules, AllWanted, Wanted
<1>5. WaitedFor'
  BY <1>1 DEF WaitedFor, TypeOK
<1> QED
  BY <1>3, <1>4, <1>5

\* A signal from outside: in a waitpid it makes main go on without the publisher,
\* which is then abandoned; to the whole group, it ends no publisher that is gone.
LEMMA SignalProcess ==
  ASSUME ProcessInv, Terminate \/ Interrupt
  PROVE  ProcessInv'
<1> USE Order, FamilySteps DEF ProcessInv, FamilyNames
<1>1. /\ outcome' = outcome /\ threads' = threads /\ enabled' = enabled /\ running' = FALSE
      /\ signals < MaxSignals /\ signals' = signals + 1
      /\ abandoned' = abandoned \union Waiting /\ step # "exit"
      /\ IF Waiting = {} THEN step' = step ELSE step' = After[step]
  BY DEF Terminate, Interrupt, ParentSignalled, Proceed
<1>2. /\ child' \in [FamilyNames -> {"none", "born", "init", "loop", "exited", "reaped"}]
      /\ pubRunning' \in [FamilyNames -> BOOLEAN]
      /\ \A f \in FamilyNames : child[f] \in {"none", "reaped"} => child'[f] = child[f]
  BY DEF Terminate, Interrupt, Signalled, TypeOK
<1>3. \/ step' = step /\ abandoned' = abandoned
      \/ /\ step = "wait_inverter" /\ step' = "kill_ups"
         /\ abandoned' = abandoned \union {"inverter"}
      \/ step = "wait_ups" /\ step' = "exit" /\ abandoned' = abandoned \union {"ups"}
  <2>1. CASE step = "wait_inverter"
    <3>1. Waiting = {"inverter"}
      BY <2>1 DEF Waiting
    <3> QED
      BY <1>1, <2>1, <3>1
  <2>2. CASE step = "wait_ups"
    <3>1. Waiting = {"ups"}
      BY <2>2 DEF Waiting
    <3> QED
      BY <1>1, <2>2, <3>1
  <2>3. CASE step \notin {"wait_inverter", "wait_ups"}
    <3>1. Waiting = {}
      BY <2>3 DEF Waiting
    <3> QED
      BY <1>1, <3>1
  <2> QED
    BY <2>1, <2>2, <2>3
<1>4. TypeOK'
  <2>1. signals' \in 0 .. MaxSignals
    BY <1>1, LifecycleAssumption DEF TypeOK
  <2>2. step' \in DOMAIN After \union {"exit"} /\ abandoned' \subseteq FamilyNames
    BY <1>3 DEF TypeOK
  <2> QED
    BY <1>1, <1>2, <2>1, <2>2 DEF TypeOK
<1>5. ThreadsFollowMain' /\ MonitorHasModules'
  <2>1. /\ Wanted("inverter")' = Wanted("inverter") /\ Wanted("ups")' = Wanted("ups")
        /\ AllWanted' = AllWanted
    BY <1>1 DEF Wanted, AllWanted
  <2> QED
    BY <1>1, <1>3, <2>1 DEF ThreadsFollowMain, MonitorHasModules
<1>6. WaitedFor'
  BY <1>2, <1>3 DEF WaitedFor, Past
<1> QED
  BY <1>4, <1>5, <1>6

\* Every step of the parent, of a publisher or of a signal keeps the invariant.
LEMMA NextProcess == ProcessInv /\ [ProcNext]_procVars => ProcessInv'
<1> SUFFICES ASSUME ProcessInv, [ProcNext]_procVars PROVE ProcessInv'
  OBVIOUS
<1>1. CASE UNCHANGED procVars
  BY <1>1 DEF procVars, ProcessInv, TypeOK, ThreadsFollowMain, MonitorHasModules, WaitedFor, AllWanted,
              Wanted
<1>2. CASE Main
  BY <1>2, StartupProcess, ShutdownProcess DEF Main
<1>3. CASE \E f \in FamilyNames : Publisher(f)
  BY <1>3, PublisherProcess
<1>4. CASE Terminate \/ Interrupt
  BY <1>4, SignalProcess
<1> QED
  BY <1>1, <1>2, <1>3, <1>4 DEF ProcNext, Round

\* The invariant holds whatever fails and however many signals come.
THEOREM ProcessInvariance == ProcSpec => []ProcessInv
<1> QED
  BY InitProcess, NextProcess, PTL DEF ProcSpec

-----------------------------------------------------------------------------
\* The state of the parent and of the publishers keeps its type.
THEOREM ProcessTyping == ProcSpec => []TypeOK
<1>1. ProcessInv => TypeOK
  BY DEF ProcessInv
<1> QED
  BY <1>1, ProcessInvariance, PTL

\* When main returns, whichever way it came there, no thread is left and every
\* publisher was reaped, but for one whose waitpid a signal cut short.
THEOREM NothingLeft == ProcSpec => []NothingLeftBehind
<1>1. ProcessInv => NothingLeftBehind
  BY DEF ProcessInv, ThreadsFollowMain, WaitedFor, Past, NothingLeftBehind, FamilyNames
<1> QED
  BY <1>1, ProcessInvariance, PTL

\* The alarm monitor never outlives the modules whose registers it evaluates.
THEOREM MonitorInside == ProcSpec => []MonitorHasModules
<1>1. ProcessInv => MonitorHasModules
  BY DEF ProcessInv
<1> QED
  BY <1>1, ProcessInvariance, PTL
=============================================================================

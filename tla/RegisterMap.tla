----------------------------- MODULE RegisterMap ----------------------------
(* The register tables of the devices: how a table is searched, how a scan   *)
(* is cut into Modbus requests, and when two tables may be used together.    *)
(* A table is a sequence of rows [dev, pool], sorted by dev.                 *)
EXTENDS Integers, SequencesExt

\* Binary search: the row of the device address, or 0. low and high count from 0
\* and high is not part of the range, as in the code.
device_find_slot(table, addr) ==
  LET find[range \in (0 .. Len(table)) \X (0 .. Len(table))] ==
        LET low  == range[1]
            high == range[2]
            mid  == low + (high - low) \div 2
        IN  IF low >= high THEN 0
            ELSE IF table[mid + 1].dev = addr THEN mid + 1
            ELSE IF table[mid + 1].dev < addr THEN find[<<mid + 1, high>>]
            ELSE find[<<low, mid>>]
  IN  find[<<0, Len(table)>>]

\* The number of rows one request reads from row i on: a run of consecutive
\* addresses, cut at the chunk; one at least.
SegmentLen(table, chunk, i) ==
  Max({n \in 1 .. Len(table) - i + 1 :
         /\ n = 1 \/ n <= chunk
         /\ \A k \in i + 1 .. i + n - 1 : table[k].dev = table[k - 1].dev + 1})

\* Two tables name a pool address.
Overlap(t1, t2) == \E i \in DOMAIN t1, j \in DOMAIN t2 : t1[i].pool = t2[j].pool

\* What the search needs of a table, and what makes it one: a register of the
\* device has one row, and so has an address of the pool.
Sorted(table) == \A i \in 1 .. Len(table) - 1 : table[i].dev < table[i + 1].dev

Rows == [dev : Nat, pool : Nat]

IsTable(table) ==
  /\ table \in Seq(Rows) /\ table # <<>> /\ Sorted(table)
  /\ \A i, j \in DOMAIN table : table[i].pool = table[j].pool => i = j
=============================================================================

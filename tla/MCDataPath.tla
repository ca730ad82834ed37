----------------------------- MODULE MCDataPath -----------------------------
(* Instance of DataPath: an inverter of three registers with a gap, a UPS of *)
(* one, and files that are refused for every reason the loader knows.        *)
EXTENDS DataPath

TheFamilies == <<"inverter", "ups">>

Rtu == [enabled |-> TRUE, name |-> "unit", modbus_uid |-> 1, path |-> "tty", baud_rate |-> 9600]
Tcp == [enabled |-> TRUE, name |-> "unit", modbus_uid |-> 247, modbus_format |-> "TCP",
        ip |-> "host", port |-> 502]
Off == [enabled |-> FALSE]

Wrong ==
  {[Rtu EXCEPT !.name = ""], [Rtu EXCEPT !.modbus_uid = 0], [Rtu EXCEPT !.modbus_uid = 248],
   [Rtu EXCEPT !.path = ""], [Rtu EXCEPT !.baud_rate = 4850], [Rtu EXCEPT !.baud_rate = 4700],
   [Tcp EXCEPT !.modbus_format = "ASCII"], [Tcp EXCEPT !.ip = ""], [Tcp EXCEPT !.port = 0],
   [Tcp EXCEPT !.port = 65536], [enabled |-> TRUE]}

File(inv, ups) == [inverter |-> inv, ups |-> ups]

TheFiles ==
  {File(<<Rtu>>, <<Rtu>>), File(<<Off, Tcp>>, <<>>), File(<<Rtu, Rtu, Off>>, <<>>),
   File(<<>>, <<Off>>)}
  \cup {File(<<Rtu, e>>, <<>>) : e \in Wrong}

Apart == [inverter |-> <<[dev |-> 10, pool |-> 1], [dev |-> 11, pool |-> 2], [dev |-> 20, pool |-> 3]>>,
          ups |-> <<[dev |-> 5, pool |-> 4]>>]

\* The rows of the second build meet: each family runs alone, never with the other.
Meeting == [inverter |-> <<[dev |-> 19, pool |-> 1], [dev |-> 20, pool |-> 2]>>,
            ups |-> <<[dev |-> 5, pool |-> 2]>>]

TheBuilds == {[table |-> Apart, chunk |-> 2], [table |-> Meeting, chunk |-> 1]}

\* The last register: behind a gap in the first build, in the second next to one
\* that a chunk of 1 parts it from.
TheWatched == {[f |-> "inverter", dev |-> 20]}

\* The search finds the row of an address, or none, in every table of addresses
\* up to 7.
ASSUME SearchFindsRow ==
  \A S \in SUBSET (1 .. 7) :
    LET devs  == SetToSortSeq(S, <)
        found == [a \in 0 .. 8 |->
                    device_find_slot([i \in DOMAIN devs |-> [dev |-> devs[i], pool |-> i]], a)]
    IN  \A a \in 0 .. 8 :
          IF a \in S THEN devs[found[a]] = a ELSE found[a] = 0

\* The segments of a scan cover every table row by row, none longer than the chunk,
\* and each is one run of addresses.
ASSUME SegmentsCover ==
  \A S \in SUBSET (1 .. 7) \ {{}}, c \in 1 .. 4 :
    LET devs == SetToSortSeq(S, <)
        rows == [i \in DOMAIN devs |-> [dev |-> devs[i], pool |-> i]]
    IN  \A i \in DOMAIN rows :
          LET n == SegmentLen(rows, c, i)
          IN  /\ n <= c
              /\ devs[i + n - 1] = devs[i] + n - 1
              /\ n < c /\ i + n <= Len(rows) => devs[i + n] # devs[i] + n
=============================================================================

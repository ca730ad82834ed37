--------------------------- MODULE CmdQueueProofs ----------------------------
(***************************************************************************)
(* Proofs about the command queues of inverter_module.c and ups_module.c,  *)
(* for any registers, values and capacity: a mergeable register waits at   *)
(* most once, the last write wins, and the ring is a bounded merging FIFO. *)
(***************************************************************************)
EXTENDS CmdQueue, SequenceTheorems, TLAPS

\* The inductive invariant: what waits is told by walking Capacity indices from
\* the head, so an append is harmless only if the tail is where that walk ends.
IInv == TypeOK /\ RingConsistent /\ OnePerMergeableKey /\ LastWriteWins

\* The command that waits at the i-th place from the head.
W(i) == entries[At(i)]

-----------------------------------------------------------------------------
\* At most one turn of the ring lies between an index and the next Capacity ones.
LEMMA Wraps ==
  ASSUME NEW h \in Indices, NEW i \in 0 .. Capacity
  PROVE  (h + i) % Capacity = IF h + i < Capacity THEN h + i ELSE h + i - Capacity
<1>1. h \in Nat /\ i \in Nat /\ Capacity \in Nat \ {0} /\ h < Capacity /\ i <= Capacity
  BY QueueAssumption DEF Indices
<1>2. CASE h + i < Capacity
  BY <1>1, <1>2
<1>3. CASE h + i >= Capacity
  BY <1>1, <1>3
<1> QED
  BY <1>1, <1>2, <1>3

\* The walk from the head stays inside the ring and meets no index twice.
LEMMA WalkInjective ==
  ASSUME TypeOK, NEW i \in 0 .. Capacity - 1, NEW j \in 0 .. Capacity - 1
  PROVE  At(i) \in Indices /\ (At(i) = At(j) => i = j)
<1>1. /\ At(i) = IF head + i < Capacity THEN head + i ELSE head + i - Capacity
      /\ At(j) = IF head + j < Capacity THEN head + j ELSE head + j - Capacity
  <2>1. head \in Indices /\ i \in 0 .. Capacity /\ j \in 0 .. Capacity
    BY QueueAssumption DEF TypeOK
  <2> QED
    BY <2>1, Wraps DEF At
<1> QED
  BY <1>1, QueueAssumption DEF TypeOK, Indices

\* What waits is a command.
LEMMA WaitingCommand ==
  ASSUME TypeOK, NEW i \in 0 .. count - 1
  PROVE  i \in 0 .. Capacity - 1 /\ At(i) \in Indices /\ W(i) \in Commands
<1>1. i \in 0 .. Capacity - 1
  BY QueueAssumption DEF TypeOK
<1> QED
  BY <1>1, WalkInjective DEF W, TypeOK

\* A pop moves every waiting command one place towards the head.
LEMMA PopShifts ==
  ASSUME TypeOK, Pop, NEW i \in 0 .. count - 2
  PROVE  W(i)' = W(i + 1)
<1>1. head' = (head + 1) % Capacity /\ entries' = entries
  BY DEF Pop
<1>2. head' = IF head + 1 < Capacity THEN head + 1 ELSE head + 1 - Capacity
  <2>1. head \in Indices /\ 1 \in 0 .. Capacity
    BY QueueAssumption DEF TypeOK
  <2> QED
    BY <1>1, <2>1, Wraps
<1>3. /\ head \in Nat /\ head < Capacity /\ count \in Nat /\ count <= Capacity
      /\ i \in Nat /\ i + 1 < count /\ Capacity \in Nat
  BY QueueAssumption DEF TypeOK, Indices
<1>4. head \in Indices /\ head' \in Indices /\ i \in 0 .. Capacity /\ i + 1 \in 0 .. Capacity
  BY <1>2, <1>3 DEF Indices
<1>5. /\ (head' + i) % Capacity = IF head' + i < Capacity THEN head' + i ELSE head' + i - Capacity
      /\ (head + (i + 1)) % Capacity = IF head + (i + 1) < Capacity THEN head + (i + 1)
                                       ELSE head + (i + 1) - Capacity
  BY <1>4, Wraps
<1>6. (head' + i) % Capacity = (head + (i + 1)) % Capacity
  BY <1>2, <1>3, <1>4, <1>5
<1> QED
  BY <1>1, <1>6 DEF W, At

\* Two commands for one mergeable register supersede each other.
LEMMA SupersedesSymmetric ==
  ASSUME NEW c \in Commands, NEW d \in Commands, Supersedes(c, d)
  PROVE  Supersedes(d, c) /\ Key(c) = Key(d)
  BY DEF Supersedes, Mergeable, Key, Commands

-----------------------------------------------------------------------------
\* queue_init leaves an empty ring and no command accepted.
LEMMA InitIInv == Init => IInv
<1> SUFFICES ASSUME Init PROVE IInv
  OBVIOUS
<1>1. Zeroed \in Commands
  <2>1. PICK a \in Addrs, n \in Counts, v \in Values, m \in Modes : TRUE
    BY QueueAssumption
  <2>2. [addr |-> a, count |-> n, value |-> v, mode |-> m] \in Commands
    BY DEF Commands
  <2> QED
    BY <2>2 DEF Zeroed
<1>2. TypeOK
  BY <1>1, QueueAssumption DEF Init, TypeOK, Indices
<1>3. RingConsistent
  BY QueueAssumption DEF Init, RingConsistent
<1>4. OnePerMergeableKey /\ LastWriteWins
  BY DEF Init, OnePerMergeableKey, LastWriteWins
<1> QED
  BY <1>2, <1>3, <1>4 DEF IInv

\* An overwrite in place: the entry is the only one waiting for its register, so
\* the newest command is also the last one in the queue.
LEMMA PushMergeIInv ==
  ASSUME IInv, NEW c \in Commands, PushMerge(c)
  PROVE  IInv' /\ \E i \in 0 .. count - 1 :
                    /\ Supersedes(c, W(i)) /\ \A j \in 0 .. i - 1 : ~Supersedes(c, W(j))
                    /\ W(i)' = c /\ \A j \in 0 .. count - 1 : j # i => W(j)' = W(j)
<1> USE DEF IInv
<1>1. PICK i \in 0 .. count - 1 :
        /\ Supersedes(c, W(i))
        /\ \A j \in 0 .. i - 1 : ~Supersedes(c, W(j))
        /\ entries' = [entries EXCEPT ![At(i)] = [addr |-> @.addr, count |-> @.count,
                                                  value |-> c.value, mode |-> c.mode]]
  BY DEF PushMerge, W
<1>2. /\ head' = head /\ tail' = tail /\ count' = count /\ done' = done
      /\ accepted' = [accepted EXCEPT ![Key(c)] = c]
  BY DEF PushMerge
<1>3. \A j \in 0 .. count - 1 : At(j) \in Indices /\ W(j) \in Commands /\ At(j)' = At(j)
  BY <1>2, WaitingCommand DEF At
<1>4. entries' = [entries EXCEPT ![At(i)] = c]
  <2>1. [addr |-> W(i).addr, count |-> W(i).count, value |-> c.value, mode |-> c.mode] = c
    BY <1>1, <1>3 DEF Supersedes, Mergeable, Commands
  <2> QED
    BY <1>1, <2>1 DEF W
<1>5. W(i)' = c /\ \A j \in 0 .. count - 1 : j # i => W(j)' = W(j)
  <2>1. \A j \in 0 .. count - 1 : j # i => At(j) # At(i)
    BY WaitingCommand, WalkInjective
  <2>2. entries \in [Indices -> Commands]
    BY DEF TypeOK
  <2> QED
    BY <1>3, <1>4, <2>1, <2>2 DEF W
<1>6. TypeOK'
  <2>1. Key(c) \in Keys
    BY DEF Key, Keys, Commands
  <2> QED
    BY <1>2, <1>3, <1>4, <2>1 DEF TypeOK
<1>7. RingConsistent'
  BY <1>2 DEF RingConsistent
<1>8. \A j \in 0 .. count - 1 : Key(W(j))' = Key(W(j))
  BY <1>1, <1>3, <1>5, SupersedesSymmetric DEF Key
<1>9. OnePerMergeableKey'
  <2> SUFFICES ASSUME NEW j \in 0 .. count - 1, NEW m \in 0 .. count - 1,
                      Supersedes(W(j), W(m))'
               PROVE  j = m
    BY <1>2 DEF OnePerMergeableKey, W
  <2>1. Supersedes(W(j), W(m))
    BY <1>8 DEF Supersedes, Mergeable, Key
  <2> QED
    BY <2>1 DEF OnePerMergeableKey, W
<1>10. \A j \in 0 .. count - 1 : Key(W(j)) = Key(c) => j = i
  <2> SUFFICES ASSUME NEW j \in 0 .. count - 1, Key(W(j)) = Key(c) PROVE j = i
    OBVIOUS
  <2>1. Supersedes(W(i), W(j))
    BY <1>1 DEF Supersedes, Mergeable, Key
  <2> QED
    BY <2>1 DEF OnePerMergeableKey, W
<1>11. LastWriteWins'
  <2> SUFFICES ASSUME NEW k \in Keys
               PROVE  LET of == {j \in 0 .. count - 1 : Key(W(j))' = k}
                      IN  IF of = {} THEN accepted'[k] = done[k]
                          ELSE \E m \in of : (\A j \in of : j <= m) /\ W(m)' = accepted'[k]
    BY <1>2 DEF LastWriteWins, W
  <2>1. CASE k = Key(c)
    <3>1. {j \in 0 .. count - 1 : Key(W(j))' = k} = {i}
      BY <1>1, <1>3, <1>8, <1>10, <2>1, SupersedesSymmetric
    <3>2. accepted'[k] = c
      BY <1>2, <2>1 DEF TypeOK
    <3> QED
      BY <1>5, <3>1, <3>2
  <2>2. CASE k # Key(c)
    <3>1. {j \in 0 .. count - 1 : Key(W(j))' = k} = {j \in 0 .. count - 1 : Key(W(j)) = k}
      BY <1>8
    <3>2. accepted'[k] = accepted[k]
      BY <1>2, <2>2 DEF TypeOK
    <3>3. \A j \in 0 .. count - 1 : Key(W(j)) = k => W(j)' = W(j)
      BY <1>1, <1>3, <1>5, <2>2, SupersedesSymmetric
    <3>4. LET of == {j \in 0 .. count - 1 : Key(W(j)) = k}
          IN  IF of = {} THEN accepted[k] = done[k]
              ELSE \E m \in of : (\A j \in of : j <= m) /\ W(m) = accepted[k]
      BY DEF LastWriteWins, W
    <3> QED
      BY <3>1, <3>2, <3>3, <3>4
  <2> QED
    BY <2>1, <2>2
<1> QED
  BY <1>1, <1>5, <1>6, <1>7, <1>9, <1>11

\* An append lands behind everything that waits, and on nothing that waits.
LEMMA PushAppendIInv ==
  ASSUME IInv, NEW c \in Commands, PushAppend(c), NEW n, n = count
  PROVE  IInv' /\ W(n)' = c /\ \A j \in 0 .. n - 1 : W(j)' = W(j)
<1> USE DEF IInv
<1>1. /\ \A j \in 0 .. n - 1 : ~Supersedes(c, W(j))
      /\ n < Capacity
      /\ entries' = [entries EXCEPT ![tail] = c]
      /\ tail' = (tail + 1) % Capacity
      /\ count' = n + 1
      /\ accepted' = [accepted EXCEPT ![Key(c)] = c]
      /\ head' = head /\ done' = done
  BY DEF PushAppend, NothingToMerge, W
<1>2. \A j \in 0 .. n - 1 : W(j) \in Commands
  BY WaitingCommand
<1>3. tail = At(n) /\ tail \in Indices /\ n \in 0 .. Capacity - 1
  BY <1>1, QueueAssumption DEF RingConsistent, At, TypeOK
<1>4. W(n)' = c /\ \A j \in 0 .. n - 1 : W(j)' = W(j)
  <2>1. \A j \in 0 .. n - 1 : At(j) # tail /\ At(j) \in Indices
    BY <1>3, WalkInjective, QueueAssumption DEF TypeOK
  <2>2. \A j : At(j)' = At(j)
    BY <1>1 DEF At
  <2>3. entries \in [Indices -> Commands]
    BY DEF TypeOK
  <2>4. entries'[At(n)] = c /\ At(n) = (head + n) % Capacity
    BY <1>1, <1>3, <2>3 DEF At
  <2>5. \A j \in 0 .. n - 1 : entries'[At(j)] = entries[At(j)]
    BY <1>1, <2>1, <2>3
  <2> QED
    BY <1>1, <2>2, <2>4, <2>5 DEF W, At
<1>5. TypeOK'
  <2>1. Key(c) \in Keys
    BY DEF Key, Keys, Commands
  <2>2. tail' \in Indices
    <3>1. 1 \in 0 .. Capacity
      BY QueueAssumption
    <3>2. tail' = IF tail + 1 < Capacity THEN tail + 1 ELSE tail + 1 - Capacity
      BY <1>1, <1>3, <3>1, Wraps
    <3> QED
      BY <1>3, <3>2, QueueAssumption DEF Indices
  <2>3. count' \in 0 .. Capacity
    BY <1>1, <1>3, QueueAssumption
  <2> QED
    BY <1>1, <1>3, <2>1, <2>2, <2>3 DEF TypeOK
<1>6. RingConsistent'
  <2>1. head \in Indices /\ n \in 0 .. Capacity /\ n + 1 \in 0 .. Capacity
        /\ 1 \in 0 .. Capacity
    BY <1>1, <1>3, QueueAssumption DEF TypeOK
  <2>2. /\ (head + n) % Capacity = IF head + n < Capacity THEN head + n
                                       ELSE head + n - Capacity
        /\ (head + (n + 1)) % Capacity = IF head + (n + 1) < Capacity THEN head + (n + 1)
                                             ELSE head + (n + 1) - Capacity
        /\ (tail + 1) % Capacity = IF tail + 1 < Capacity THEN tail + 1 ELSE tail + 1 - Capacity
    BY <1>3, <2>1, Wraps
  <2>3. (tail + 1) % Capacity = (head + (n + 1)) % Capacity
    BY <1>3, <2>1, <2>2, QueueAssumption DEF At, Indices
  <2> QED
    BY <1>1, <2>3 DEF RingConsistent
<1>7. OnePerMergeableKey'
  <2> SUFFICES ASSUME NEW j \in 0 .. n, NEW m \in 0 .. n, Supersedes(W(j), W(m))'
               PROVE  j = m
    BY <1>1, <1>3 DEF OnePerMergeableKey, W
  <2>1. CASE j = n /\ m # n
    <3>1. m \in 0 .. n - 1
      BY <1>3, <2>1
    <3> QED
      BY <1>1, <1>4, <2>1, <3>1 DEF Supersedes, Mergeable
  <2>2. CASE j # n /\ m = n
    <3>1. j \in 0 .. n - 1
      BY <1>3, <2>2
    <3>2. Supersedes(W(j), c)
      BY <1>4, <2>2, <3>1 DEF Supersedes, Mergeable
    <3> QED
      BY <1>1, <1>2, <3>1, <3>2, SupersedesSymmetric
  <2>3. CASE j # n /\ m # n
    <3>1. j \in 0 .. n - 1 /\ m \in 0 .. n - 1
      BY <1>3, <2>3
    <3>2. Supersedes(W(j), W(m))
      BY <1>4, <3>1 DEF Supersedes, Mergeable
    <3> QED
      BY <3>1, <3>2 DEF OnePerMergeableKey, W
  <2> QED
    BY <2>1, <2>2, <2>3
<1>8. LastWriteWins'
  <2> SUFFICES ASSUME NEW k \in Keys
               PROVE  LET of == {j \in 0 .. n : Key(W(j))' = k}
                      IN  IF of = {} THEN accepted'[k] = done[k]
                          ELSE \E m \in of : (\A j \in of : j <= m) /\ W(m)' = accepted'[k]
    BY <1>1, <1>3 DEF LastWriteWins, W
  <2>1. CASE k = Key(c)
    <3>1. n \in {j \in 0 .. n : Key(W(j))' = k}
      BY <1>3, <1>4, <2>1 DEF Key
    <3>2. accepted'[k] = c
      BY <1>1, <2>1 DEF TypeOK
    <3> QED
      BY <1>3, <1>4, <3>1, <3>2
  <2>2. CASE k # Key(c)
    <3>1. {j \in 0 .. n : Key(W(j))' = k} = {j \in 0 .. n - 1 : Key(W(j)) = k}
      BY <1>3, <1>4, <2>2 DEF Key
    <3>2. accepted'[k] = accepted[k]
      BY <1>1, <2>2 DEF TypeOK
    <3>3. LET of == {j \in 0 .. n - 1 : Key(W(j)) = k}
          IN  IF of = {} THEN accepted[k] = done[k]
              ELSE \E m \in of : (\A j \in of : j <= m) /\ W(m) = accepted[k]
      BY DEF LastWriteWins, W
    <3> QED
      BY <1>4, <3>1, <3>2, <3>3
  <2> QED
    BY <2>1, <2>2
<1> QED
  BY <1>4, <1>5, <1>6, <1>7, <1>8

\* A pop hands over the oldest command and leaves the others in their order.
LEMMA PopIInv ==
  ASSUME IInv, Pop
  PROVE  IInv'
<1> USE DEF IInv
<1>1. PICK n \in 1 .. Capacity : n = count
  BY QueueAssumption DEF Pop, TypeOK
<1>2. /\ head' = (head + 1) % Capacity /\ count' = n - 1
      /\ done' = [done EXCEPT ![Key(W(0))] = W(0)]
      /\ entries' = entries /\ tail' = tail /\ accepted' = accepted
  <2>1. head \in Nat /\ head < Capacity /\ Capacity \in Nat \ {0}
    BY QueueAssumption DEF TypeOK, Indices
  <2>2. head = At(0)
    BY <2>1 DEF At
  <2> QED
    BY <1>1, <2>2 DEF Pop, W
<1>3. \A j \in 0 .. n - 1 : W(j) \in Commands
  BY <1>1, WaitingCommand
<1>4. \A j \in 0 .. n - 2 : W(j)' = W(j + 1)
  BY <1>1, PopShifts
<1>5. head' = IF head + 1 < Capacity THEN head + 1 ELSE head + 1 - Capacity
  <2>1. head \in Indices /\ 1 \in 0 .. Capacity
    BY QueueAssumption DEF TypeOK
  <2> QED
    BY <1>2, <2>1, Wraps
<1>6. head \in Indices /\ head' \in Indices
  BY <1>5, QueueAssumption DEF TypeOK, Indices
<1>7. TypeOK'
  <2>1. W(0) \in Commands /\ Key(W(0)) \in Keys
    BY <1>1, <1>3 DEF Key, Keys, Commands
  <2>2. count' \in 0 .. Capacity
    BY <1>1, <1>2, QueueAssumption
  <2> QED
    BY <1>2, <1>6, <2>1, <2>2 DEF TypeOK
<1>8. RingConsistent'
  <2>1. n \in 0 .. Capacity /\ n - 1 \in 0 .. Capacity
    BY <1>1, QueueAssumption
  <2>2. /\ (head + n) % Capacity = IF head + n < Capacity THEN head + n
                                   ELSE head + n - Capacity
        /\ (head' + (n - 1)) % Capacity = IF head' + (n - 1) < Capacity THEN head' + (n - 1)
                                          ELSE head' + (n - 1) - Capacity
    BY <1>6, <2>1, Wraps
  <2>3. (head + n) % Capacity = (head' + (n - 1)) % Capacity
    BY <1>1, <1>5, <1>6, <2>2, QueueAssumption DEF Indices
  <2> QED
    BY <1>1, <1>2, <2>3 DEF RingConsistent
<1>9. OnePerMergeableKey'
  <2> SUFFICES ASSUME NEW j \in 0 .. n - 2, NEW m \in 0 .. n - 2, Supersedes(W(j), W(m))'
               PROVE  j = m
    BY <1>1, <1>2 DEF OnePerMergeableKey, W
  <2>1. Supersedes(W(j + 1), W(m + 1))
    BY <1>4 DEF Supersedes, Mergeable
  <2>2. j + 1 \in 0 .. n - 1 /\ m + 1 \in 0 .. n - 1
    BY <1>1
  <2>3. j + 1 = m + 1
    BY <1>1, <2>1, <2>2 DEF OnePerMergeableKey, W
  <2> QED
    BY <1>1, <2>3
<1>10. LastWriteWins'
  <2> SUFFICES ASSUME NEW k \in Keys
               PROVE  LET of == {j \in 0 .. n - 2 : Key(W(j))' = k}
                      IN  IF of = {} THEN accepted[k] = done'[k]
                          ELSE \E m \in of : (\A j \in of : j <= m) /\ W(m)' = accepted[k]
    BY <1>1, <1>2 DEF LastWriteWins, W
  <2> DEFINE old == {j \in 0 .. n - 1 : Key(W(j)) = k}
             new == {j \in 0 .. n - 2 : Key(W(j))' = k}
  <2>1. IF old = {} THEN accepted[k] = done[k]
        ELSE \E m \in old : (\A j \in old : j <= m) /\ W(m) = accepted[k]
    BY <1>1 DEF LastWriteWins, W
  <2>2. \A j \in 0 .. n - 2 : j \in new <=> j + 1 \in old
    BY <1>1, <1>4 DEF Key
  <2>3. done'[k] = IF Key(W(0)) = k THEN W(0) ELSE done[k]
    <3>1. Key(W(0)) \in Keys
      BY <1>1, <1>3 DEF Key, Keys, Commands
    <3> QED
      BY <1>2, <3>1 DEF TypeOK
  <2>4. 0 \in old <=> Key(W(0)) = k
    BY <1>1
  <2>5. old \subseteq 0 .. n - 1 /\ new \subseteq 0 .. n - 2
    OBVIOUS
  <2>6. \A m \in new : W(m)' = W(m + 1)
    BY <1>4
  <2> HIDE DEF old, new
  <2>7. CASE new = {}
    <3>1. \A m \in old : m = 0
      BY <1>1, <2>2, <2>5, <2>7
    <3>2. CASE old = {}
      BY <2>1, <2>3, <2>4, <2>7, <3>2 DEF new
    <3>3. CASE old # {}
      <4>1. 0 \in old /\ W(0) = accepted[k]
        BY <2>1, <3>1, <3>3
      <4> QED
        BY <2>3, <2>4, <2>7, <4>1 DEF new
    <3> QED
      BY <3>2, <3>3
  <2>8. CASE new # {}
    <3>1. PICK x \in new : TRUE
      BY <2>8
    <3>2. x + 1 \in old
      BY <2>2, <2>5
    <3>3. PICK m \in old : (\A j \in old : j <= m) /\ W(m) = accepted[k]
      BY <2>1, <3>2
    <3>4. m - 1 \in 0 .. n - 2 /\ (m - 1) + 1 = m
      BY <1>1, <2>5, <3>2, <3>3
    <3>5. m - 1 \in new /\ W(m - 1)' = W(m)
      BY <2>2, <2>6, <3>4
    <3>6. \A j \in new : j <= m - 1
      BY <1>1, <2>2, <2>5, <3>3
    <3> QED
      BY <2>8, <3>3, <3>5, <3>6 DEF new
  <2> QED
    BY <2>7, <2>8
<1> QED
  BY <1>7, <1>8, <1>9, <1>10

\* Every step of the producer and of the consumer keeps the invariant.
LEMMA NextIInv == IInv /\ [Next]_vars => IInv'
<1> SUFFICES ASSUME IInv, [Next]_vars PROVE IInv'
  OBVIOUS
<1>1. CASE UNCHANGED vars
  BY <1>1 DEF IInv, TypeOK, RingConsistent, OnePerMergeableKey, LastWriteWins, At, vars
<1>2. ASSUME NEW c \in Commands, PushMerge(c) PROVE IInv'
  BY <1>2, PushMergeIInv
<1>3. ASSUME NEW c \in Commands, PushAppend(c) PROVE IInv'
  BY <1>3, PushAppendIInv
<1>4. CASE Pop
  BY <1>4, PopIInv
<1> QED
  BY <1>1, <1>2, <1>3, <1>4 DEF Next, PushFull, PopEmpty

\* The invariant holds in every state, for any commands and any capacity.
THEOREM Invariance == Spec => []IInv
<1> QED
  BY InitIInv, NextIInv, PTL DEF Spec

\* Both ends of the ring wrap together: the tail is count places after the head.
THEOREM ConsistentRing == Spec => []RingConsistent
<1>1. IInv => RingConsistent
  BY DEF IInv
<1> QED
  BY <1>1, Invariance, PTL

\* queue_push leaves at most one waiting command for a mergeable register.
THEOREM OnePerKey == Spec => []OnePerMergeableKey
<1>1. IInv => OnePerMergeableKey
  BY DEF IInv
<1> QED
  BY <1>1, Invariance, PTL

\* The newest accepted command for a register is the last one the device gets.
THEOREM NewestWins == Spec => []LastWriteWins
<1>1. IInv => LastWriteWins
  BY DEF IInv
<1> QED
  BY <1>1, Invariance, PTL

-----------------------------------------------------------------------------
\* The waiting commands are a sequence of count commands.
LEMMA WaitingIsSequence ==
  ASSUME TypeOK
  PROVE  /\ Waiting \in Seq(Commands) /\ Len(Waiting) = count
         /\ \A k \in 1 .. count : Waiting[k] = W(k - 1)
<1>1. count \in Nat
  BY DEF TypeOK
<1>2. \A k \in 1 .. count : k - 1 \in 0 .. count - 1
  BY <1>1
<1>3. \A k \in 1 .. count : W(k - 1) \in Commands
  BY <1>2, WaitingCommand
<1> QED
  BY <1>1, <1>3 DEF Waiting, W

\* Every step of the ring is a step of the merging FIFO, or none.
LEMMA StepImplementsFifo ==
  ASSUME IInv, IInv', [Next]_vars
  PROVE  [Fifo!Next]_Waiting
<1>0. TypeOK /\ TypeOK'
  BY DEF IInv
<1>1. CASE UNCHANGED vars
  BY <1>1 DEF vars, Waiting, At
<1>2. ASSUME NEW c \in Commands, PushMerge(c) PROVE Fifo!Merge(c)
  <2>1. PICK i \in 0 .. count - 1 :
          /\ Supersedes(c, W(i)) /\ \A j \in 0 .. i - 1 : ~Supersedes(c, W(j))
          /\ W(i)' = c /\ \A j \in 0 .. count - 1 : j # i => W(j)' = W(j)
    BY <1>2, PushMergeIInv
  <2>2. count' = count /\ count \in Nat
    BY <1>0, <1>2 DEF PushMerge, TypeOK
  <2>3. PICK k \in 1 .. count : k = i + 1
    BY <2>2
  <2>4. Supersedes(c, Waiting[k]) /\ \A j \in 1 .. k - 1 : ~Supersedes(c, Waiting[j])
    BY <1>0, <2>1, <2>2, <2>3, WaitingIsSequence
  <2>5. Waiting' = [Waiting EXCEPT ![k] = c]
    <3>1. \A m \in 1 .. count : m - 1 \in 0 .. count - 1 /\ (m - 1 = i <=> m = k)
      BY <2>2, <2>3
    <3>2. Waiting' = [m \in 1 .. count |-> W(m - 1)']
      BY <2>2 DEF Waiting, W
    <3>3. \A m \in 1 .. count : W(m - 1)' = IF m = k THEN c ELSE Waiting[m]
      BY <1>0, <2>1, <2>2, <3>1, WaitingIsSequence
    <3> QED
      BY <3>2, <3>3 DEF Waiting
  <2> QED
    BY <1>0, <2>3, <2>4, <2>5, WaitingIsSequence DEF Fifo!Merge, Fifo!Superseded
<1>3. ASSUME NEW c \in Commands, PushAppend(c) PROVE Fifo!Add(c)
  <2>1. PICK n \in Nat : n = count
    BY <1>0 DEF TypeOK
  <2>2. W(n)' = c /\ \A j \in 0 .. n - 1 : W(j)' = W(j)
    BY <1>3, <2>1, PushAppendIInv
  <2>3. /\ count' = n + 1 /\ n < Capacity
        /\ \A j \in 0 .. n - 1 : ~Supersedes(c, W(j))
    BY <1>3, <2>1 DEF PushAppend, NothingToMerge, W
  <2>4. \A k \in 1 .. n : ~Supersedes(c, Waiting[k])
    BY <1>0, <2>1, <2>3, WaitingIsSequence
  <2>5. Waiting' = Append(Waiting, c)
    BY <1>0, <2>1, <2>2, <2>3, WaitingIsSequence DEF Waiting, W
  <2> QED
    BY <1>0, <2>1, <2>3, <2>4, <2>5, WaitingIsSequence DEF Fifo!Add
<1>4. CASE Pop
  <2>1. PICK n \in Nat : n = count /\ n > 0
    BY <1>0, <1>4 DEF TypeOK, Pop
  <2>2. count' = n - 1
    BY <1>4, <2>1 DEF Pop
  <2>3. \A j \in 0 .. n - 2 : W(j)' = W(j + 1)
    BY <1>0, <1>4, <2>1, PopShifts
  <2>4. Waiting' = Tail(Waiting) /\ Waiting # << >>
    BY <1>0, <2>1, <2>2, <2>3, WaitingIsSequence DEF Waiting, W
  <2> QED
    BY <2>4 DEF Fifo!Next, Fifo!Remove
<1> QED
  BY <1>1, <1>2, <1>3, <1>4 DEF Next, PushFull, PopEmpty, Fifo!Next

\* The ring with in-place overwrite implements a bounded FIFO in which a new
\* command takes the place of the waiting one for its register.
THEOREM Refinement == Spec => ImplementsFifo
<1>1. Init => Fifo!Init
  BY DEF Init, Fifo!Init, Waiting
<1>2. IInv /\ IInv' /\ [Next]_vars => [Fifo!Next]_Waiting
  BY StepImplementsFifo
<1> QED
  BY <1>1, <1>2, Invariance, PTL DEF Spec, ImplementsFifo, Fifo!Spec
=============================================================================

------------------------------ MODULE CmdQueue ------------------------------
(***************************************************************************)
(* The per-unit write-command queue (inverter_cmd_queue_t / queue_push /   *)
(* queue_pop in src/src/inverter_module.c, and the same code with no       *)
(* mergeable address in src/src/ups_module.c): a ring of Capacity entries  *)
(* filled by the CMOS subscriber thread and drained by the poll thread.    *)
(* Both operations run under the queue's mutex, so each is one step.       *)
(*                                                                         *)
(* A command's values are one opaque datum; its key is the address and the *)
(* register count.                                                         *)
(***************************************************************************)
EXTENDS Integers, Sequences

CONSTANTS
  Addrs,       \* device register addresses
  MergeAddrs,  \* addresses for which *_queue_merge_allowed returns true
  Counts,      \* register counts of the writes
  Values,      \* values written
  Modes,       \* FC06, FC16, AUTO
  Capacity     \* MODBUS_DEFAULT_CMD_QUEUE_CAPACITY

ASSUME QueueAssumption ==
  /\ Capacity \in Nat \ {0}
  /\ MergeAddrs \subseteq Addrs
  /\ Counts \subseteq Nat \ {0}
  /\ Addrs # {} /\ Counts # {} /\ Values # {} /\ Modes # {}

VARIABLES
  entries, head, tail, count,   \* the ring
  accepted,                     \* history: last command accepted for each key
  done                          \* history: last command popped for each key

vars == <<entries, head, tail, count, accepted, done>>

Commands == [addr : Addrs, count : Counts, value : Values, mode : Modes]
Indices  == 0 .. Capacity - 1
Keys     == Addrs \X Counts
Key(c)   == <<c.addr, c.count>>

\* inverter_queue_merge_allowed, tested for single-register writes only; the
\* waiting entry must be for the same address and be a single-register write.
Mergeable(c)        == c.count = 1 /\ c.addr \in MergeAddrs
Supersedes(c, e)    == Mergeable(c) /\ e.addr = c.addr /\ e.count = 1

\* The i-th step of the walk from the head, and the waiting commands in order.
At(i)     == (head + i) % Capacity
Waiting   == [k \in 1 .. count |-> entries[At(k - 1)]]

-----------------------------------------------------------------------------
\* queue_init: an empty ring.  Its entries hold no command yet: one command
\* stands for the zeroed memory, which no operation reads.
Zeroed == CHOOSE c \in Commands : TRUE

Init ==
  /\ entries = [i \in Indices |-> Zeroed]
  /\ accepted = [k \in Keys |-> Zeroed]
  /\ done = accepted
  /\ head = 0 /\ tail = 0 /\ count = 0

\* Mutant of PushMerge: the entry's mode is updated, its value is not.
PushMergeModeOnly(c) ==
  /\ \E i \in 0 .. count - 1 :
       /\ Supersedes(c, entries[At(i)])
       /\ \A j \in 0 .. i - 1 : ~Supersedes(c, entries[At(j)])
       /\ entries' = [entries EXCEPT ![At(i)] = [@ EXCEPT !.mode = c.mode]]
  /\ accepted' = [accepted EXCEPT ![Key(c)] = c]
  /\ UNCHANGED <<head, tail, count, done>>

\* queue_push finds the first entry, from the head on, that c may overwrite ...
PushMerge(c) ==
  /\ \E i \in 0 .. count - 1 :
       /\ Supersedes(c, entries[At(i)])
       /\ \A j \in 0 .. i - 1 : ~Supersedes(c, entries[At(j)])
       /\ entries' = [entries EXCEPT ![At(i)] = [addr |-> @.addr, count |-> @.count,
                                                 value |-> c.value, mode |-> c.mode]]
  /\ accepted' = [accepted EXCEPT ![Key(c)] = c]
  /\ UNCHANGED <<head, tail, count, done>>

\* Mutant of NothingToMerge: only the head is compared.
NothingAtHead(c) == count > 0 => ~Supersedes(c, entries[head])

NothingToMerge(c) == \A i \in 0 .. count - 1 : ~Supersedes(c, entries[At(i)])

\* Mutant of PushAppend: the test for a full queue off by one.
PushAppendOverfull(c) ==
  /\ NothingToMerge(c)
  /\ count <= Capacity
  /\ entries' = [entries EXCEPT ![tail] = c]
  /\ tail' = (tail + 1) % Capacity
  /\ count' = count + 1
  /\ accepted' = [accepted EXCEPT ![Key(c)] = c]
  /\ UNCHANGED <<head, done>>

\* ... otherwise appends at the tail ...
PushAppend(c) ==
  /\ NothingToMerge(c)
  /\ count < Capacity
  /\ entries' = [entries EXCEPT ![tail] = c]
  /\ tail' = (tail + 1) % Capacity
  /\ count' = count + 1
  /\ accepted' = [accepted EXCEPT ![Key(c)] = c]
  /\ UNCHANGED <<head, done>>

\* ... or returns -1 on a full queue.
PushFull(c) ==
  /\ NothingToMerge(c)
  /\ count >= Capacity
  /\ UNCHANGED vars

\* queue_pop; on an empty queue it returns -1 and changes nothing.
Pop ==
  /\ count > 0
  /\ head' = (head + 1) % Capacity
  /\ count' = count - 1
  /\ done' = [done EXCEPT ![Key(entries[head])] = entries[head]]
  /\ UNCHANGED <<entries, tail, accepted>>

PopEmpty ==
  /\ count = 0
  /\ UNCHANGED vars

Next ==
  \/ \E c \in Commands : PushMerge(c) \/ PushAppend(c) \/ PushFull(c)
  \/ Pop
  \/ PopEmpty

Spec == Init /\ [][Next]_vars

-----------------------------------------------------------------------------
\* The types of the ring's fields and of the two histories.
TypeOK ==
  /\ entries \in [Indices -> Commands]
  /\ head \in Indices /\ tail \in Indices
  /\ count \in 0 .. Capacity
  /\ accepted \in [Keys -> Commands] /\ done \in [Keys -> Commands]

\* The tail is count entries after the head, however often both wrapped: an
\* append never lands on a command that waits.
RingConsistent == tail = (head + count) % Capacity

\* A mergeable key waits at most once, so an overwrite in place cannot leave an
\* older command for that register behind it in the queue.
OnePerMergeableKey ==
  \A i, j \in 0 .. count - 1 :
    Supersedes(entries[At(i)], entries[At(j)]) => i = j

\* Last write wins: the newest accepted command for a key is the last one still
\* waiting for it or, when none waits, the last one handed to the poll thread.
LastWriteWins ==
  \A k \in Keys :
    LET of == {i \in 0 .. count - 1 : Key(entries[At(i)]) = k}
    IN  IF of = {} THEN accepted[k] = done[k]
        ELSE \E i \in of : (\A j \in of : j <= i) /\ entries[At(i)] = accepted[k]

\* The ring implements the bounded merging FIFO.
Fifo == INSTANCE CmdFifo WITH q <- Waiting
ImplementsFifo == Fifo!Spec
=============================================================================

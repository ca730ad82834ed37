------------------------------ MODULE CmdFifo -------------------------------
(***************************************************************************)
(* What a unit's command queue promises: a bounded FIFO of register writes *)
(* in which a new single-register write to a mergeable address takes the   *)
(* place of the one still waiting for that address.                        *)
(***************************************************************************)
EXTENDS Integers, Sequences

CONSTANTS Commands, Capacity, Supersedes(_, _)

VARIABLE q

Init == q = << >>

\* The position of the oldest waiting command that c takes the place of.
Superseded(c, k) ==
  /\ k \in 1 .. Len(q)
  /\ Supersedes(c, q[k])
  /\ \A j \in 1 .. k - 1 : ~Supersedes(c, q[j])

Merge(c) == \E k \in 1 .. Len(q) : Superseded(c, k) /\ q' = [q EXCEPT ![k] = c]

Add(c) ==
  /\ \A k \in 1 .. Len(q) : ~Supersedes(c, q[k])
  /\ Len(q) < Capacity
  /\ q' = Append(q, c)

Remove == q # << >> /\ q' = Tail(q)

Next == Remove \/ \E c \in Commands : Merge(c) \/ Add(c)

Spec == Init /\ [][Next]_q
=============================================================================

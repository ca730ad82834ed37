------------------------------ MODULE BusMutex ------------------------------
(***************************************************************************)
(* What bus_coord.h promises ("Acquire exclusive ownership of              *)
(* serial_path", "Release one nesting level"): one reentrant lock per      *)
(* serial path, seen only through the nesting level of each thread.        *)
(***************************************************************************)
EXTENDS Integers

CONSTANTS Threads, NoPath, PathOf

VARIABLE held

Rivals(t) == {u \in Threads \ {t} : PathOf[u] = PathOf[t] /\ PathOf[t] # NoPath}

Init == held = [t \in Threads |-> 0]

\* bus_coord_acquire returns: nobody else is on the path.
Enter(t) ==
  /\ \A u \in Rivals(t) : held[u] = 0
  /\ held' = [held EXCEPT ![t] = @ + 1]

\* bus_coord_release returns.
Leave(t) ==
  /\ held[t] > 0
  /\ held' = [held EXCEPT ![t] = @ - 1]

Next == \E t \in Threads : Enter(t) \/ Leave(t)

Spec == Init /\ [][Next]_held
=============================================================================

------------------------------ MODULE MCAlarm -------------------------------
(* Two contexts that log to one database: a table with a sticky entry, a     *)
(* register no profile maps and a register watched for changes, and a table  *)
(* with a register watched for its limits.                                   *)
EXTENDS Alarm

CONSTANTS unit1, unit2, bits, level, mode, absent, log

Entry(r, c, lo, hi) == [reg |-> r, cond |-> c, lo |-> lo, hi |-> hi]

MCConfigured == <<unit1, unit2>>
MCSink  == [u \in {unit1, unit2} |-> log]
MCTable ==
  [u \in {unit1, unit2} |->
     IF u = unit1
     THEN <<Entry(bits, "BITMASK", 0, 1), Entry(absent, "CHANGE", 0, 0), Entry(mode, "CHANGE", 0, 0)>>
     ELSE <<Entry(level, "RANGE", 0, 100)>>]
MCRegisters == {bits, level, mode}
=============================================================================

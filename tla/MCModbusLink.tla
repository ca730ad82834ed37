---------------------------- MODULE MCModbusLink ----------------------------
(* Two units on one RTU line, or one on TCP; a read of the scan and a write,  *)
(* whose answers differ in length.                                           *)
EXTENDS ModbusLink

ReadOne  == [fc |-> 3, qty |-> 1, counted |-> TRUE]
WriteOne == [fc |-> 6, qty |-> 1, counted |-> FALSE]
Asked    == {ReadOne, WriteOne}
=============================================================================

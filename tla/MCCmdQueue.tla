----------------------------- MODULE MCCmdQueue -----------------------------
(* A mergeable and a plain register, one- and two-register writes.           *)
EXTENDS CmdQueue

CONSTANTS frequency_cmd, fault_cmd, AUTO

MCAddrs      == {frequency_cmd, fault_cmd}
MCMergeAddrs == {frequency_cmd}
MCModes      == {AUTO}
=============================================================================

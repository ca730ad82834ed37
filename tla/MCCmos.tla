------------------------------- MODULE MCCmos -------------------------------
(* Two publishers of one topic, one of which talks, and a subscriber with a  *)
(* slot for it and a slot for a topic nobody publishes.                      *)
EXTENDS Cmos, TLC

CONSTANTS p1, p2

Topics == (p1 :> "control_output") @@ (p2 :> "control_output")
SlotTopics == <<"control_output", "hmi_system_cmd">>
Talk == (p1 :> 2) @@ (p2 :> 0)
=============================================================================

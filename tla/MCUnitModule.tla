---------------------------- MODULE MCUnitModule ----------------------------
(* Instances of UnitModule: an inverter and a UPS on one serial path, and an *)
(* inverter with a path to itself, enabled together or one of them at a time. *)
EXTENDS UnitModule, TLC

CONSTANTS inv, ups, solo, p, q

\* Every request of the subscribers to both units of the shared path.
Both        == {inv, ups}
OnlyBoth    == {Both}
SharedPaths == inv :> p @@ ups :> p
SharedPath  == {p}
Kinds       == inv :> "inverter" @@ ups :> "ups"
OneFailure  == inv :> 1 @@ ups :> 1
AnyRequest  == inv :> {"init", "reboot", "write"} @@ ups :> {"init", "reboot", "write"}

\* The daemon serves either the inverter alone, with the code's threshold and
\* every request, or the two units that contend for a path: there the inverter
\* connects, initialises, scans and reconnects while reboots are asked of the UPS.
All         == {inv, ups, solo}
AloneOrBoth == {{solo}, Both}
AllPaths    == SharedPaths @@ solo :> q
TwoPaths    == {p, q}
AllKinds    == Kinds @@ solo :> "inverter"
Thresholds  == OneFailure @@ solo :> 5
SomeRequest == inv :> {} @@ ups :> {"reboot"} @@ solo :> {"init", "reboot", "write"}
=============================================================================

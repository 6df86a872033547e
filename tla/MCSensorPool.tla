------------------------------ MODULE MCSensorPool ------------------------------
(***************************************************************************)
(* Instances of the sensor pools.  Concurrent: the owner of the Cargo      *)
(* target beside a parallel worker whose sensor has a detail pass.  Shared: *)
(* two Cargo sensors of one owner, and a sensor the plan did not select.   *)
(* Phased: a fast sensor of several commands, then a late Cargo sensor.    *)
(***************************************************************************)
EXTENDS SensorPool

Concurrent == <<"ripr", "test">>
Shared     == <<"check", "skipped", "test">>
Phased     == <<"tokmd", "test">>

MCSetups == [plan : {Concurrent, Shared, Phased}, wave : BOOLEAN, old : {{}, {"test"}}]

MCSubcommands == [s \in Sensors |-> CASE s = "ripr" -> 1 [] s = "tokmd" -> 2 [] OTHER -> 0]
================================================================================

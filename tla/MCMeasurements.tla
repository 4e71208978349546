--------------------------- MODULE MCMeasurements ---------------------------
(* Two callers of sensor_task_start and api_server_start, which registers  *)
(* two handlers.                                                           *)
EXTENDS Measurements

MCRegistrations == [s \in Services |-> IF s = "server" THEN 2 ELSE 0]
=============================================================================

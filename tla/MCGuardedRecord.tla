-------------------------- MODULE MCGuardedRecord --------------------------
(* GuardedRecord as s_latest of main/sensor_task.c, with one field for the *)
(* measured values and their error: a reading, an error, and a call that   *)
(* writes one field, as those of app_status.c do.                          *)
EXTENDS GuardedRecord

MCFields  == {"valid", "last_error"}
MCZero    == [valid |-> 0, last_error |-> 0]
MCUpdates == {[valid |-> 1, last_error |-> 0], [valid |-> 0, last_error |-> 1], [valid |-> 1]}
=============================================================================

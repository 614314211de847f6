--------------------------- MODULE MCTaskSchedule ---------------------------
(* Small instances of TaskSchedule. *)
EXTENDS TaskSchedule
=============================================================================

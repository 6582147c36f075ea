---------------------------- MODULE MCCheckQueue ----------------------------
(* Small instances of CheckQueue, and the variants the properties must     *)
(* tell from it.                                                           *)
EXTENDS CheckQueue
=============================================================================

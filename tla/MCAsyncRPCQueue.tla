-------------------------- MODULE MCAsyncRPCQueue --------------------------
(* AsyncRPCQueue with two workers and two operations: one operation can be *)
(* queued while the other is held, cancelled, reported or run.             *)
EXTENDS AsyncRPCQueue
=============================================================================

---------------------------- MODULE MCScheduler ---------------------------
(***************************************************************************)
(* Scheduler on one subscription whose probe may spare two walks in a row. *)
(***************************************************************************)
EXTENDS Scheduler
===========================================================================

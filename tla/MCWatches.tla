----------------------------- MODULE MCWatches ----------------------------
(***************************************************************************)
(* Watches on two contexts.                                                *)
(***************************************************************************)
EXTENDS Watches
===========================================================================

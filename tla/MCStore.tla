------------------------------ MODULE MCStore -----------------------------
(***************************************************************************)
(* Store on a collection of two pages.                                     *)
(***************************************************************************)
EXTENDS Store
===========================================================================

------------------------------ MODULE MCAuth ------------------------------
(***************************************************************************)
(* Small instances of Auth: two tasks that make three calls between them.  *)
(***************************************************************************)
EXTENDS Auth
===========================================================================

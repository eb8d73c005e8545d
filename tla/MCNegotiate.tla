---------------------------- MODULE MCNegotiate ---------------------------
(***************************************************************************)
(* Three versions and two kinds, one of which came with the second         *)
(* version; a table of the newer kind and a counter of the older.          *)
(***************************************************************************)
EXTENDS Negotiate

CONSTANTS vm, image

MCCandidates == <<image, vm>>
MCSince == [k \in {vm, image} |-> IF k = vm THEN 1 ELSE 2]
MCServes == {{}, {1}, {2}, {2, 3}}
MCRequesters ==
  {[kind |-> image, cycle |-> TRUE], [kind |-> vm, cycle |-> FALSE]}
===========================================================================

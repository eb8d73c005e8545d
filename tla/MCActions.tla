----------------------------- MODULE MCActions ----------------------------
(***************************************************************************)
(* A session with two rows, joined by a peer that holds one of the same    *)
(* extId, listed between them.                                             *)
(***************************************************************************)
EXTENDS Actions

CONSTANTS lab, dr, power, update

MCHeld == [s \in {lab, dr} |-> IF s = lab THEN 1..2 ELSE {1}]
MCOrder == <<[site |-> None, row |-> 1], [site |-> dr, row |-> 1], [site |-> None, row |-> 2]>>
===========================================================================

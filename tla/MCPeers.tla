------------------------------ MODULE MCPeers -----------------------------
(***************************************************************************)
(* Peers on three contexts, one of them without a stored password; the     *)
(* other two are interchangeable.                                          *)
(***************************************************************************)
EXTENDS Peers, TLC

CONSTANTS a, b, c

MCContexts == {a, b, c}
MCStored == {a, b}
MCSymmetry == Permutations(MCStored)
===========================================================================

------------------------------ MODULE MCCache -----------------------------
(***************************************************************************)
(* Two processes on one directory; they, the tables and the targets are    *)
(* interchangeable.                                                        *)
(***************************************************************************)
EXTENDS Cache, TLC

CONSTANTS p, q, vm, image, lab, dr

MCProcs == {p, q}
MCKinds == {vm, image}
MCTargets == {lab, dr}
MCSymmetry ==
  Permutations(MCProcs) \cup Permutations(MCKinds) \cup Permutations(MCTargets)
===========================================================================

----------------------------- MODULE MCPacing -----------------------------
(***************************************************************************)
(* Pacing on two tasks and two operations, a tick to the half window.      *)
(***************************************************************************)
EXTENDS Pacing

Tier(count, per_secs) == [count |-> count, per_secs |-> per_secs]
States(tier, budget, reset) == [tier |-> tier, budget |-> budget, reset |-> reset]

MCCatalog == [o \in Operations |-> IF o = "list" THEN Tier(2, 2) ELSE Tier(1, 2)]
MCStart == Tier(1, 2)
MCCeiling == Tier(2, 2)

\* Answers that state nothing, a tier over the ceiling, a budget of a shorter window nearly
\* spent, and one that is spent with a reset, or with a tight tier and none.
MCHeaders ==
  {States(NoTier, "none", NoHold), States(Tier(4, 2), "ample", NoHold),
   States(Tier(1, 1), "low", NoHold),
   States(NoTier, "spent", 9), States(Tier(1, 2), "spent", NoHold)}

\* Answers among which one states a tier of nothing, over a short period.
MCZeroHeaders ==
  {States(NoTier, "none", NoHold), States(Tier(0, 1), "none", NoHold)}
===========================================================================

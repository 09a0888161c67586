-------------------------------- MODULE Costs --------------------------------
(* What usage rows have cost together, in the units the budget is set in. *)
EXTENDS FiniteSetsExt

Total(rows) == MapThenSumSet(LAMBDA u : u.cost, rows)
=============================================================================

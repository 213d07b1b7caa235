-------------------------- MODULE MCDispatchFairness --------------------------
(* The lane scheduler with one lane of each weight.                        *)
EXTENDS DispatchFairness

CONSTANT MaxVirtual

(* Bound: virtual time of the dispatches explored.  MaxVirtual is several  *)
(* times the largest quantum, so every waiting pattern runs to its end.    *)
WithinBound == virtualTime <= MaxVirtual
=============================================================================

------------------------------ MODULE LinkCost ------------------------------
(* The costs that stand for broken links and unreachable nodes (src/src/lq_plugin.h). *)
EXTENDS Integers

CONSTANTS LinkBroken,    \* LINK_COST_BROKEN, 0x00ffffff
          RouteBroken    \* ROUTE_COST_BROKEN, 0xffffffff

ASSUME CostAssumption == LinkBroken \in Nat \ {0} /\ RouteBroken \in Nat /\ 2 * LinkBroken < RouteBroken
=============================================================================

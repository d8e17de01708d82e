------------------------------ MODULE MCRoutes ------------------------------
(***************************************************************************)
(* Instance of Routes for TLC.  Three ways to reach a node: a dear one     *)
(* whose discounted cost is just what the others cost, and two that cost   *)
(* the same but differ in length and next hop.  A behavior has routes to   *)
(* an ordinary network, or to the default route; the kernel refuses calls  *)
(* only for the first.                                                     *)
(***************************************************************************)
EXTENDS Routes

CONSTANTS h1, h2

VARIABLE announced

MCReaches == {[hop |-> h1, cost |-> 2147999, hops |-> 1],
              [hop |-> h2, cost |-> 1610250, hops |-> 1],
              [hop |-> h1, cost |-> 1610250, hops |-> 2]}

MCInit == Init /\ announced \in Nets
MCNext ==
  /\ Internal \/ \E n \in Nodes, nets \in SUBSET {announced} : olsr_input_hna(n, nets)
  /\ announced = Inet => errors' = errors
  /\ UNCHANGED announced
MCSpec == MCInit /\ [][MCNext]_<<vars, announced>>
MCFairSpec == MCSpec /\ Fairness
=============================================================================

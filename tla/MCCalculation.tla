--------------------------- MODULE MCCalculation ---------------------------
(* The two calculations of olsr_process_changes(), for TLC: the relays of every small
   neighborhood and the shortest paths of every small database.  A behavior is one of
   MprSelection or one of Spf. *)
EXTENDS MprSelection, Spf, TLC

VARIABLE calculation

MCInit ==
  \/ /\ calculation = "mpr" /\ Init
     /\ cost = [e \in Edges |-> LinkBroken] /\ linked = {}
     /\ path_cost = FreshCost /\ next_hop = FreshHop({}) /\ hops = [n \in Nodes |-> 0]
     /\ cand_tree = {Me} /\ path_list = {}
  \/ /\ calculation = "spf" /\ SpfInit
     /\ sym = {} /\ always = {} /\ con = [n \in Nbrs |-> [x \in TwoHops |-> None]]
     /\ direct = [x \in TwoHops |-> RouteBroken] /\ coverage = 1
     /\ is_mpr = {} /\ fresh = FALSE

MCNext ==
  \/ calculation = "mpr" /\ Next /\ UNCHANGED <<spfVars, calculation>>
  \/ calculation = "spf" /\ SpfNext /\ UNCHANGED <<vars, calculation>>

MCSpec == MCInit /\ [][MCNext]_<<vars, spfVars, calculation>>

MCSymmetry == Permutations(Neighbors) \cup Permutations(TwoHops)
=============================================================================

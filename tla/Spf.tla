-------------------------------- MODULE Spf --------------------------------
(***************************************************************************)
(* The shortest path calculation (src/src/olsr_spf.c) over the link state  *)
(* database.  cost is what olsr_spf_relax() reads of an edge: its own cost *)
(* or, for a virtual edge, that of its inverse; an edge that is not there  *)
(* is broken.  linked are the symmetric neighbors that have a link, and a  *)
(* next hop is the link to one of them.                                    *)
(*                                                                         *)
(* A step explores one candidate.  Between two calculations an edge breaks *)
(* or a neighbor is lost.                                                  *)
(***************************************************************************)
EXTENDS LinkCost, FiniteSetsExt

CONSTANTS Nodes,         \* the nodes of the database
          Me,            \* tc_myself
          EdgeCosts,     \* costs of usable edges
          NoLink         \* no next hop

ASSUME SpfAssumption ==
  /\ Me \in Nodes /\ NoLink \notin Nodes
  /\ EdgeCosts \subseteq 1 .. LinkBroken - 1
  /\ Cardinality(Nodes) * LinkBroken < RouteBroken      \* no path cost overflows

VARIABLES cost, linked,
          path_cost, next_hop, hops,
          cand_tree, path_list

spfVars == <<cost, linked, path_cost, next_hop, hops, cand_tree, path_list>>

\* No edge back to us is ever better than the path of length zero.
Edges == {e \in Nodes \X Nodes : e[1] # e[2] /\ e[2] # Me}
Neighbors == Nodes \ {Me}

-----------------------------------------------------------------------------
\* The vertices as olsr_calculate_routing_table() prepares them: symmetric neighbors
\* have their next hop before they are reached.
FreshCost == [n \in Nodes |-> IF n = Me THEN 0 ELSE RouteBroken]
FreshHop(ls) == [n \in Nodes |-> IF n \in ls THEN n ELSE NoLink]

SpfInit ==
  /\ cost \in [Edges -> EdgeCosts \cup {LinkBroken}]
  /\ linked \in SUBSET Neighbors
  /\ path_cost = FreshCost /\ next_hop = FreshHop(linked) /\ hops = [n \in Nodes |-> 0]
  /\ cand_tree = {Me} /\ path_list = {}

\* The next calculation: an edge broke, a neighbor was lost, or a prefix changed.
olsr_calculate_routing_table ==
  /\ cand_tree = {}
  /\ \/ /\ \E e \in Edges : cost[e] # LinkBroken /\ cost' = [cost EXCEPT ![e] = LinkBroken]
        /\ UNCHANGED linked
     \/ \E n \in linked : linked' = linked \ {n} /\ UNCHANGED cost
     \/ UNCHANGED <<cost, linked>>
  /\ path_cost' = FreshCost /\ hops' = [n \in Nodes |-> 0]
  /\ next_hop' = FreshHop(linked')
  /\ cand_tree' = {Me} /\ path_list' = {}

\* Mutant: the candidates are not sorted.
olsr_spf_extract_best_any == cand_tree

\* Any of the candidates with the lowest cost.
olsr_spf_extract_best == {n \in cand_tree : \A m \in cand_tree : path_cost[n] <= path_cost[m]}

\* Mutant: an edge is broken only above LINK_COST_BROKEN.
Better_broken(tc) ==
  {n \in Nodes : /\ <<tc, n>> \in Edges
                 /\ cost[<<tc, n>>] <= LinkBroken
                 /\ path_cost[tc] + cost[<<tc, n>>] < path_cost[n]}

\* The nodes that tc offers a better path to.
Better(tc) ==
  {n \in Nodes : /\ <<tc, n>> \in Edges
                 /\ cost[<<tc, n>>] < LinkBroken
                 /\ path_cost[tc] + cost[<<tc, n>>] < path_cost[n]}

\* Mutant: the next hop is not passed on to nodes that have one.
olsr_spf_relax_first(tc, better) ==
  /\ path_cost' = [n \in Nodes |-> IF n \in better THEN path_cost[tc] + cost[<<tc, n>>] ELSE path_cost[n]]
  /\ next_hop' = [n \in Nodes |-> IF n \in better /\ next_hop[n] = NoLink THEN next_hop[tc] ELSE next_hop[n]]
  /\ hops' = [n \in Nodes |-> IF n \in better THEN hops[tc] + 1 ELSE hops[n]]

\* Our own entry has no next hop to pass on: neighbors keep the one they have.
olsr_spf_relax(tc, better) ==
  /\ path_cost' = [n \in Nodes |-> IF n \in better THEN path_cost[tc] + cost[<<tc, n>>] ELSE path_cost[n]]
  /\ next_hop' = [n \in Nodes |-> IF n \in better /\ next_hop[tc] # NoLink THEN next_hop[tc] ELSE next_hop[n]]
  /\ hops' = [n \in Nodes |-> IF n \in better THEN hops[tc] + 1 ELSE hops[n]]

\* One pass of the loop.
olsr_spf_run_full ==
  \E tc \in olsr_spf_extract_best :
    LET better == Better(tc)
    IN  /\ olsr_spf_relax(tc, better)
        /\ cand_tree' = (cand_tree \cup better) \ {tc}
        /\ path_list' = (path_list \ better) \cup {tc}
        /\ UNCHANGED <<cost, linked>>

SpfNext == olsr_spf_run_full \/ olsr_calculate_routing_table

SpfSpec == SpfInit /\ [][SpfNext]_spfVars
-----------------------------------------------------------------------------
Finished == cand_tree = {}

\* The edges over which a node can be reached at a finite cost, and the cheapest of them.
Ways(n) == {m \in Nodes \ {n} : path_cost[m] < RouteBroken /\ cost[<<m, n>>] < LinkBroken}
Tight(n) == {m \in Ways(n) : path_cost[m] + cost[<<m, n>>] = path_cost[n]}

(* When the candidates are used up, the path list holds exactly the nodes that can be
   reached, and the path costs solve the equations of shortest paths, which have one
   solution as edges cost more than nothing: zero for ourselves, and for every other
   node the least sum of an edge to it and the cost of where the edge starts. *)
ShortestPaths ==
  Finished =>
    /\ path_cost[Me] = 0
    /\ \A n \in Neighbors :
         path_cost[n] = Min({RouteBroken} \cup {path_cost[m] + cost[<<m, n>>] : m \in Ways(n)})
    /\ path_list = {n \in Nodes : path_cost[n] < RouteBroken}

(* When every usable edge of ours leads to a neighbor with a link, every node in the
   path list has a next hop, and a cheapest path to the node begins with it: packets
   follow the path whose cost was compared, although neighbors are given a next hop
   before it is known whether the direct link is the best way to them. *)
NextHopOnPath ==
  Finished /\ (\A n \in Neighbors : cost[<<Me, n>>] < LinkBroken => n \in linked) =>
    \A n \in path_list \ {Me} :
      /\ next_hop[n] \in linked
      /\ \E m \in Tight(n) : next_hop[n] = IF m = Me THEN n ELSE next_hop[m]

(* A node in the path list is settled: no later step of the calculation finds a better
   path to it, so it is explored once. *)
Settled ==
  [][cand_tree # {} => path_list \subseteq path_list'
                        /\ \A n \in path_list : path_cost'[n] = path_cost[n]]_spfVars
=============================================================================

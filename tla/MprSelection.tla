---------------------------- MODULE MprSelection ----------------------------
(***************************************************************************)
(* The selection of multipoint relays (src/src/lq_mpr.c).  The state is a  *)
(* neighborhood as the neighbor tables hold it and the MPR flags; one step *)
(* changes the neighborhood, the other is olsr_calculate_lq_mpr(); a copy  *)
(* of the flags in the link set, which is only printed, is left out.       *)
(* Neighbors are numbered in the order of their addresses, the order of    *)
(* the trees the code walks.                                               *)
(***************************************************************************)
EXTENDS LinkCost, FiniteSets, FiniteSetsExt

CONSTANTS Nbrs,                \* one-hop neighbors
          TwoHops,             \* two-hop neighbors
          Costs,               \* costs of usable two-hop paths
          DirectCosts,         \* costs of the best link to a node that is also a neighbor
          Coverages,           \* values of mpr_coverage
          None

ASSUME MprAssumption ==
  /\ Nbrs \subseteq Nat /\ Coverages \subseteq Nat
  /\ Costs \subseteq 1 .. LinkBroken - 1 /\ DirectCosts \subseteq 1 .. LinkBroken - 1

VARIABLES sym,          \* neighbors with is_sym
          always,       \* neighbors with willingness WILL_ALWAYS
          con,          \* the connector from a neighbor to a two-hop neighbor
          direct,       \* best_1hop; None for a symmetric neighbor that has no link
          coverage, is_mpr,
          fresh         \* is_mpr was calculated for the neighborhood as it is

hood == <<sym, always, con, direct, coverage>>
vars == <<hood, is_mpr, fresh>>

\* A connector as olsr_link_nbr_nbr2() makes it, and as HELLOs fill it in: the cost of
\* the second hop is that of the HELLO, the cost of the path adds the first one.
Connector == {[second |-> 0, path |-> LinkBroken], [second |-> LinkBroken, path |-> LinkBroken + 1]}
               \cup [second : {1}, path : Costs]

Init ==
  /\ sym \in SUBSET Nbrs /\ always \in SUBSET Nbrs
  /\ con \in [Nbrs -> [TwoHops -> Connector \cup {None}]]
  /\ direct \in [TwoHops -> DirectCosts \cup {RouteBroken, None}]
  /\ coverage \in Coverages
  /\ is_mpr = {} /\ fresh = FALSE
-----------------------------------------------------------------------------
\* The first pass marks every symmetric neighbor that is not WILL_ALWAYS.
FirstPass == {n \in sym : n \notin always}

\* The neighbors that offer a path to x cheaper than the direct link.
Candidates(x) == {n \in sym : /\ direct[x] # None /\ con[n][x] # None
                              /\ con[n][x].second < LinkBroken
                              /\ con[n][x].path < direct[x]}

\* Mutant: the last of the cheapest, whatever its cost.
Cheapest_any(x, ns) == Max(ns)

\* The first of the cheapest, in the order of the tree.
Cheapest(x, ns) ==
  Min({n \in ns : \A m \in ns : con[n][x].path <= con[m][x].path})

\* Mutant: one round too few.
Selected_short(x) ==
  LET select[k \in 0 .. coverage] ==
        IF k <= 1 THEN {}
        ELSE LET left == Candidates(x) \ select[k - 1]
             IN  IF left = {} THEN select[k - 1] ELSE select[k - 1] \cup {Cheapest(x, left)}
  IN  select[coverage]

\* What k rounds of the inner loop select for x; skip is what was selected before.
Selected(x) ==
  LET select[k \in 0 .. coverage] ==
        IF k = 0 THEN {}
        ELSE LET left == Candidates(x) \ select[k - 1]
             IN  IF left = {} THEN select[k - 1] ELSE select[k - 1] \cup {Cheapest(x, left)}
  IN  select[coverage]

\* found_better_path: a connector that is better, usable or not.
FoundBetterPath(x) ==
  direct[x] # None /\ \E n \in Nbrs : con[n][x] # None /\ con[n][x].path < direct[x]

olsr_calculate_lq_mpr2 ==
  FirstPass \cup UNION {Selected(x) : x \in {y \in TwoHops : FoundBetterPath(y)}}

olsr_calculate_lq_mpr ==
  /\ ~fresh /\ fresh' = TRUE
  /\ is_mpr' = olsr_calculate_lq_mpr2
  /\ UNCHANGED hood

\* A HELLO or a timer changes one neighbor: its symmetry, or a connector it has.
NeighborChanges ==
  /\ fresh /\ fresh' = FALSE
  /\ \/ /\ \E n \in Nbrs : sym' = IF n \in sym THEN sym \ {n} ELSE sym \cup {n}
        /\ UNCHANGED con
     \/ /\ \E n \in Nbrs, x \in TwoHops : con[n][x] # None /\ con' = [con EXCEPT ![n][x] = None]
        /\ UNCHANGED sym
  /\ UNCHANGED <<always, direct, coverage, is_mpr>>

Next == olsr_calculate_lq_mpr \/ NeighborChanges
Spec == Init /\ [][Next]_vars
-----------------------------------------------------------------------------
(* Every two-hop neighbor that is reached better through others than directly is
   covered by as many MPRs as mpr_coverage asks for, or by all there are. *)
Covered ==
  fresh => \A x \in TwoHops :
             LET c == Cardinality(Candidates(x))
             IN  Cardinality(is_mpr \cap Candidates(x)) >= (IF c < coverage THEN c ELSE coverage)

(* The cheapest way to a two-hop neighbor is among the MPRs: flooding reaches it over
   the path the routing table will prefer. *)
BestPathCovered ==
  fresh /\ coverage > 0 =>
    \A x \in TwoHops : Candidates(x) # {} =>
      \E n \in is_mpr \cap Candidates(x) :
        \A m \in Candidates(x) : con[n][x].path <= con[m][x].path

(* "In this pass we are only interested in WILL_ALWAYS neighbors": a symmetric neighbor
   that always wants to be an MPR is one. *)
AlwaysIsMpr == fresh => sym \cap always \subseteq is_mpr
=============================================================================

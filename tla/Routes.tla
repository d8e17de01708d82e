------------------------------- MODULE Routes -------------------------------
(***************************************************************************)
(* From the results of the SPF calculation to the routes of the kernel     *)
(* (src/src/olsr.c, olsr_spf.c, routing_table.c, process_routes.c,         *)
(* hna_set.c, linux/kernel_routes.c).  Nodes announce networks (HNA); a    *)
(* path (rt_path) is a network as announced by one node, an rt_entry holds *)
(* the paths to a network whose nodes can be reached, the best of them and *)
(* what was put into the kernel.  Paths and routes hold a reference on the *)
(* interface of their next hop, one interface per next hop here.           *)
(*                                                                         *)
(* reach is what Spf calculates for a node: next hop, cost and hop count.  *)
(* The kernel may refuse any call.  FIB metrics are flat.  missed and      *)
(* errors are history variables.                                           *)
(***************************************************************************)
EXTENDS Integers, FiniteSets

CONSTANTS NodeCount,      \* nodes are numbered in the order of their addresses
          Nets,           \* announced networks
          Inet,           \* the one of them with prefix length zero, or None
          Hops,           \* links to neighbors
          Reaches,        \* what SPF can calculate for a node
          LqNatThresh,    \* lq_nat_thresh, in thousandths
          MaxFailureCount,
          MaxErrors,      \* kernel errors for one network (a bound of the model)
          None

Nodes == 1 .. NodeCount
Reach == [hop : Hops, cost : Nat, hops : Nat]

ASSUME RoutesAssumption ==
  /\ NodeCount \in Nat /\ Inet \in Nets \cup {None} /\ None \notin Nets \cup Hops \cup Nodes
  /\ Reaches \subseteq Reach /\ None \notin Reaches
  /\ LqNatThresh \in 100 .. 1000 /\ MaxFailureCount \in Nat \ {0} /\ MaxErrors \in Nat

VARIABLES reach, hna,          \* hna_tree: the networks each node announces
          path, rt,            \* the prefix trees of all nodes, and routingtree
          current_inetgw, refcount,
          fib,                 \* the kernel's routes
          spf_backoff_timer, changes, running,
          missed,              \* changes were dropped since the last calculation
          errors               \* kernel errors for each network so far

db == <<reach, hna>>
rib == <<path, rt, current_inetgw, refcount>>
vars == <<db, rib, fib, spf_backoff_timer, changes, running, missed, errors>>

Int32Max == 2147483647

Paths == Nodes \X Nets
RtPath == [rtp_rt : BOOLEAN, hop : Hops \cup {None}, cost : Nat, hops : Nat]
RtEntry == [rt_best : Nodes \cup {None}, hop : Hops \cup {None}, failure_count : Int]

FreshPath == [rtp_rt |-> FALSE, hop |-> None, cost |-> 0, hops |-> 0]
FreshEntry == [rt_best |-> None, hop |-> None, failure_count |-> 0]

Tree(p, d) == {n \in Nodes : p[<<n, d>>] # None /\ p[<<n, d>>].rtp_rt}

\* The paths in es that use the interface of next hop h.
Via(es, h) == {e \in es : path[e] # None /\ path[e].hop = h}
-----------------------------------------------------------------------------
\* Mutant: no discount.
Etx_plain(p, gw, n, d) == p[<<n, d>>].cost

\* The path of the gateway in use counts for less than it costs.  A large cost is divided
\* first, so that the product fits into 32 bits.
Etx(p, gw, n, d) ==
  LET cost == p[<<n, d>>].cost
  IN  CASE d # Inet \/ gw # n -> cost
        [] cost < Int32Max \div 1000 -> (cost * LqNatThresh) \div 1000
        [] OTHER -> (cost \div 1000) * LqNatThresh

\* The last tie breaker answers that any two addresses differ.
olsr_cmp_rtp(p, gw, n, m, d) ==
  IF m = None THEN TRUE
  ELSE LET etx1 == Etx(p, gw, n, d)
           etx2 == Etx(p, gw, m, d)
           hops1 == p[<<n, d>>].hops
           hops2 == p[<<m, d>>].hops
       IN  \/ etx1 < etx2
           \/ etx1 = etx2 /\ hops1 < hops2
           \/ etx1 = etx2 /\ hops1 = hops2 /\ n # m

\* The election goes through the tree in the order of addresses, from the best so far.
olsr_rt_best(p, gw, d, tree, best) ==
  LET elect[n \in 0 .. NodeCount] ==
        IF n = 0 THEN best
        ELSE IF n \in tree /\ olsr_cmp_rtp(p, gw, n, elect[n - 1], d) THEN n ELSE elect[n - 1]
  IN  elect[NodeCount]
-----------------------------------------------------------------------------
\* A call for an rt_entry and the kernel's route: what both are afterwards, and the hop
\* whose interface was locked or unlocked.
Nothing(r, k) == [rt |-> r, fib |-> k, locked |-> None, unlocked |-> None, errors |-> 0]
Refused(r, k) == [Nothing(r, k) EXCEPT !.errors = 1]

\* os_route_del_rtentry(): to delete a route that is not there is a success.
olsr_del_route(r, k, error) ==
  IF r.hop = None THEN Nothing(r, k)
  ELSE IF error
       THEN Refused([r EXCEPT !.failure_count =
                       IF @ > 0 \/ @ - 1 <= -MaxFailureCount THEN 0 ELSE @ - 1], k)
       ELSE [Nothing([r EXCEPT !.failure_count = 0], IF k = r.hop THEN None ELSE k)
               EXCEPT !.unlocked = r.hop]

\* os_route_add_rtentry(): the new route replaces one that is there.
olsr_add_route(r, k, hop, error) ==
  IF error
  THEN Refused([r EXCEPT !.failure_count = IF @ + 1 >= MaxFailureCount THEN 0 ELSE @ + 1], k)
  ELSE [Nothing([r EXCEPT !.hop = hop, !.failure_count = 0], hop) EXCEPT !.locked = hop]

\* olsr_chg_kernel_routes() for one rt_entry.
olsr_chg_kernel_route(r, k, hop, delError, addError) ==
  LET del == olsr_del_route(r, k, delError)
      add == olsr_add_route(del.rt, del.fib, hop, addError)
  IN  [add EXCEPT !.unlocked = del.unlocked, !.errors = @ + del.errors]

\* An rt_entry with an empty tree goes, unless its route cannot be deleted.
FlushRouteHead(r, k, delError) ==
  LET del == olsr_del_route([r EXCEPT !.rt_best = None], k, delError)
  IN  [del EXCEPT !.rt = IF r.hop = None \/ @.failure_count = 0 THEN None ELSE @]

\* Mutant: a route is changed only when the hop it had is none.
UpdateRoute_fresh(p, gw, r, k, d, delError, addError) ==
  LET best == olsr_rt_best(p, gw, d, Tree(p, d), None)
      new == [r EXCEPT !.rt_best = best]
      hop == p[<<best, d>>].hop
  IN  IF r.hop # None THEN Nothing(new, k) ELSE olsr_chg_kernel_route(new, k, hop, delError, addError)

\* Elect the best path; put it into the kernel when its next hop is new.
UpdateRoute(p, gw, r, k, d, delError, addError) ==
  LET best == olsr_rt_best(p, gw, d, Tree(p, d), None)
      new == [r EXCEPT !.rt_best = best]
      hop == p[<<best, d>>].hop
  IN  IF r.hop = hop THEN Nothing(new, k) ELSE olsr_chg_kernel_route(new, k, hop, delError, addError)

\* olsr_update_rib_routes() and olsr_update_kernel_routes() for one network: p are the
\* paths without the outdated ones.
Update(p, gw, r, k, d, delError, addError) ==
  IF r = None THEN Nothing(r, k)
  ELSE IF Tree(p, d) = {} THEN FlushRouteHead(r, k, delError)
  ELSE UpdateRoute(p, gw, r, k, d, delError, addError)

\* The kernel refuses to delete the routes to ds and to add those to as.
UpdateRoutes(p, entries, locks, ds, as) ==
  \E new \in {[d \in Nets |-> Update(p, current_inetgw, entries[d], fib[d], d, d \in ds, d \in as)]} :
      /\ path' = p
      /\ rt' = [d \in Nets |-> new[d].rt]
      /\ fib' = [d \in Nets |-> new[d].fib]
      /\ refcount' = [h \in Hops |-> locks[h] + Cardinality({d \in Nets : new[d].locked = h})
                                             - Cardinality({d \in Nets : new[d].unlocked = h})]
      /\ current_inetgw' = IF Inet # None /\ Tree(p, Inet) # {}
                           THEN olsr_rt_best(p, current_inetgw, Inet, Tree(p, Inet), None)
                           ELSE current_inetgw
      /\ errors' = [d \in Nets |-> errors[d] + new[d].errors]
      /\ \A d \in Nets : errors'[d] <= MaxErrors

\* The paths of the nodes in the path list, which olsr_insert_rt_path() and
\* olsr_update_rt_path() give the new version; the others are outdated.
Refreshed ==
  [e \in Paths |-> IF path[e] = None THEN None
                   ELSE IF reach[e[1]] = None THEN [path[e] EXCEPT !.rtp_rt = FALSE]
                   ELSE [rtp_rt |-> TRUE, hop |-> reach[e[1]].hop,
                         cost |-> reach[e[1]].cost, hops |-> reach[e[1]].hops]]

\* Mutant: the interface of the old next hop stays locked.
Relocked_kept ==
  LET moved == {e \in Paths : path[e] # None /\ reach[e[1]] # None /\ path[e].hop # reach[e[1]].hop}
  IN  [h \in Hops |-> refcount[h] + Cardinality({e \in moved : reach[e[1]].hop = h})]

\* The lock_interface() and unlock_interface() calls of olsr_update_rt_path(): only a path
\* whose next hop changes makes them.
Relocked ==
  LET moved == {e \in Paths : path[e] # None /\ reach[e[1]] # None /\ path[e].hop # reach[e[1]].hop}
  IN  [h \in Hops |-> refcount[h] - Cardinality(Via(moved, h))
                                  + Cardinality({e \in moved : reach[e[1]].hop = h})]

\* olsr_calculate_routing_table() past its backoff timer.
Calculate(ds, as) ==
  \E p \in {Refreshed} :
  \E entries \in {[d \in Nets |-> IF rt[d] = None /\ Tree(p, d) # {} THEN FreshEntry ELSE rt[d]]} :
      /\ UpdateRoutes(p, entries, Relocked, ds, as)
      /\ spf_backoff_timer' = TRUE
      /\ missed' = FALSE
-----------------------------------------------------------------------------
Init ==
  /\ reach = [n \in Nodes |-> None] /\ hna = [n \in Nodes |-> {}]
  /\ path = [e \in Paths |-> None] /\ rt = [d \in Nets |-> None]
  /\ current_inetgw = None /\ refcount = [h \in Hops |-> 0] /\ fib = [d \in Nets |-> None]
  /\ spf_backoff_timer = FALSE /\ changes = FALSE /\ running = TRUE
  /\ missed = FALSE
  /\ errors = [d \in Nets |-> 0]

\* The flags are cleared, also when the backoff timer keeps the calculation from running.
olsr_process_changes(ds, as) ==
  /\ running /\ changes
  /\ changes' = FALSE
  /\ \/ /\ spf_backoff_timer /\ ds = {} /\ as = {}
        /\ missed' = TRUE
        /\ UNCHANGED <<rib, fib, spf_backoff_timer, errors>>
     \/ ~spf_backoff_timer /\ Calculate(ds, as)
  /\ UNCHANGED <<db, running>>

\* A plugin calls olsr_calculate_routing_table(true).
ForcedCalculation(ds, as) ==
  /\ running /\ Calculate(ds, as)
  /\ UNCHANGED <<db, changes, running>>

\* Mutant: the pointer to the timer is not cleared.
olsr_expire_spf_backoff_kept ==
  /\ running /\ spf_backoff_timer
  /\ UNCHANGED vars

olsr_expire_spf_backoff ==
  /\ running /\ spf_backoff_timer
  /\ spf_backoff_timer' = FALSE
  /\ UNCHANGED <<db, rib, fib, changes, running, missed, errors>>

\* Nodes, edges or costs change; changes_topology is set.
TopologyChanges(n, r) ==
  /\ running /\ reach[n] # r
  /\ reach' = [reach EXCEPT ![n] = r]
  /\ changes' = TRUE
  /\ UNCHANGED <<hna, rib, fib, spf_backoff_timer, running, missed, errors>>

\* rt_best when the path of n is deleted: the election starts from the deleted path.
BestAfter(n, d) ==
  IF rt[d].rt_best # n THEN rt[d].rt_best
  ELSE IF Tree(path, d) = {n} THEN None
  ELSE olsr_rt_best(path, current_inetgw, d, Tree(path, d) \ {n}, n)

\* current_inetgw when the path of n to the default route is deleted.
GatewayAfter(n) ==
  LET elected == n \in Tree(path, Inet) /\ rt[Inet].rt_best = n /\ Tree(path, Inet) # {n}
      gw == IF elected THEN BestAfter(n, Inet) ELSE current_inetgw
  IN  IF gw = n THEN None ELSE gw

\* olsr_delete_rt_path() for those of the paths p that lead to ds by n.
olsr_delete_rt_path(p, n, ds) ==
  /\ path' = [e \in Paths |-> IF e \in {n} \X ds THEN None ELSE p[e]]
  /\ rt' = [d \in Nets |-> IF d \in ds /\ n \in Tree(path, d)
                           THEN [rt[d] EXCEPT !.rt_best = BestAfter(n, d)] ELSE rt[d]]
  /\ current_inetgw' = IF Inet \in ds THEN GatewayAfter(n) ELSE current_inetgw
  /\ refcount' = [h \in Hops |-> refcount[h] - Cardinality(Via({n} \X ds, h))]

\* An HNA message that is not too old: the networks in it are added, the others pruned.
olsr_input_hna(n, nets) ==
  /\ running /\ nets # hna[n]
  /\ hna' = [hna EXCEPT ![n] = nets]
  /\ olsr_delete_rt_path([e \in Paths |-> IF e \in {n} \X (nets \ hna[n]) THEN FreshPath ELSE path[e]],
                         n, hna[n] \ nets)
  /\ changes' = TRUE
  /\ UNCHANGED <<reach, fib, spf_backoff_timer, running, missed, errors>>

\* Mutant: the change is not signalled.
olsr_expire_hna_net_entry_silent(n, d) ==
  /\ running /\ d \in hna[n]
  /\ hna' = [hna EXCEPT ![n] = @ \ {d}]
  /\ olsr_delete_rt_path(path, n, {d})
  /\ UNCHANGED <<reach, fib, spf_backoff_timer, changes, running, missed, errors>>

olsr_expire_hna_net_entry(n, d) ==
  /\ running /\ d \in hna[n]
  /\ hna' = [hna EXCEPT ![n] = @ \ {d}]
  /\ olsr_delete_rt_path(path, n, {d})
  /\ changes' = TRUE
  /\ UNCHANGED <<reach, fib, spf_backoff_timer, running, missed, errors>>

\* A node that no edge is left of goes, with its paths and networks.
olsr_expire_tc_entry(n) ==
  /\ running /\ (reach[n] # None \/ hna[n] # {})
  /\ reach' = [reach EXCEPT ![n] = None]
  /\ hna' = [hna EXCEPT ![n] = {}]
  /\ olsr_delete_rt_path(path, n, Nets)
  /\ changes' = TRUE
  /\ UNCHANGED <<fib, spf_backoff_timer, running, missed, errors>>

\* olsr_shutdown(): the version of the tree is bumped, so that every path is outdated.
olsr_delete_all_kernel_routes(ds) ==
  /\ running
  /\ UpdateRoutes([e \in Paths |-> IF path[e] = None THEN None ELSE [path[e] EXCEPT !.rtp_rt = FALSE]],
                  rt, refcount, ds, {})
  /\ running' = FALSE
  /\ UNCHANGED <<db, spf_backoff_timer, changes, missed>>

\* The networks the kernel can be asked about.
Known == {d \in Nets : rt[d] # None \/ \E n \in Nodes : path[<<n, d>>] # None}

\* Everything but the HNA messages.
Internal ==
  \/ \E ds, as \in SUBSET Known : olsr_process_changes(ds, as) \/ ForcedCalculation(ds, as)
  \/ olsr_expire_spf_backoff
  \/ \E n \in Nodes :
       \/ \E r \in Reaches \cup {None} : TopologyChanges(n, r)
       \/ \E d \in Nets : olsr_expire_hna_net_entry(n, d)
       \/ olsr_expire_tc_entry(n)
  \/ \E ds \in SUBSET Known : olsr_delete_all_kernel_routes(ds)

Next == Internal \/ \E n \in Nodes, nets \in SUBSET Nets : olsr_input_hna(n, nets)

\* The main loop calls olsr_process_changes() in every round, and no other step clears the
\* flags; the timer wheel calls back every timer that is set.
Fairness ==
  /\ WF_changes(running /\ changes /\ changes' = FALSE)
  /\ WF_vars(olsr_expire_spf_backoff)

Spec == Init /\ [][Next]_vars
-----------------------------------------------------------------------------
\* Types; the failure count stays inside its limits.
TypeOK ==
  /\ reach \in [Nodes -> Reaches \cup {None}] /\ hna \in [Nodes -> SUBSET Nets]
  /\ \A e \in Paths : path[e] # None => path[e] \in RtPath
  /\ \A d \in Nets : rt[d] # None => /\ rt[d] \in RtEntry
                                    /\ rt[d].failure_count > -MaxFailureCount
                                    /\ rt[d].failure_count < MaxFailureCount
  /\ current_inetgw \in Nodes \cup {None} /\ refcount \in [Hops -> Int]
  /\ fib \in [Nets -> Hops \cup {None}]
  /\ errors \in [Nets -> 0 .. MaxErrors]
  /\ {spf_backoff_timer, changes, running, missed} \subseteq BOOLEAN

\* lq_nat_thresh thousandths of a cost.
Discounted(cost) ==
  (cost \div 1000) * LqNatThresh + ((cost % 1000) * LqNatThresh) \div 1000

\* What the discount of a large cost loses by the early division.
Rounding(cost) == IF cost < Int32Max \div 1000 THEN 0 ELSE 999

\* When no change is flagged, and none was dropped because the backoff timer ran, an
\* rt_entry holds the paths of exactly the nodes that announce the network and can be
\* reached, with what they cost now; its best path is one of them, and none of the others
\* costs less or as much with fewer hops; to the default route a path may be kept that is
\* the best only at its discount.  So no step that changes nodes, costs or networks forgets
\* its flag.
BestRoutes ==
  running /\ ~changes /\ ~missed =>
    \A d \in Nets :
      /\ Tree(path, d) = {n \in Nodes : d \in hna[n] /\ reach[n] # None}
      /\ Tree(path, d) # {} =>
           LET b == rt[d].rt_best
           IN  /\ b \in Tree(path, d)
               /\ \A n \in Tree(path, d) :
                    IF d = Inet
                    THEN Discounted(reach[b].cost) <= reach[n].cost + Rounding(reach[b].cost)
                    ELSE \/ reach[b].cost < reach[n].cost
                         \/ reach[b].cost = reach[n].cost /\ reach[b].hops <= reach[n].hops

\* While the kernel refuses nothing for a network, it holds the next hop the rt_entry says
\* it holds; when no change is flagged and none was dropped that is the one of the best
\* path, and after the shutdown there is none.
FibFollows ==
  \A d \in Nets :
    errors[d] = 0 =>
      /\ fib[d] = IF rt[d] = None THEN None ELSE rt[d].hop
      /\ running /\ ~changes /\ ~missed /\ Tree(path, d) # {} => fib[d] = reach[rt[d].rt_best].hop
      /\ ~running => fib[d] = None

\* While the kernel refuses nothing, an interface is locked once for every path and once for
\* every route in the kernel that uses it: it is neither freed under them nor kept for ever.
LocksExact ==
  (\A d \in Nets : errors[d] = 0) =>
    \A h \in Hops :
      refcount[h] = Cardinality(Via(Paths, h)) + Cardinality({d \in Nets : rt[d] # None /\ rt[d].hop = h})

\* The gateway in use is left, although its node still offers the default route, only for
\* one that is no more expensive than the discounted cost of the old one.
GatewaySticks ==
  [][ LET old == current_inetgw
          new == current_inetgw'
      IN  old # None /\ new # old /\ old \in Tree(path', Inet) =>
            path'[<<new, Inet>>].cost <= Discounted(path'[<<old, Inet>>].cost) ]_vars

\* Changes that were dropped while the backoff timer ran are not lost for good: as long as
\* changes keep coming, a calculation that sees them all comes too.
RoutesCatchUp == []<>(running /\ changes) => []<>~missed

\* "Every prefix in our RIB needs a route entry that contains the nexthop of the best path
\* as installed in the kernel FIB": after a calculation in which the kernel refused
\* nothing for a network, the kernel has the next hop of its best path.
FibAgrees ==
  [][ ~spf_backoff_timer /\ spf_backoff_timer' =>
        \A d \in Nets : Tree(path', d) # {} /\ errors'[d] = errors[d] =>
                        fib'[d] = path'[<<rt'[d].rt_best, d>>].hop ]_vars
=============================================================================

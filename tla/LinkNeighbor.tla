---------------------------- MODULE LinkNeighbor ----------------------------
(***************************************************************************)
(* Link sensing and the neighborhood: the link set (src/src/link_set.c),   *)
(* the one-hop and two-hop neighbor tables (neighbor_table.c) and what a   *)
(* HELLO does to them (process_package.c).                                 *)
(*                                                                         *)
(* A link is identified by the remote interface it leads to, on the local  *)
(* interface Local[r]; Main[r] is the originator of its HELLOs.  Timers    *)
(* fire in any order.  A link cost is usable (below LINK_COST_BROKEN) or   *)
(* not.  unseen is a history variable: a neighbor changed since the last   *)
(* MPR calculation.                                                        *)
(***************************************************************************)
EXTENDS Integers, FiniteSets

CONSTANTS Ifaces,        \* local interfaces
          Remotes,       \* interfaces of neighbors
          Nodes,         \* main addresses of neighbors
          Others,        \* addresses that neighbors list in their HELLOs
          Local, Main,   \* of each remote interface
          Statuses,      \* what HELLOs say of our interface (a bound of the model)
          Wills,         \* the willingness they carry (a bound of the model)
          None

ASSUME NeighborAssumption ==
  /\ Local \in [Remotes -> Ifaces] /\ Main \in [Remotes -> Nodes]
  /\ Statuses \subseteq {"UNSPEC", "ASYM", "SYM", "LOST"}
  /\ Wills \subseteq {"WILL_NEVER", "WILL_DEFAULT"}
  /\ None \notin Nodes \cup Others

VARIABLES link,                  \* link_entry_head
          nbr,                   \* nbr_tree
          nbr2,                  \* the addresses in nbr2_tree
          con,                   \* the connectors <<neighbor, two-hop neighbor>>
          changes_neighborhood,
          unseen

vars == <<link, nbr, nbr2, con, changes_neighborhood, unseen>>

LinkStatus == {"UNSPEC", "ASYM", "SYM", "LOST"}
Will == {"WILL_NEVER", "WILL_DEFAULT"}

LinkEntry == [status : LinkStatus,
              link_sym_timer : BOOLEAN,    \* is running
              usable : BOOLEAN,            \* linkcost < LINK_COST_BROKEN
              is_mprs : BOOLEAN]
NbrEntry == [is_sym : BOOLEAN, willingness : Will, linkcount : 0 .. Cardinality(Remotes),
             mprs_count : 0 .. Cardinality(Remotes),
             edge_usable : BOOLEAN]        \* cost of the edge from tc_myself

\* A HELLO: its sender's interface and what it says of ours, the sender's willingness
\* and the symmetric neighbors it lists.
Hello == {h \in [from : Remotes, status : Statuses, mpr : BOOLEAN, will : Wills,
                 neigh : SUBSET Others] :
            (h.mpr => h.status = "SYM") /\ Main[h.from] \notin h.neigh}

\* The state the functions below work on, one after the other.
State == [link |-> link, nbr |-> nbr, nbr2 |-> nbr2, con |-> con,
          changed |-> changes_neighborhood]

\* What the MPR calculation looks at, and which of it is not as it was.
Neighbors(s) == [n \in Nodes |-> IF s.nbr[n] = None THEN None
                                 ELSE <<s.nbr[n].is_sym, s.nbr[n].willingness>>]
Differs(s) == Neighbors(s) # Neighbors(State)

Become(s) ==
  /\ link' = s.link /\ nbr' = s.nbr /\ nbr2' = s.nbr2
  /\ con' = s.con
  /\ changes_neighborhood' = s.changed

Init ==
  /\ link = [r \in Remotes |-> None]
  /\ nbr = [n \in Nodes |-> None]
  /\ nbr2 = {} /\ con = {}
  /\ changes_neighborhood = FALSE
  /\ unseen = FALSE
-----------------------------------------------------------------------------
\* lookup_link_status(link) = SYM_LINK
IsSym(s, r) == s.link[r] # None /\ s.link[r].link_sym_timer

\* The links get_best_link_to_neighbor() chooses from.
BestLinks(s, n) == {r \in Remotes : Main[r] = n /\ IsSym(s, r) /\ s.link[r].usable}

Changed(s) == [s EXCEPT !.changed = TRUE]

\* olsr_delete_nbr2_entry(), with its connectors.
olsr_delete_nbr2_entry(s, a) ==
  Changed([s EXCEPT !.nbr2 = @ \ {a}, !.con = {c \in @ : c[2] # a}])

\* Mutant: a two-hop neighbor goes with any of its connectors.
olsr_delete_nbr_con_any(s, cs) ==
  LET gone == {c[2] : c \in cs}
  IN  [s EXCEPT !.con = {c \in @ \ cs : c[2] \notin gone}, !.nbr2 = @ \ gone,
                !.changed = @ \/ gone # {}]

\* olsr_delete_nbr_con() for every connector in cs: a two-hop neighbor goes with its last.
olsr_delete_nbr_con(s, cs) ==
  LET left == s.con \ cs
      gone == {a \in s.nbr2 : \E c \in cs : c[2] = a /\ \A d \in left : d[2] # a}
  IN  [s EXCEPT !.con = left, !.nbr2 = @ \ gone, !.changed = @ \/ gone # {}]

olsr_delete_nbr_entry(s, n) ==
  LET t == olsr_delete_nbr_con(s, {c \in s.con : c[1] = n})
  IN  Changed([t EXCEPT !.nbr[n] = None])

\* Mutant: nobody is told that a neighbor is not symmetric any more.
olsr_update_nbr_status_silent(s, n) ==
  LET e == s.nbr[n]
      sym == BestLinks(s, n) # {}
      t == IF sym /\ ~e.is_sym /\ n \in s.nbr2 THEN olsr_delete_nbr2_entry(s, n) ELSE s
  IN  [t EXCEPT !.nbr[n].is_sym = sym, !.changed = @ \/ (sym /\ ~e.is_sym)]

olsr_update_nbr_status(s, n) ==
  LET e == s.nbr[n]
      sym == BestLinks(s, n) # {}
      t == IF sym /\ ~e.is_sym /\ n \in s.nbr2 THEN olsr_delete_nbr2_entry(s, n) ELSE s
  IN  [t EXCEPT !.nbr[n].is_sym = sym, !.changed = @ \/ sym # e.is_sym]

\* Mutant: an MPR selector that goes is still counted.
olsr_delete_link_entry_mprs(s, r) ==
  LET n == Main[r]
      t == [s EXCEPT !.nbr[n].linkcount = @ - 1]
      u == IF t.nbr[n].linkcount = 0 THEN olsr_delete_nbr_entry(t, n) ELSE t
  IN  Changed([u EXCEPT !.link[r] = None])

olsr_delete_link_entry(s, r) ==
  LET n == Main[r]
      t == [s EXCEPT !.nbr[n].linkcount = @ - 1,
                     !.nbr[n].mprs_count = IF s.link[r].is_mprs THEN @ - 1 ELSE @]
      u == IF t.nbr[n].linkcount = 0 THEN olsr_delete_nbr_entry(t, n) ELSE t
  IN  Changed([u EXCEPT !.link[r] = None])

\* olsr_add_nbr_entry(): the edge to the neighbor is new and has no cost yet.
NewNbr == [is_sym |-> FALSE, willingness |-> "WILL_NEVER", linkcount |-> 0, mprs_count |-> 0,
           edge_usable |-> FALSE]

NewLink == [status |-> "ASYM", link_sym_timer |-> FALSE, usable |-> FALSE, is_mprs |-> FALSE]

add_link_entry(s, r) ==
  LET n == Main[r]
      t == IF s.nbr[n] = None THEN [s EXCEPT !.nbr[n] = NewNbr] ELSE s
  IN  IF s.link[r] # None THEN s
      ELSE Changed([t EXCEPT !.link[r] = NewLink, !.nbr[n].linkcount = @ + 1])

\* The sym timer is stopped by LOST, started by SYM and ASYM, and goes on otherwise.
update_link_entry(s, h) ==
  LET t == add_link_entry(s, h.from)
      sym == CASE h.status = "LOST" -> FALSE
               [] h.status \in {"SYM", "ASYM"} -> TRUE
               [] OTHER -> t.link[h.from].link_sym_timer
  IN  olsr_update_nbr_status(
        [t EXCEPT !.link[h.from].status = h.status, !.link[h.from].link_sym_timer = sym],
        Main[h.from])

olsr_update_mprs_set(s, h) ==
  LET was == s.link[h.from].is_mprs
      is == h.status = "SYM" /\ h.mpr
      step == IF is /\ ~was THEN 1 ELSE IF ~is /\ was THEN -1 ELSE 0
  IN  [s EXCEPT !.link[h.from].is_mprs = is, !.nbr[Main[h.from]].mprs_count = @ + step]

\* "Check willingness" in hello_tap().
UpdateWillingness(s, h) ==
  LET n == Main[h.from]
  IN  IF s.nbr[n].willingness = h.will THEN s
      ELSE Changed([s EXCEPT !.nbr[n].willingness = h.will])

\* olsr_link_nbr_nbr2() for all of as; a connector that is there gets a new time.
olsr_link_nbr_nbr2(s, n, as) ==
  [s EXCEPT !.nbr2 = @ \cup as, !.con = @ \cup {<<n, a>> : a \in as}]

\* The two-hop neighbors are entered also when there is no link to reach them by.
process_message_neighbors(s, h) ==
  LET n == Main[h.from]
      t == olsr_link_nbr_nbr2(s, n, h.neigh)
  IN  IF s.nbr[n].willingness = "WILL_NEVER" THEN s
      ELSE IF BestLinks(s, n) = {} \/ h.neigh = {} THEN t
      ELSE Changed(t)

\* The part of olsr_process_changes() that matters here: the MPR calculation.
Process(s) ==
  /\ Become([s EXCEPT !.changed = FALSE])
  /\ unseen' = (~s.changed /\ (unseen \/ Differs(s)))
-----------------------------------------------------------------------------
hello_tap(h) ==
  LET s1 == update_link_entry(State, h)
      s2 == olsr_update_mprs_set(s1, h)
      s3 == UpdateWillingness(s2, h)
  IN  Process(process_message_neighbors(s3, h))

\* The main loop, after the timers.
olsr_process_changes == changes_neighborhood /\ Process(State)

Step(s) == Become(s) /\ unseen' = (unseen \/ Differs(s))

\* Only a link that the last HELLO called symmetric updates its neighbor.
olsr_expire_link_sym_timer(r) ==
  /\ IsSym(State, r)
  /\ LET s == [State EXCEPT !.link[r].link_sym_timer = FALSE]
     IN  IF link[r].status # "SYM" THEN Step(s)
         ELSE \E st \in {"ASYM", "LOST"} :
                Step(Changed(olsr_update_nbr_status([s EXCEPT !.link[r].status = st], Main[r])))

olsr_expire_link_entry(r) ==
  /\ link[r] # None
  /\ Step(olsr_delete_link_entry(State, r))

\* Called by remove_interface(): its links go one after the other; here the links of
\* one interface are those of at most two remotes.
olsr_delete_link_entry_by_if(i) ==
  LET gone == {r \in Remotes : Local[r] = i /\ link[r] # None}
  IN  \/ \E r \in gone : gone = {r} /\ Step(olsr_delete_link_entry(State, r))
      \/ \E r, q \in gone : r # q /\ gone = {r, q}
           /\ Step(olsr_delete_link_entry(olsr_delete_link_entry(State, r), q))

olsr_expire_nbr_con(c) ==
  /\ c \in con
  /\ Step(olsr_delete_nbr_con(State, {c}))

\* lq_etxff_timer(): new costs for all links, then olsr_neighbor_cost_may_changed() for
\* all neighbors.  Their is_sym is left as it is.
lq_etxff_timer(good) ==
  LET s == [State EXCEPT !.link = [r \in Remotes |->
                IF link[r] = None THEN None ELSE [link[r] EXCEPT !.usable = r \in good]]]
      edge(n) == BestLinks(s, n) # {}
  IN  /\ good \subseteq {r \in Remotes : link[r] # None}
      /\ Step([s EXCEPT
           !.nbr = [n \in Nodes |-> IF nbr[n] = None THEN None
                                    ELSE [nbr[n] EXCEPT !.edge_usable = edge(n)]],
           !.changed = @ \/ \E n \in Nodes : nbr[n] # None /\ nbr[n].edge_usable # edge(n)])

\* Everything but the HELLOs.
Internal ==
  \/ olsr_process_changes
  \/ \E r \in Remotes : olsr_expire_link_sym_timer(r) \/ olsr_expire_link_entry(r)
  \/ \E i \in Ifaces : olsr_delete_link_entry_by_if(i)
  \/ \E c \in con : olsr_expire_nbr_con(c)
  \/ \E good \in SUBSET Remotes : lq_etxff_timer(good)

Next == Internal \/ \E h \in Hello : hello_tap(h)

Spec == Init /\ [][Next]_vars
-----------------------------------------------------------------------------
(* Every variable has its type. *)
TypeOK ==
  /\ link \in [Remotes -> LinkEntry \cup {None}]
  /\ nbr \in [Nodes -> NbrEntry \cup {None}]
  /\ nbr2 \subseteq Others /\ con \subseteq Nodes \X Others
  /\ changes_neighborhood \in BOOLEAN /\ unseen \in BOOLEAN

LinksOf(n) == {r \in Remotes : Main[r] = n /\ link[r] # None}

(* A neighbor lives as long as one of its links, and its counters of links and of MPR
   selecting links are exact, in whatever order HELLOs, timers and interfaces change
   them.  olsr_forward_message() floods for a neighbor by the second counter, and a
   first counter too low frees a neighbor its links still point to. *)
CountsExact ==
  \A n \in Nodes :
    IF nbr[n] = None THEN LinksOf(n) = {}
    ELSE /\ nbr[n].linkcount = Cardinality(LinksOf(n)) /\ nbr[n].linkcount > 0
         /\ nbr[n].mprs_count = Cardinality({r \in LinksOf(n) : link[r].is_mprs})

(* A two-hop neighbor is in the table exactly while a connector leads to it, and a
   connector only leads from a neighbor that exists.  A connector goes with its own timer,
   with its neighbor, or because the two-hop neighbor became a symmetric neighbor, and
   never because another connector to the same two-hop neighbor went. *)
TwoHopExact ==
  [][ /\ nbr2' = {c[2] : c \in con'}
      /\ \A c \in con' : nbr'[c[1]] # None
      /\ \A c \in con \ con' :
           \/ con \ con' = {c} /\ link' = link /\ nbr' = nbr
           \/ nbr'[c[1]] = None
           \/ c[2] \in Nodes /\ nbr'[c[2]] # None /\ nbr'[c[2]].is_sym ]_vars

(* No change of a neighbor's symmetry or willingness escapes the MPR calculation: when
   changes_neighborhood is not set, the last calculation saw what there is now. *)
NeighborsSeen == unseen => changes_neighborhood

(* lq_mpr.c of a symmetric neighbor without a link: "this should not happen, a
   symmetric 1-hop neighbor should have a symmetric link". *)
SymHasLink ==
  \A n \in Nodes : nbr[n] # None /\ nbr[n].is_sym => \E r \in LinksOf(n) : IsSym(State, r)
=============================================================================

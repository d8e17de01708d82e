---------------------------- MODULE TopologySet ----------------------------
(***************************************************************************)
(* The link state database of a node (src/src/tc_set.c): a tc_entry for    *)
(* every node it has heard of, with the edges the node's TC messages       *)
(* announce, and for every edge its inverse.  An edge that is there only   *)
(* because of its inverse is virtual.  Our own edges belong to the         *)
(* entries of the neighbor table, which hold them.                         *)
(*                                                                         *)
(* Other nodes announce sets of neighbors under an advertised neighbor     *)
(* sequence number (ANSN) in the fragments of module TcBorder; fragments   *)
(* are lost, repeated and late.  The cost of an edge is broken or not.     *)
(* said and heard are what the originators announced last and which of its *)
(* fragments arrived: they are not part of the node.                       *)
(***************************************************************************)
EXTENDS TcBorder, Functions

CONSTANTS Me,            \* router_id
          Others,        \* the addresses of the other nodes
          Near,          \* those in reach of us (a bound of the model)
          Restarting,    \* those that restart (a bound of the model)
          HalfSpace,     \* half of the number space of the ANSN, 2^15
          FirstAnsn,     \* the ANSN the others start with
          MaxChanges,    \* how often they change what they announce (a bound of the model)
          None

ASSUME TopologyAssumption ==
  /\ Others \cup {Me} \subseteq Address \ {0, 2^Bits - 1}   \* no broadcast addresses
  /\ Near \cup Restarting \subseteq Others /\ Me \notin Others /\ None \notin Address
  /\ HalfSpace \in Nat \ {0} /\ FirstAnsn \in 0 .. 2 * HalfSpace - 1
  /\ MaxChanges \in 0 .. HalfSpace - 1

VARIABLES tc,            \* tc_tree
          edge,          \* the edge trees of all entries
          nbr,           \* the neighbor entries that hold an edge
          changes_topology,
          said, heard

vars == <<tc, edge, nbr, changes_topology, said, heard>>

Nodes == Others \cup {Me}
Pairs == {e \in Nodes \X Nodes : e[1] # e[2]}
SeqNo == 0 .. 2 * HalfSpace - 1

TcEntry == [ansn : SeqNo,
            tc_seq : BOOLEAN,              \* tc_seq is not -1
            virtual : BOOLEAN,
            validity_timer : BOOLEAN, edge_gc_timer : BOOLEAN]
EdgeEntry == [virtual : BOOLEAN, ansn : SeqNo, usable : BOOLEAN]

\* SEQNO_GREATER_THAN and olsr_seqno_diff() < 0
Greater(s1, s2) == \/ s1 > s2 /\ s1 - s2 < HalfSpace
                   \/ s2 > s1 /\ s2 - s1 >= HalfSpace
Older(s1, s2) == (s1 - s2) % (2 * HalfSpace) >= HalfSpace

\* The fragments of the TC that announces adv.
Fragments == [adv \in SUBSET Nodes |-> olsr_output_lq_tc(adv, adv)]

\* The database the functions below work on, one after the other.
State == [tc |-> tc, edge |-> edge, nbr |-> nbr, changed |-> changes_topology]
Become(s) == tc' = s.tc /\ edge' = s.edge /\ nbr' = s.nbr /\ changes_topology' = s.changed

Between(e, a, bs) == \/ e[1] = a /\ e[2] \in bs
                     \/ e[2] = a /\ e[1] \in bs
EdgesOf(s, a) == {b \in Nodes \ {a} : s.edge[<<a, b>>] # None}
Held(s, a, b) == a = Me /\ b \in s.nbr
-----------------------------------------------------------------------------
NewEntry == [ansn |-> 0, tc_seq |-> FALSE, virtual |-> FALSE,
             validity_timer |-> FALSE, edge_gc_timer |-> FALSE]

\* olsr_locate_tc_entry() of all as.
olsr_add_tc_entry(s, as) ==
  [s EXCEPT !.tc = [a \in Nodes |-> IF a \in as /\ s.tc[a] = None THEN NewEntry ELSE s.tc[a]]]

\* New edges from a to all bs, with their virtual inverses.  Their cost is calculated
\* before the message's link quality is read.
olsr_add_tc_edge_entry(s, a, bs, ansn) ==
  [olsr_add_tc_entry(s, bs) EXCEPT !.edge = [e \in Pairs |->
     CASE e[1] = a /\ e[2] \in bs -> [virtual |-> FALSE, ansn |-> ansn, usable |-> FALSE]
       [] e[2] = a /\ e[1] \in bs /\ s.edge[e] = None -> [virtual |-> TRUE, ansn |-> 0, usable |-> FALSE]
       [] OTHER -> s.edge[e]]]

\* Mutant: it is forgotten that neighbors hold an edge.
olsr_delete_tc_edge_entry_held(s, a, bs) ==
  LET gone == {b \in bs : s.edge[<<b, a>>].virtual}
  IN  [s EXCEPT
        !.edge = [e \in Pairs |->
          CASE Between(e, a, gone) -> None
            [] e[1] = a /\ e[2] \in bs \ gone -> [s.edge[e] EXCEPT !.virtual = TRUE]
            [] OTHER -> s.edge[e]],
        !.changed = @ \/ gone # {}]

\* An edge whose inverse is real or held becomes virtual; otherwise both go.
olsr_delete_tc_edge_entry(s, a, bs) ==
  LET gone == {b \in bs : s.edge[<<b, a>>].virtual /\ ~Held(s, b, a)}
  IN  [s EXCEPT
        !.edge = [e \in Pairs |->
          CASE Between(e, a, gone) -> None
            [] e[1] = a /\ e[2] \in bs \ gone -> [s.edge[e] EXCEPT !.virtual = TRUE]
            [] OTHER -> s.edge[e]],
        !.changed = @ \/ gone # {}]

\* Mutant: the edges of the node are not deleted.
olsr_delete_tc_entry_keeps(s, a) ==
  [s EXCEPT !.tc[a] = IF EdgesOf(s, a) = {} THEN None
                      ELSE [@ EXCEPT !.virtual = TRUE, !.ansn = 0,
                                     !.validity_timer = FALSE, !.edge_gc_timer = FALSE]]

\* The node stays in the database while other nodes announce edges to it.
olsr_delete_tc_entry(s, a) ==
  LET t == olsr_delete_tc_edge_entry(s, a, EdgesOf(s, a))
  IN  [t EXCEPT !.tc[a] =
         IF EdgesOf(t, a) = {} THEN None
         ELSE [@ EXCEPT !.virtual = TRUE, !.ansn = 0,
                        !.validity_timer = FALSE, !.edge_gc_timer = FALSE]]

\* Mutant: only edges that go are signalled, not those that become virtual.
delete_outdated_tc_edges_silent(s, a) ==
  LET old == {b \in EdgesOf(s, a) : Greater(s.tc[a].ansn, s.edge[<<a, b>>].ansn)}
  IN  olsr_delete_tc_edge_entry(s, a, old)

delete_outdated_tc_edges(s, a) ==
  LET old == {b \in EdgesOf(s, a) : Greater(s.tc[a].ansn, s.edge[<<a, b>>].ansn)}
  IN  IF old = {} THEN s ELSE [olsr_delete_tc_edge_entry(s, a, old) EXCEPT !.changed = TRUE]

\* The cost is set to LINK_COST_BROKEN first.
olsr_delete_revoked_tc_edges(s, a, ansn, range) ==
  LET old == {b \in EdgesOf(s, a) \cap range : Greater(ansn, s.edge[<<a, b>>].ansn)}
      broken == [s EXCEPT !.edge = [e \in Pairs |->
                   IF e[1] = a /\ e[2] \in old THEN [s.edge[e] EXCEPT !.usable = FALSE]
                   ELSE s.edge[e]]]
  IN  IF old = {} THEN s ELSE [olsr_delete_tc_edge_entry(broken, a, old) EXCEPT !.changed = TRUE]

\* olsr_tc_update_edge() for all bs.
olsr_tc_update_edge(s, a, ansn, bs) ==
  LET known == bs \cap EdgesOf(s, a)
      updated == [s EXCEPT !.edge = [e \in Pairs |->
                    IF e[1] = a /\ e[2] \in known
                    THEN [virtual |-> FALSE, ansn |-> ansn, usable |-> TRUE]
                    ELSE s.edge[e]]]
      added == IF bs = known THEN updated ELSE olsr_add_tc_edge_entry(updated, a, bs \ known, ansn)
  IN  IF bs = {} THEN s ELSE [added EXCEPT !.tc[a].virtual = FALSE, !.changed = TRUE]
-----------------------------------------------------------------------------
Init ==
  /\ tc = [a \in Nodes |-> IF a = Me THEN NewEntry ELSE None]
  /\ edge = [e \in Pairs |-> None]
  /\ nbr = {}
  /\ changes_topology = TRUE
  /\ said \in [Others -> {[ansn |-> FirstAnsn, adv |-> {}, changes |-> 0, restarted |-> FALSE]}]
  /\ heard = [n \in Others |-> {}]

\* Another node's neighborhood changes, and with it the ANSN (olsr_process_changes()).
Announce(n, adv) ==
  /\ said[n].changes < MaxChanges
  /\ said' = [said EXCEPT ![n] = [@ EXCEPT !.ansn = (@ + 1) % (2 * HalfSpace), !.adv = adv,
                                           !.changes = @ + 1]]
  /\ heard' = [heard EXCEPT ![n] = {}]
  /\ UNCHANGED <<tc, edge, nbr, changes_topology>>

\* Another node restarts, and counts again from a number below the one it had reached.
Restart(n, adv) ==
  /\ n \in Restarting /\ said[n].changes > 0 /\ ~said[n].restarted
  /\ said' = [said EXCEPT ![n] = [@ EXCEPT !.ansn = (@ - 1) % (2 * HalfSpace), !.adv = adv,
                                           !.restarted = TRUE]]
  /\ heard' = [heard EXCEPT ![n] = {}]
  /\ UNCHANGED <<tc, edge, nbr, changes_topology>>

\* Mutant: no TC is too old.
Discards_none(n, ansn, reset) == FALSE

\* "this TC is too old, discard it".  reset: the status of the message is
\* RESET_SEQNO_OLSR_MESSAGE.
Discards(n, ansn, reset) ==
  tc[n] # None /\ ~reset /\ tc[n].tc_seq /\ ~tc[n].virtual /\ Older(ansn, tc[n].ansn)

\* What olsr_input_tc() does with a fragment that is not discarded.
Accept(n, ansn, m) ==
  LET s == olsr_add_tc_entry(State, {n})
      known == [s EXCEPT !.tc[n].tc_seq = TRUE, !.tc[n].ansn = ansn]
      t == [olsr_tc_update_edge(known, n, ansn, m.edges) EXCEPT !.tc[n].validity_timer = TRUE]
  IN  IF m.edges = {} THEN [t EXCEPT !.tc[n].edge_gc_timer = TRUE]
      ELSE olsr_delete_revoked_tc_edges(t, n, ansn, Claims(m))

\* A fragment of what n announces now.  After a restart the duplicate set may recognise
\* that n has reset its numbers.
olsr_input_tc(n, reset) ==
  LET tcs == Fragments[said[n].adv]
  IN  /\ reset => said[n].restarted
      /\ ~Discards(n, said[n].ansn, reset)
      /\ \E f \in DOMAIN tcs :
           /\ Become(Accept(n, said[n].ansn, tcs[f]))
           /\ heard' = [heard EXCEPT ![n] = @ \cup {f}]
      /\ UNCHANGED said

\* A late fragment of what n announced before, which may have been any set; before a
\* restart the number was higher.  A virtual entry takes it although it has seen the new
\* number (an empty TC leaves it virtual), and so does, after a restart, any entry: what
\* was heard of the new announcement is then undone.
LateTc(n, adv) ==
  LET ansn == (IF said[n].restarted THEN said[n].ansn + 1 ELSE said[n].ansn - 1) % (2 * HalfSpace)
      undone == said[n].restarted \/ (tc[n] # None /\ tc[n].virtual)
  IN  /\ said[n].changes > 0
      /\ ~Discards(n, ansn, FALSE)
      /\ \E m \in Range(Fragments[adv]) : Become(Accept(n, ansn, m))
      /\ heard' = IF undone THEN [heard EXCEPT ![n] = {}] ELSE heard
      /\ UNCHANGED said

olsr_expire_tc_entry(n) ==
  /\ tc[n] # None /\ tc[n].validity_timer
  /\ Become([olsr_delete_tc_entry(State, n) EXCEPT !.changed = TRUE])
  /\ heard' = [heard EXCEPT ![n] = {}]
  /\ UNCHANGED said

olsr_expire_tc_edge_gc(n) ==
  /\ tc[n] # None /\ tc[n].edge_gc_timer
  /\ Become(delete_outdated_tc_edges([State EXCEPT !.tc[n].edge_gc_timer = FALSE], n))
  /\ UNCHANGED <<said, heard>>

\* HNA and MID messages make an entry for their originator.
olsr_locate_tc_entry(n) ==
  /\ tc[n] = None
  /\ Become(olsr_add_tc_entry(State, {n}))
  /\ UNCHANGED <<said, heard>>

\* olsr_update_mid_entry(): the address turns out to be the alias of another node.
olsr_flush_tc_duplicates(n) ==
  /\ tc[n] # None
  /\ Become([olsr_delete_tc_entry(State, n) EXCEPT !.changed = TRUE])
  /\ heard' = [heard EXCEPT ![n] = {}]
  /\ UNCHANGED said

\* The new neighbor takes over an edge that is there, virtual or not.
olsr_add_nbr_entry(n) ==
  /\ n \in Near \ nbr
  /\ LET s == IF edge[<<Me, n>>] = None THEN olsr_add_tc_edge_entry(State, Me, {n}, 0) ELSE State
     IN  Become([s EXCEPT !.nbr = @ \cup {n}])
  /\ UNCHANGED <<said, heard>>

\* Mutant: the edge of the neighbor is left as it is.
olsr_delete_nbr_entry_keeps(n) ==
  /\ n \in nbr
  /\ Become([State EXCEPT !.nbr = @ \ {n}, !.changed = TRUE])
  /\ UNCHANGED <<said, heard>>

olsr_delete_nbr_entry(n) ==
  /\ n \in nbr
  /\ LET s == [State EXCEPT !.nbr = @ \ {n}]
     IN  Become([olsr_delete_tc_edge_entry(s, Me, {n}) EXCEPT !.changed = TRUE])
  /\ UNCHANGED <<said, heard>>

olsr_neighbor_cost_may_changed(n) ==
  /\ n \in nbr
  /\ Become([State EXCEPT !.edge[<<Me, n>>].usable = ~@, !.changed = TRUE])
  /\ UNCHANGED <<said, heard>>

\* The calculation of the routes has read the database.
olsr_process_changes ==
  /\ changes_topology
  /\ changes_topology' = FALSE
  /\ UNCHANGED <<tc, edge, nbr, said, heard>>

\* What a node can announce.
Sets(n) == SUBSET {b \in Nodes \ {n} : b = Me => n \in Near}

Next ==
  \/ \E n \in Others :
       \/ \E adv \in Sets(n) : Announce(n, adv)
       \/ \E adv \in Sets(n) : Restart(n, adv)
       \/ \E reset \in BOOLEAN : olsr_input_tc(n, reset)
       \/ \E adv \in Sets(n) : LateTc(n, adv)
       \/ olsr_expire_tc_entry(n)
       \/ olsr_expire_tc_edge_gc(n)
       \/ olsr_locate_tc_entry(n)
       \/ olsr_flush_tc_duplicates(n)
       \/ olsr_add_nbr_entry(n)
       \/ olsr_delete_nbr_entry(n)
       \/ olsr_neighbor_cost_may_changed(n)
  \/ olsr_process_changes

Spec == Init /\ [][Next]_vars
-----------------------------------------------------------------------------
(* Every variable has its type. *)
TypeOK ==
  /\ tc \in [Nodes -> TcEntry \cup {None}]
  /\ edge \in [Pairs -> EdgeEntry \cup {None}]
  /\ nbr \subseteq Others
  /\ changes_topology \in BOOLEAN

(* The SPF calculation follows the edges of an entry to their inverses and to the
   entries those belong to, and neighbors point to their edges: whichever side is
   deleted first, by a timer, a message or a neighbor, none of these pointers is left
   dangling. *)
NoDanglingEdge ==
  /\ \A e \in Pairs : edge[e] # None => edge[<<e[2], e[1]>>] # None /\ tc[e[1]] # None
  /\ \A n \in nbr : edge[<<Me, n>>] # None
  /\ tc[Me] # None

(* No pair of edges outlives its reasons: one of the two is announced by its node, or
   a neighbor entry holds it. *)
EdgesHaveReason ==
  \A e \in Pairs :
    edge[e] # None => ~edge[e].virtual \/ ~edge[<<e[2], e[1]>>].virtual
                        \/ Held(State, e[1], e[2]) \/ Held(State, e[2], e[1])

(* A real edge of another node is under a running validity timer: when the node falls
   silent, what it announced goes. *)
RealEdgesExpire ==
  \A n \in Others : (\E b \in EdgesOf(State, n) : ~edge[<<n, b>>].virtual) => tc[n].validity_timer

(* Once all fragments of a TC have arrived, in whatever order and however often, and
   no garbage collection is pending, the real edges of the originator contain all that
   it announces, and nothing that it has withdrawn; an older TC that arrives after them
   does not change that.  Two exceptions.  A virtual entry, which an empty TC leaves
   virtual, takes an older TC (tc_set.c:801): the edges in it are there until the new TC
   is heard again.  After a restart of the originator only the first half holds, until a
   TC from before the restart: edges with a number from before are not revoked until the
   new numbers pass it or the entry expires. *)
EdgesAsAnnounced ==
  \A n \in Others :
    heard[n] = DOMAIN Fragments[said[n].adv] /\ ~tc[n].edge_gc_timer =>
      LET real == {b \in EdgesOf(State, n) : ~edge[<<n, b>>].virtual}
      IN  said[n].adv \subseteq real /\ (said[n].restarted \/ real \subseteq said[n].adv)

\* What the SPF calculation reads of the edges.
Costs == [e \in Pairs |->
            IF edge[e] = None THEN FALSE
            ELSE IF edge[e].virtual THEN edge[<<e[2], e[1]>>].usable ELSE edge[e].usable]

(* No step changes what the SPF calculation would read without leaving a signal for it
   to run. *)
ChangesSignalled == [][~changes_topology' => Costs' = Costs]_vars
=============================================================================

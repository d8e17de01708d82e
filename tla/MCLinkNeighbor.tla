--------------------------- MODULE MCLinkNeighbor ---------------------------
(***************************************************************************)
(* Instance of LinkNeighbor for TLC: a neighbor A with two interfaces on   *)
(* two of ours, a neighbor B, and a node C; A may list B and C as its own  *)
(* neighbors, B may list C.  A behavior is one of three parts, in which    *)
(* the HELLOs are limited to what the part is about: the three links;      *)
(* connectors of two neighbors, also to the same node; the two links of A  *)
(* while it changes its willingness.                                       *)
(***************************************************************************)
EXTENDS LinkNeighbor, TLC

CONSTANTS i1, i2, a1, a2, b1, A, B, C

VARIABLE part

MCLocal == (a1 :> i1) @@ (a2 :> i2) @@ (b1 :> i1)
MCMain == (a1 :> A) @@ (a2 :> A) @@ (b1 :> B)

OneLocal == (a1 :> i1)
OneMain == (a1 :> A)

Sent(h) ==
  CASE part = "links" -> h.will = "WILL_DEFAULT" /\ h.neigh = {}
    [] part = "connectors" -> h.will = "WILL_DEFAULT" /\ h.from # a2
    [] part = "willingness" -> h.from # b1 /\ h.neigh \subseteq {C}

MCInit == Init /\ part \in {"links", "connectors", "willingness"}
MCNext == (Internal \/ \E h \in Hello : Sent(h) /\ hello_tap(h)) /\ UNCHANGED part
MCSpec == MCInit /\ [][MCNext]_<<vars, part>>
=============================================================================
